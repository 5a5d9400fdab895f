--------------------------- MODULE BoundedContract --------------------------
(***************************************************************************)
(* DeliveryContract over a stream that keeps at least its newest `limit'   *)
(* entries: publishing may trim what is older, and a trimmed entry that    *)
(* was not delivered, or not settled, is gone for the consumer group.      *)
(***************************************************************************)
EXTENDS DeliveryContract

VARIABLE limit

BoundedInit == Init /\ limit \in Nat

\* Publishing trims the entries up to n, none among the newest `limit'.
PublishAndTrim ==
  /\ tail' = tail + 1
  /\ \E n \in 0 .. tail + 1 - limit :
       /\ outstanding' = outstanding \ (1 .. n)
       /\ cursor' = IF joined /\ n > cursor THEN n ELSE cursor
  /\ UNCHANGED joined

BoundedNext ==
  /\ Publish \/ PublishAndTrim \/ Join \/ Deliver \/ \E e \in outstanding : Settle(e)
  /\ UNCHANGED limit

BoundedSpec == BoundedInit /\ [][BoundedNext]_<<vars, limit>>
=============================================================================
