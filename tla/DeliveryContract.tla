-------------------------- MODULE DeliveryContract --------------------------
(***************************************************************************)
(* What the bus promises one consumer group of one topic (bus/base.py):    *)
(* nothing from before the group joined, then every entry in publishing    *)
(* order for its first delivery, outstanding until it is settled, settled  *)
(* one at a time and once and for all.                                     *)
(*                                                                         *)
(* Entries are named by their position in the stream.                      *)
(***************************************************************************)
EXTENDS Integers

VARIABLES
  joined,       \* the consumer group exists
  tail,         \* entries published
  cursor,       \* entries delivered at least once, or older than the group
  outstanding   \* delivered, not settled

vars == <<joined, tail, cursor, outstanding>>

Init ==
  /\ joined \in BOOLEAN
  /\ tail = 0
  /\ cursor = 0
  /\ outstanding = {}

Publish ==
  /\ tail' = tail + 1
  /\ UNCHANGED <<joined, cursor, outstanding>>

\* A group starts at the tail: the backlog is not replayed.
Join ==
  /\ ~joined
  /\ joined' = TRUE
  /\ cursor' = tail
  /\ UNCHANGED <<tail, outstanding>>

Deliver ==
  /\ joined
  /\ \E n \in cursor + 1 .. tail :
       /\ cursor' = n
       /\ outstanding' = outstanding \cup (cursor + 1 .. n)
  /\ UNCHANGED <<joined, tail>>

Settle(e) ==
  /\ e \in outstanding
  /\ outstanding' = outstanding \ {e}
  /\ UNCHANGED <<joined, tail, cursor>>

Next == Publish \/ Join \/ Deliver \/ \E e \in outstanding : Settle(e)

Spec == Init /\ [][Next]_vars
=============================================================================
