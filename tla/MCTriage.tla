------------------------------ MODULE MCTriage ------------------------------
(* Two review requests, over a message that breaks its contract and one    *)
(* whose L2 rules may answer differently when asked again.                 *)
EXTENDS Triage

CONSTANTS r1, r2, bad, fickle

MCTopicOf == [m \in Messages |-> IF m = bad THEN 1 ELSE 2]

MCIdOf == [m \in Messages |-> "uuid"]

MCL1Of == [m \in Messages |-> IF m = bad THEN "fail_hard" ELSE "pass"]

MCL2Of == [m \in Messages |-> IF m = bad THEN {} ELSE {"warn", "fail_hard"}]

MCCauseOf == [m \in Messages |-> NoMessage]
=============================================================================
