----------------------------- MODULE MCSentinel -----------------------------
(* Three topics in sort order.  "bad" breaks its contract, and so does     *)
(* "anon", without an id, and "garbled", with one that is none; "soft" was *)
(* made while its producer handled "cause", and L2 finds it wrong in a     *)
(* retryable way; L2 may find "cause" wrong too, at first or when it is    *)
(* replayed, and change its mind.                                          *)
EXTENDS Sentinel

CONSTANTS bad, cause, soft, anon, garbled

MCTopicOf == [m \in Messages |-> CASE m \in {cause, anon, garbled} -> 1
                                   [] m = soft -> 2
                                   [] OTHER -> 3]

MCIdOf == [m \in Messages |-> CASE m = anon -> "absent"
                                [] m = garbled -> "garbled"
                                [] OTHER -> "uuid"]

MCL1Of == [m \in Messages |-> IF m \in {bad, anon, garbled} THEN "fail_hard" ELSE "pass"]

MCL2Of == [m \in Messages |-> CASE m = soft -> {"fail_soft"}
                                [] m = cause -> {"pass", "fail_hard"}
                                [] OTHER -> {}]

\* The rule on report ids fails every genuine reports.ingested, each time.
GenuineL2Of == [MCL2Of EXCEPT ![cause] = {"fail_hard"}]

MCCauseOf == [m \in Messages |-> IF m = soft THEN cause ELSE NoMessage]
=============================================================================
