--------------------------- MODULE MCAgentRuntime ---------------------------
(* Two consumers of one group; two entries that carry the same idempotency *)
(* key, as a redelivered upstream step produces them.                      *)
EXTENDS AgentRuntime

CONSTANTS c1, c2, k1

MCKeyOf == [e \in 1..N |-> k1]
=============================================================================
