----------------------------- MODULE MCFailSoft -----------------------------
(* Two causes, of which either may fail softly twice. *)
EXTENDS FailSoft

CONSTANTS c1, c2
=============================================================================
