------------------------------ MODULE MCIntake ------------------------------
(* Two workers and three submissions, from one device or from two.         *)
EXTENDS Intake, TLC

CONSTANTS w1, w2, d1, d2

Interchangeable == Permutations(Workers)
=============================================================================
