------------------------------- MODULE MCBuses ------------------------------
(* Small instances of Buses for TLC. *)
EXTENDS Buses

CONSTANTS c1, c2

MCDeployments == {{c1}, {c1, c2}}

\* Ids of one millisecond in the order of their text, and where the third is the
\* first of two digits: "...-10" comes before "...-9".
MCRanks == {<<1, 2, 3>>, <<2, 3, 1>>}
=============================================================================
