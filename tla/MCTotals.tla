------------------------------- MODULE MCTotals -------------------------------
(* Values of the constants for model checking OrderTotals. *)
EXTENDS OrderTotals, TLC

CONSTANTS v1, v2, v3, r1, r2

\* three reviews and one request, and two of each
ReviewSymmetry  == Permutations({v1, v2, v3})
RowSymmetry     == Permutations({v1, v2}) \cup Permutations({r1, r2})
=============================================================================
