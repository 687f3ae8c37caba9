--------------------------- MODULE MCConnectionPool ---------------------------
(***************************************************************************)
(* ConnectionPool for TLC: requests are interchangeable model values.      *)
(***************************************************************************)
EXTENDS ConnectionPool, TLC

CONSTANTS r1, r2, r3, r4

Symmetry == Permutations(Requests)
================================================================================
