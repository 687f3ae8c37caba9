----------------------------- MODULE MCQueryServer -----------------------------
(***************************************************************************)
(* QueryServer for TLC: requests are model values, and those whose clients *)
(* behave alike are interchangeable in the runs that check safety only.    *)
(***************************************************************************)
EXTENDS QueryServer, TLC

CONSTANTS r1, r2, r3

\* No request of the safety runs is Stalled, so all of them are alike.
Symmetry == Permutations(Requests)
================================================================================
