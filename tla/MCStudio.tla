------------------------------- MODULE MCStudio -------------------------------
(***************************************************************************)
(* Studio for TLC: the queries are interchangeable model values.           *)
(***************************************************************************)
EXTENDS Studio, TLC

CONSTANTS q1, q2, q3, q4

Symmetry == Permutations(Texts)
================================================================================
