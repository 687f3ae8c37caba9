---------------------------- MODULE MCServerMetrics ----------------------------
(***************************************************************************)
(* ServerMetrics for TLC: two clients and the two kinds of events that     *)
(* reach different counters.                                               *)
(***************************************************************************)
EXTENDS ServerMetrics, TLC

CONSTANTS r1, r2, r3, s1, c1, c2

MCEvents == {[client |-> c1, status |-> 200, format |-> "C", amount |-> 1],
             [client |-> c2, status |-> 500, format |-> "P", amount |-> 2]}

\* One kind of event, where the reader's interleaving is what matters.
OneEvent == {[client |-> c1, status |-> 200, format |-> "C", amount |-> 1]}

Symmetry == Permutations(Requests)
================================================================================
