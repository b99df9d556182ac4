---------------------------- MODULE MCReporting ----------------------------
(* Reporting for TLC: two interchangeable tests. *)
EXTENDS Reporting, TLC

Symmetry == Permutations(Nodes)
=============================================================================
