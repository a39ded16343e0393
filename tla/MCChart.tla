------------------------------- MODULE MCChart -------------------------------
(* Three codes allow a group, a group below it and a leaf. *)
EXTENDS ChartOfAccounts, TLC

CONSTANTS w1, w2, c1, c2, c3

Symmetry == Permutations(Workers) \cup Permutations(Codes) \cup Permutations(Kinds)
=============================================================================
