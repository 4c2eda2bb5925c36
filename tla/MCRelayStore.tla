------------------------------ MODULE MCRelayStore ------------------------------
(* A small instance of RelayStore for TLC. *)
EXTENDS RelayStore, TLC

CONSTANTS a, b, c, w1, w2, o1, k1, k2, i1, t1

MCCost == [i \in Items |-> 1]
\* a is the system admin; b and c are alike.
Symmetry == Permutations(Workers) \cup Permutations(Handles \ Admins)
================================================================================
