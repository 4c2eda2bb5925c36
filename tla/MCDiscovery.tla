------------------------------ MODULE MCDiscovery ------------------------------
(* Two other programs and this one's listener, for TLC. *)
EXTENDS Discovery, TLC
CONSTANTS i1, i2
Symmetry == Permutations(Instances)
================================================================================
