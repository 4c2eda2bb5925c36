---------------------------- MODULE MCRelaySession -----------------------------
(* Small instances of RelaySession for TLC. *)
EXTENDS RelaySession, TLC

CONSTANTS a, b, r1, r2, r3, s1, s2

Symmetry == Permutations(Runs) \cup Permutations(Accounts) \cup Permutations(Servers)
================================================================================
