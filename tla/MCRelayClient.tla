----------------------------- MODULE MCRelayClient -----------------------------
(* Small instances of RelayClient for TLC. *)
EXTENDS RelayClient, TLC

CONSTANTS r1, r2, r3, m1, m2

Symmetry == Permutations(Requests) \cup Permutations(Relays)
================================================================================
