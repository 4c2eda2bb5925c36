----------------------------- MODULE MCRelayServer -----------------------------
(* Small instances of RelayServer for TLC. *)
EXTENDS RelayServer, TLC

CONSTANTS a, b, c1, c2, c3, o1, o2, Shared

\* Shared: a and b start in one organization; otherwise they meet by an invite.
MCMembers == [o \in Orgs |-> IF o = o1 THEN (IF Shared THEN {a, b} ELSE {a}) ELSE {}]
\* Devices: a on c1, b on c2 and c3; so b can come back while a stays.
AnyAccount == [c \in Conns |-> Handles]
Devices == [c \in Conns |-> IF c = c1 THEN {a} ELSE {b}]
Symmetry == Permutations(Conns)
================================================================================
