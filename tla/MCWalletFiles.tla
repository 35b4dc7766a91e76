----------------------------- MODULE MCWalletFiles -----------------------------
(* Three commands on two paths, one of which begins with the other.          *)
EXTENDS WalletFiles, TLC

CONSTANTS p1, p2, p3, w1, w2

MCProcs == {p1, p2, p3}
MCPaths == {w1, w2}
MCPrefixes == [w \in MCPaths |-> IF w = w2 THEN {w1} ELSE {}]
Perms == Permutations(MCProcs)
================================================================================
