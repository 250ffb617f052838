------------------------------ MODULE MCMcpPeer -----------------------------
(* Instances of McpPeer for TLC. *)
EXTENDS McpPeer, TLC

CONSTANTS c1, c2, c3, none

Symmetry == Permutations(Calls)
=============================================================================
