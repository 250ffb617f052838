--------------------------- MODULE MCPtySessions ---------------------------
(* Instances of PtySessions for TLC. *)
EXTENDS PtySessions, TLC

CONSTANTS s1, s2, k1, k2, none

Symmetry == Permutations(Sessions) \cup Permutations(Killers)
=============================================================================
