--------------------------- MODULE MCApprovalGate ---------------------------
(* Instances of ApprovalGate for TLC.                                       *)
EXTENDS ApprovalGate, TLC

CONSTANTS c1, c2, d1, d2, w1, none

(* "ls" is allowlisted and harmless, "npm" is neither allowlisted nor       *)
(* dangerous, "sudo" is dangerous.                                          *)
MCCommands == {"ls", "npm", "sudo"}
MCDangerous == {"sudo"}
MCAllowlist == {"ls"}

Symmetry == Permutations(Calls) \cup Permutations(Deciders)
=============================================================================
