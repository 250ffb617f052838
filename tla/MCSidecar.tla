----------------------------- MODULE MCSidecar ------------------------------
(* Instances of Sidecar for TLC.                                            *)
EXTENDS Sidecar, TLC

CONSTANT w1
=============================================================================
