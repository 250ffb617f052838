----------------------------- MODULE MCRpcServer ----------------------------
(* Instances of RpcServer for TLC. *)
EXTENDS RpcServer, TLC

CONSTANTS app, cli, e1, e2, reply

NoRequests == {}
SecondIsSilent == {2}
=============================================================================
