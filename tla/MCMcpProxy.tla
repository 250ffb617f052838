----------------------------- MODULE MCMcpProxy -----------------------------
(* Instances of McpProxy for TLC.                                           *)
EXTENDS McpProxy, TLC

CONSTANTS a1, r1, r2, r3, u1, note, shoot

MCAgentOf == [r \in Requests |-> a1]
MCAsks == [r \in Requests |-> IF r = r1 THEN List
                              ELSE IF r = r2 THEN shoot ELSE note]
MCAdvertised == u1 :> {shoot, note}
=============================================================================
