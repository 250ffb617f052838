-------------------------- MODULE MCActivityStore ---------------------------
(* Instances of ActivityStore for TLC.                                      *)
EXTENDS ActivityStore, TLC

CONSTANTS s1, s2, c1, c2, c3, u1

MCSessionOf == [c \in Callers |-> IF c = c3 THEN s2 ELSE s1]

ShortEvents == [ts : 0..2, risk : {1, 3},
                kind : {"screenshot", "tool_call", "command_run"}]
MCShortLogs == UNION {[1..n -> ShortEvents] : n \in 1..3}
=============================================================================
