------------------------- MODULE MCBrowserSessions --------------------------
(* Instances of BrowserSessions for TLC.                                    *)
EXTENDS BrowserSessions, TLC

CONSTANTS s1, s2, x1, x2, x3

MCShotOf == [x \in Shots |-> IF x = x3 THEN s2 ELSE s1]
=============================================================================
