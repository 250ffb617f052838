------------------------------ MODULE EventLog ------------------------------
(***************************************************************************)
(* What the rest of the sidecar relies on when it hands an event to the    *)
(* activity store: per session, a log that only ever grows at its end and  *)
(* survives restarts, and the newest events of this run.  Both get an      *)
(* event in the same step, so they never disagree on the order of events.  *)
(* The log may miss an event (its write failed); nothing else changes it.  *)
(***************************************************************************)
EXTENDS Naturals, Sequences

CONSTANTS
    Sessions,
    Events,     \* the events there can be
    Kept        \* how many of a session's events are at hand

VARIABLES
    recorded,   \* the log of each session
    recent      \* its newest events of this run

vars == <<recorded, recent>>

Newest(s, n) == IF Len(s) <= n THEN s ELSE SubSeq(s, Len(s) - n + 1, Len(s))

Init ==
    /\ recorded = [s \in Sessions |-> <<>>]
    /\ recent = [s \in Sessions |-> <<>>]

Record(s, e) ==
    /\ \/ recorded' = [recorded EXCEPT ![s] = Append(@, e)]
       \/ UNCHANGED recorded
    /\ recent' = [recent EXCEPT ![s] = Newest(Append(@, e), Kept)]

Restart ==
    /\ recent' = [s \in Sessions |-> <<>>]
    /\ UNCHANGED recorded

Next == Restart \/ \E s \in Sessions, e \in Events : Record(s, e)

Spec == Init /\ [][Next]_vars
=============================================================================
