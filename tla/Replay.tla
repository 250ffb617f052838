------------------------------- MODULE Replay -------------------------------
(***************************************************************************)
(* Session Replay (internal/replay/replay.go): the timeline of a session   *)
(* and the snapshot at a time, computed from the events of its log in the  *)
(* order the file has them, with definitions of what they should be.       *)
(*                                                                         *)
(* An event is a record with at least the fields ts, kind and risk.  Times *)
(* and durations count seconds; the risk is its rank (riskRank).           *)
(***************************************************************************)
EXTENDS Integers, Sequences, FiniteSets, SequencesExt

IsLog(evs) ==
    /\ evs \in Seq(Range(evs))
    /\ \A i \in DOMAIN evs : evs[i].ts \in Int /\ evs[i].risk \in Nat

Ordered(evs) == \A i, j \in DOMAIN evs : i < j => evs[i].ts <= evs[j].ts

(* Division of durations in Go truncates towards zero. *)
Quotient(d, b) == IF d >= 0 THEN d \div b ELSE -((-d) \div b)

Start(evs) == evs[1].ts
End(evs) == Last(evs).ts
Bucket(seconds) == IF seconds <= 0 THEN 5 ELSE seconds
Key(evs, e, seconds) == Quotient(e.ts - Start(evs), Bucket(seconds))

(* Mutant of Count: the risk of the last event counts. *)
CountLast(m, e) == [count |-> m.count + 1, kind |-> e.kind, risk |-> e.risk]

(* One more event in a moment. *)
Count(m, e) ==
    [count |-> m.count + 1, kind |-> e.kind,
     risk |-> IF e.risk > m.risk THEN e.risk ELSE m.risk]

NoMoment == [count |-> 0, kind |-> "none", risk |-> 0]

(* One more event in the moments by bucket. *)
Grouped(evs, seconds, ms, e) ==
    LET k == Key(evs, e, seconds)
        m == IF k \in DOMAIN ms THEN ms[k] ELSE NoMoment
    IN [j \in DOMAIN ms \cup {k} |-> IF j = k THEN Count(m, e) ELSE ms[j]]

Buckets(evs, seconds) ==
    LET ms[n \in 0..Len(evs)] ==
            IF n = 0 THEN [k \in {} |-> NoMoment]
            ELSE Grouped(evs, seconds, ms[n - 1], evs[n])
    IN ms

(* Sorting the keys gives the list of the code. *)
Moments(evs, seconds) == Buckets(evs, seconds)[Len(evs)]

Window(seconds) == IF seconds <= 0 THEN 30 ELSE seconds

(* The loop stops at the first event after t. *)
Scanned(evs, t) ==
    LET late == {i \in DOMAIN evs : evs[i].ts > t}
    IN IF late = {} THEN Len(evs) ELSE Min(late) - 1

(* The latest event of a kind is a sequence of at most one. *)
NoSnapshot == [shot |-> <<>>, call |-> <<>>, commands |-> <<>>]

(* One more event; the window begins at from. *)
Seen(snap, e, from) ==
    [shot |-> IF e.kind = "screenshot" THEN <<e>> ELSE snap.shot,
     call |-> IF e.kind = "tool_call" THEN <<e>> ELSE snap.call,
     commands |-> IF e.kind = "command_run" /\ e.ts >= from
                  THEN Append(snap.commands, e) ELSE snap.commands]

Scan(evs, from) ==
    LET snap[n \in 0..Len(evs)] ==
            IF n = 0 THEN NoSnapshot ELSE Seen(snap[n - 1], evs[n], from)
    IN snap

Snapshot(evs, t, seconds) == Scan(evs, t - Window(seconds))[Scanned(evs, t)]

-----------------------------------------------------------------------------
(* What they should be, without the loops. *)

MomentsAre(evs, seconds, ms) ==
    LET b == Bucket(seconds)
        In(k) == {i \in DOMAIN evs :
                    /\ Start(evs) + k * b <= evs[i].ts
                    /\ evs[i].ts < Start(evs) + (k + 1) * b}
    IN /\ \A i \in DOMAIN evs : \E k \in DOMAIN ms : i \in In(k)
       /\ \A k \in DOMAIN ms :
            /\ In(k) # {}
            /\ ms[k].count = Cardinality(In(k))
            /\ ms[k].risk = Max({evs[i].risk : i \in In(k)} \cup {0})

SnapshotIs(evs, t, seconds, snap) ==
    LET past == {i \in DOMAIN evs : evs[i].ts <= t}
        Newest(kind, found) ==
            LET of == {i \in past : evs[i].kind = kind}
            IN IF of = {} THEN found = <<>>
               ELSE found = <<evs[Max({i \in of : \A j \in of :
                                            evs[j].ts <= evs[i].ts})]>>
        ran == {i \in past : /\ evs[i].kind = "command_run"
                             /\ evs[i].ts >= t - Window(seconds)}
    IN /\ Newest("screenshot", snap.shot)
       /\ Newest("tool_call", snap.call)
       /\ Len(snap.commands) = Cardinality(ran)
       /\ ToSet(snap.commands) = {evs[i] : i \in ran}
=============================================================================
