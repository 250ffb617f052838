--------------------------- MODULE ActivityStore ----------------------------
(***************************************************************************)
(* The activity store (internal/activity/store.go): the events of tool     *)
(* calls get a number, a place in the ring of their session and a line in  *)
(* its file in one critical section, and are published to subscribers and  *)
(* to the app after it.  The callers are the goroutines of tool calls: the *)
(* time of an event is the start of its call (mcp/proxy_route.go:18), the  *)
(* event is appended when the call ends.                                   *)
(*                                                                         *)
(* A write may fail, wholly or after part of the line; the code ignores    *)
(* that.  What is then appended lands behind the torn line, and a reader   *)
(* drops both.  A file is its readable lines and whether it ends torn.     *)
(* The process may die at any point and be started again: files and        *)
(* nothing else remain.  Two sessions never share a file: safeKey keeps    *)
(* the identifiers the sidecar makes apart.                                *)
(***************************************************************************)
EXTENDS Replay

CONSTANTS
    Sessions,
    Callers,    \* goroutines that append, one event each
    SessionOf,  \* the session of each
    Subs,       \* subscribers
    RingSize,   \* memRingSize
    SubRoom,    \* capacity of a subscriber's channel
    MaxFails,   \* bound on the writes that fail
    MaxRuns,    \* bound on the runs of the process
    MaxTime,    \* bound on the clock
    ShortLogs   \* logs to try Replay on

ASSUME StoreAssumption ==
    /\ IsFiniteSet(Callers)
    /\ SessionOf \in [Callers -> Sessions]
    /\ RingSize \in Nat \ {0}
    /\ SubRoom \in Nat
    /\ MaxFails \in Nat
    /\ MaxRuns \in Nat \ {0}
    /\ MaxTime \in Nat
    /\ \A evs \in ShortLogs : IsLog(evs)

VARIABLES
    run,        \* which run of the process this is
    seq,        \* Store.seq
    ring,       \* Store.ring
    file,       \* the events.jsonl of each session
    subs,       \* subscribers: "none", "open" or "closed"
    chan,       \* events in the channel of each
    pc,         \* where each caller is
    event,      \* what it appends
    todo,       \* Append's copy of Store.subs: channels it still sends to
    now,        \* the clock
    fails,      \* writes that failed
    history,    \* every event appended to a session in any run (history)
    overlapped  \* sessions two calls of which overlapped (history)

storeVars == <<run, seq, ring, file, fails, history>>
subVars == <<subs, chan>>
callVars == <<pc, event, todo, now, overlapped>>
vars == <<storeVars, subVars, callVars>>

Events == [run : 1..MaxRuns, seq : 0..Cardinality(Callers), ts : 0..MaxTime,
           session : Sessions]
NoEvent(c) == [run |-> 1, seq |-> 0, ts |-> 0, session |-> SessionOf[c]]
EmptyFile == [lines |-> <<>>, torn |-> FALSE]

Init ==
    /\ run = 1
    /\ seq = 0
    /\ ring = [s \in Sessions |-> <<>>]
    /\ file = [s \in Sessions |-> EmptyFile]
    /\ subs = [u \in Subs |-> "none"]
    /\ chan = [u \in Subs |-> 0]
    /\ pc = [c \in Callers |-> "idle"]
    /\ event = [c \in Callers |-> NoEvent(c)]
    /\ todo = [c \in Callers |-> {}]
    /\ now = 0
    /\ fails = 0
    /\ history = [s \in Sessions |-> <<>>]
    /\ overlapped = {}

-----------------------------------------------------------------------------
(* Append *)

(* A tool call of the event's session begins. *)
Begin(c) ==
    /\ pc[c] = "idle"
    /\ LET s == SessionOf[c] IN
         /\ event' = [event EXCEPT ![c].ts = now]
         /\ overlapped' = IF \E d \in Callers : pc[d] = "called" /\
                                                SessionOf[d] = s
                          THEN overlapped \cup {s} ELSE overlapped
    /\ pc' = [pc EXCEPT ![c] = "called"]
    /\ UNCHANGED <<storeVars, subVars, todo, now>>

(* Mutant of Trim: the oldest events stay. *)
TrimNewest(s) == IF Len(s) > RingSize THEN SubSeq(s, 1, RingSize) ELSE s

Trim(s) == IF Len(s) > RingSize THEN SubSeq(s, Len(s) - RingSize + 1, Len(s))
                                ELSE s

(* Mutant of Written: the log is kept by sequence number, which starts anew  *)
(* with the process.                                                         *)
WrittenBySeq(f, e) ==
    [f EXCEPT !.lines = SelectSeq(@, LAMBDA x : x.seq <= e.seq) \o <<e>>
                          \o SelectSeq(@, LAMBDA x : x.seq > e.seq)]

Written(f, e) ==
    IF f.torn THEN [f EXCEPT !.torn = FALSE]
              ELSE [f EXCEPT !.lines = Append(@, e)]

(* persistLocked: the line is written, or not, or in part. *)
Persist(s, e) ==
    \/ file' = [file EXCEPT ![s] = Written(@, e)] /\ UNCHANGED fails
    \/ /\ fails < MaxFails
       /\ fails' = fails + 1
       /\ \/ UNCHANGED file
          \/ file' = [file EXCEPT ![s].torn = TRUE]

(* The critical section. *)
Store(c) ==
    /\ pc[c] = "called"
    /\ LET s == SessionOf[c]
           e == [event[c] EXCEPT !.run = run, !.seq = seq + 1]
       IN /\ event' = [event EXCEPT ![c] = e]
          /\ ring' = [ring EXCEPT ![s] = Trim(Append(@, e))]
          /\ history' = [history EXCEPT ![s] = Append(@, e)]
          /\ Persist(s, e)
    /\ seq' = seq + 1
    /\ todo' = [todo EXCEPT ![c] = {u \in Subs : subs[u] = "open"}]
    /\ pc' = [pc EXCEPT ![c] = "publish"]
    /\ UNCHANGED <<run, subVars, now, overlapped>>

(* Mutants of Publish: a full channel is waited for; the room is not minded. *)
PublishUnbounded(c, u) ==
    /\ pc[c] = "publish"
    /\ u \in todo[c]
    /\ subs[u] = "open"
    /\ chan' = [chan EXCEPT ![u] = @ + 1]
    /\ todo' = [todo EXCEPT ![c] = @ \ {u}]
    /\ UNCHANGED <<storeVars, subs, pc, event, now, overlapped>>

PublishWaiting(c, u) ==
    /\ pc[c] = "publish"
    /\ u \in todo[c]
    /\ subs[u] = "open"
    /\ chan[u] < SubRoom
    /\ chan' = [chan EXCEPT ![u] = @ + 1]
    /\ todo' = [todo EXCEPT ![c] = @ \ {u}]
    /\ UNCHANGED <<storeVars, subs, pc, event, now, overlapped>>

(* Outside the lock: a full channel drops the event. *)
Publish(c, u) ==
    /\ pc[c] = "publish"
    /\ u \in todo[c]
    /\ subs[u] = "open"
    /\ chan' = IF chan[u] < SubRoom THEN [chan EXCEPT ![u] = @ + 1] ELSE chan
    /\ todo' = [todo EXCEPT ![c] = @ \ {u}]
    /\ UNCHANGED <<storeVars, subs, pc, event, now, overlapped>>

(* The subscriber left since: sending panics, and serveRequest recovers. *)
PublishPanics(c, u) ==
    /\ pc[c] = "publish"
    /\ u \in todo[c]
    /\ subs[u] = "closed"
    /\ todo' = [todo EXCEPT ![c] = {}]
    /\ pc' = [pc EXCEPT ![c] = "panicked"]
    /\ UNCHANGED <<storeVars, subVars, event, now, overlapped>>

(* Append returns, and LogToolCall notifies the app. *)
Return(c) ==
    /\ pc[c] = "publish"
    /\ todo[c] = {}
    /\ pc' = [pc EXCEPT ![c] = "done"]
    /\ UNCHANGED <<storeVars, subVars, event, todo, now, overlapped>>

-----------------------------------------------------------------------------
(* Subscribers, the clock, the process *)

Subscribe(u) ==
    /\ subs[u] = "none"
    /\ subs' = [subs EXCEPT ![u] = "open"]
    /\ UNCHANGED <<storeVars, chan, callVars>>

Receive(u) ==
    /\ chan[u] > 0
    /\ chan' = [chan EXCEPT ![u] = @ - 1]
    /\ UNCHANGED <<storeVars, subs, callVars>>

Unsubscribe(u) ==
    /\ subs[u] = "open"
    /\ subs' = [subs EXCEPT ![u] = "closed"]
    /\ UNCHANGED <<storeVars, chan, callVars>>

Tick ==
    /\ now < MaxTime
    /\ now' = now + 1
    /\ UNCHANGED <<storeVars, subVars, pc, event, todo, overlapped>>

(* The process dies, and another one opens the same directory. *)
Restart ==
    /\ run < MaxRuns
    /\ run' = run + 1
    /\ seq' = 0
    /\ ring' = [s \in Sessions |-> <<>>]
    /\ subs' = [u \in Subs |-> "none"]
    /\ chan' = [u \in Subs |-> 0]
    /\ pc' = [c \in Callers |-> IF pc[c] \in {"called", "publish"} THEN "lost"
                                ELSE pc[c]]
    /\ todo' = [c \in Callers |-> {}]
    /\ UNCHANGED <<file, event, now, fails, history, overlapped>>

CallerStep(c) ==
    \/ Store(c) \/ Return(c)
    \/ \E u \in Subs : Publish(c, u) \/ PublishPanics(c, u)

Next ==
    \/ \E c \in Callers : Begin(c) \/ CallerStep(c)
    \/ \E u \in Subs : Subscribe(u) \/ Receive(u) \/ Unsubscribe(u)
    \/ Tick
    \/ Restart

Spec == Init /\ [][Next]_vars

(* A goroutine that can run does; subscribers need not read. *)
FairSpec == Spec /\ \A c \in Callers : WF_vars(CallerStep(c))

-----------------------------------------------------------------------------
(* Properties *)

TypeOK ==
    /\ run \in 1..MaxRuns
    /\ seq \in 0..Cardinality(Callers)
    /\ ring \in [Sessions -> Seq(Events)]
    /\ file \in [Sessions -> [lines : Seq(Events), torn : BOOLEAN]]
    /\ subs \in [Subs -> {"none", "open", "closed"}]
    /\ chan \in [Subs -> 0..SubRoom]
    /\ pc \in [Callers -> {"idle", "called", "publish", "done", "panicked",
                           "lost"}]
    /\ event \in [Callers -> Events]
    /\ todo \in [Callers -> SUBSET Subs]
    /\ now \in 0..MaxTime
    /\ fails \in 0..MaxFails
    /\ history \in [Sessions -> Seq(Events)]
    /\ overlapped \subseteq Sessions

OfThisRun(s) == {i \in DOMAIN history[s] : history[s][i].run = run}

(* Recent and activity.recent (store.go:68-76): whatever the limit, they    *)
(* give the newest events of this run, oldest first, as many as were asked  *)
(* for unless there are fewer or more than the ring holds.                  *)
Recent(s, n) == IF n > 0 /\ Len(ring[s]) > n
                THEN SubSeq(ring[s], Len(ring[s]) - n + 1, Len(ring[s]))
                ELSE ring[s]

RecentIsNewest ==
    \A s \in Sessions, n \in 1..RingSize + 1 :
        LET last == Len(history[s])
            first == last + 1 - Min({n, RingSize, Cardinality(OfThisRun(s))})
        IN /\ Recent(s, n) = SubSeq(history[s], first, last)
           /\ first..last \subseteq OfThisRun(s)

(* The file misses only what failed to be written, and a torn write costs   *)
(* at most the one event written behind it (persistLocked, store.go:133-151 *)
(* and All, :94-99); what it has is in the order of the ring, each once.    *)
LogMissesFailures ==
    \A s \in Sessions :
        /\ \E kept \in SUBSET DOMAIN history[s] :
               /\ Cardinality(kept) = Len(file[s].lines)
               /\ \A i \in kept : history[s][i] =
                    file[s].lines[Cardinality({j \in kept : j <= i})]
        /\ Len(history[s]) - Len(file[s].lines) <= 2 * fails

(* Replay relies on events in the order of their times (replay.go:13).      *)
(* That holds for sessions whose calls did not overlap, across restarts.    *)
SerialIsOrdered ==
    \A s \in Sessions \ overlapped : Ordered(file[s].lines)

(* The log is faithful, in memory and on disk: what readers are given is    *)
(* the newest, what the file has is all that was written, and it is in the  *)
(* order replay takes it in, except where calls overlapped.                 *)
LogIsFaithful == RecentIsNewest /\ LogMissesFailures /\ SerialIsOrdered

(* A tool call is not held up by a subscriber that does not read            *)
(* (store.go:61): an append that began returns, unless the process dies.    *)
AppendReturns == []<>(\A c \in Callers : pc[c] \notin {"called", "publish"})

(* The store keeps what EventLog promises.                                  *)
Log == INSTANCE EventLog WITH
            Kept <- RingSize, recent <- ring,
            recorded <- [s \in Sessions |-> file[s].lines]

ImplementsEventLog == Log!Spec

-----------------------------------------------------------------------------
(* Replay, on every short log.                                              *)

(* The moments are a partition of the events (Timeline, replay.go:35-70):   *)
(* whatever the width, each event counts in the one moment it falls in,     *)
(* with its risk, and no moment is empty.  This takes events in order:      *)
(* around the start, times before it share a moment with times after it.    *)
TimelineIsRight ==
    \A evs \in ShortLogs, seconds \in -1..3 :
        Ordered(evs) => MomentsAre(evs, seconds, Moments(evs, seconds))

(* The snapshot has the newest screenshot and tool call up to t, and all    *)
(* the commands of the window, for every t (At, replay.go:82-118).  Events  *)
(* out of order would end the scan early.                                   *)
SnapshotIsRight ==
    \A evs \in ShortLogs, t \in 0..3, seconds \in -1..2 :
        Ordered(evs) => SnapshotIs(evs, t, seconds, Snapshot(evs, t, seconds))

(* Replay is right on every short log in order, at every width and time     *)
(* (Timeline and At, replay.go:35-118).  This speaks of logs and not of the *)
(* state, so that it is enough to look at it where the store starts.        *)
ReplayIsRight == Init => TimelineIsRight /\ SnapshotIsRight
=============================================================================
