----------------------------- MODULE PtySessions -----------------------------
(***************************************************************************)
(* Terminal sessions: the PTY manager of the sidecar (internal/pty, the    *)
(* pty.* methods of internal/server.go) and the two clients that show a    *)
(* session they spawned, a tab of the app (Terminal/PtySession.swift) and  *)
(* the attach loop of the CLI (cmd/vmux-cli/attach.go).                    *)
(*                                                                         *)
(* Per session there is the goroutine of the pty.spawn request (`spawn`),  *)
(* the read pump (`pump`), the child process with its end of the terminal  *)
(* (`child`, `held`, `produced`) and the view.  pty.kill requests and the  *)
(* shutdown (KillAll) are goroutines of their own.  They share             *)
(* Manager.sessions, the sync.Once of each session and the master end.     *)
(*                                                                         *)
(* sent[s] is every line about s queued for its client and got[s] the      *)
(* cursor of the client in it.  RpcServer shows that the connection keeps  *)
(* the lines of one pump in order and drops none; the reply of pty.spawn   *)
(* comes from another goroutine and has no fixed place among them.  The    *)
(* pump's lines are notifications, which wait while the queue of any       *)
(* client of the sidecar is full (`clients`).                              *)
(***************************************************************************)
EXTENDS Naturals, Sequences, FiniteSets

CONSTANTS
    Sessions,       \* pty.spawn requests, and the sessions they start
    Killers,        \* goroutines that kill: pty.kill requests, the shutdown
    NoSession,      \* no session
    MaxChunks       \* bound on the chunks of output of a session

ASSUME PtyAssumption ==
    /\ NoSession \notin Sessions
    /\ MaxChunks \in Nat

VARIABLES
    sessions,   \* Manager.sessions
    spawn,      \* where each pty.spawn request is
    pump,       \* where each read pump is
    master,     \* Session.pty: "open" or "closed" by kill
    killed,     \* sessions whose sync.Once has begun
    child,      \* the process a session runs
    held,       \* sessions whose terminal a background job keeps open
    produced,   \* chunks written to the terminal
    read,       \* chunks the pump read from it
    recycled,   \* sessions whose pid now names another process
    strays,     \* sessions whose kill signalled that other process
    kpc,        \* where each killer is
    todo,       \* sessions it has yet to kill
    current,    \* the one it is killing
    asked,      \* sessions a pty.kill request is on its way for
    sent, got,
    clients,    \* "stalled" while some client leaves its queue full
    view,       \* what the client made of the session
    shown,      \* the chunks it fed to its terminal
    ended       \* the client knows that the session is over

managerVars == <<sessions, spawn>>
sessionVars == <<pump, master, killed>>
childVars == <<child, held, produced, read, recycled, strays>>
killVars == <<kpc, todo, current>>
viewVars == <<asked, got, view, shown, ended, clients>>
vars == <<managerVars, sessionVars, childVars, killVars, sent, viewVars>>

Data(n) == [kind |-> "data", n |-> n]
Line(kind) == [kind |-> kind, n |-> 0]
Lines == [kind : {"data"}, n : 1..MaxChunks]
             \cup [kind : {"exit", "reply", "error"}, n : {0}]

Queue(s, line) == sent' = [sent EXCEPT ![s] = Append(@, line)]

(* Server.Notify returns when each connection took the line: not before a   *)
(* client that stalls reads again or leaves.                                *)
Notify(s, line) == clients = "reading" /\ Queue(s, line)

Announced(s) == \E i \in 1..Len(sent[s]) : sent[s][i] = Line("exit")

Init ==
    /\ sessions = {}
    /\ spawn = [s \in Sessions |-> "idle"]
    /\ pump = [s \in Sessions |-> "none"]
    /\ master = [s \in Sessions |-> "open"]
    /\ killed = {}
    /\ child = [s \in Sessions |-> "none"]
    /\ held = {}
    /\ produced = [s \in Sessions |-> 0]
    /\ read = [s \in Sessions |-> 0]
    /\ recycled = {}
    /\ strays = {}
    /\ kpc = [k \in Killers |-> "idle"]
    /\ todo = [k \in Killers |-> {}]
    /\ current = [k \in Killers |-> NoSession]
    /\ asked = {}
    /\ sent = [s \in Sessions |-> <<>>]
    /\ got = [s \in Sessions |-> 0]
    /\ clients = "reading"
    /\ view = [s \in Sessions |-> "waiting"]
    /\ shown = [s \in Sessions |-> <<>>]
    /\ ended = {}

-----------------------------------------------------------------------------
(* Manager.Spawn and ptySpawn *)

SpawnGoto(s, here, there) ==
    spawn[s] = here /\ spawn' = [spawn EXCEPT ![s] = there]

(* startSession: the child runs and its pump reads. *)
Start(s) ==
    /\ SpawnGoto(s, "idle", "started")
    /\ child' = [child EXCEPT ![s] = "running"]
    /\ pump' = [pump EXCEPT ![s] = "read"]
    /\ UNCHANGED <<sessions, master, killed, held, produced, read, recycled,
                   strays, killVars, sent, viewVars>>

(* An empty command, or one that cannot be started. *)
StartFails(s) ==
    /\ SpawnGoto(s, "idle", "done")
    /\ Queue(s, Line("error"))
    /\ UNCHANGED <<sessions, sessionVars, childVars, killVars, viewVars>>

Insert(s) ==
    /\ SpawnGoto(s, "started", "inserted")
    /\ sessions' = sessions \cup {s}
    /\ UNCHANGED <<sessionVars, childVars, killVars, sent, viewVars>>

Reply(s) ==
    /\ SpawnGoto(s, "inserted", "done")
    /\ Queue(s, Line("reply"))
    /\ UNCHANGED <<sessions, sessionVars, childVars, killVars, viewVars>>

-----------------------------------------------------------------------------
(* The child, and the jobs it leaves behind *)

Write(s) ==
    /\ child[s] = "running" \/ s \in held
    /\ master[s] = "open"
    /\ produced[s] < MaxChunks
    /\ produced' = [produced EXCEPT ![s] = @ + 1]
    /\ UNCHANGED <<managerVars, sessionVars, child, held, read, recycled,
                   strays, killVars, sent, viewVars>>

Exit(s) ==
    /\ child[s] = "running"
    /\ child' = [child EXCEPT ![s] = "exited"]
    /\ held' \in {held, held \cup {s}}
    /\ UNCHANGED <<managerVars, sessionVars, produced, read, recycled, strays,
                   killVars, sent, viewVars>>

JobEnds(s) ==
    /\ s \in held
    /\ held' = held \ {s}
    /\ UNCHANGED <<managerVars, sessionVars, child, produced, read, recycled,
                   strays, killVars, sent, viewVars>>

(* The system gives the pid of a reaped child to another process group. *)
Recycle(s) ==
    /\ child[s] = "reaped"
    /\ s \notin recycled \cup held
    /\ recycled' = recycled \cup {s}
    /\ UNCHANGED <<managerVars, sessionVars, child, held, produced, read,
                   strays, killVars, sent, viewVars>>

-----------------------------------------------------------------------------
(* Session.readPump *)

PumpGoto(s, here, there) ==
    pump[s] = here /\ pump' = [pump EXCEPT ![s] = there]

(* Mutant of ReadChunk: an empty read counts as a chunk. *)
ReadNothing(s) ==
    /\ PumpGoto(s, "read", "emit")
    /\ master[s] = "open"
    /\ read' = [read EXCEPT ![s] = @ + 1]
    /\ UNCHANGED <<managerVars, master, killed, child, held, produced,
                   recycled, strays, killVars, sent, viewVars>>

ReadChunk(s) ==
    /\ PumpGoto(s, "read", "emit")
    /\ master[s] = "open"
    /\ read[s] < produced[s]
    /\ read' = [read EXCEPT ![s] = @ + 1]
    /\ UNCHANGED <<managerVars, master, killed, child, held, produced,
                   recycled, strays, killVars, sent, viewVars>>

EmitData(s) ==
    /\ PumpGoto(s, "emit", "read")
    /\ Notify(s, Data(read[s]))
    /\ UNCHANGED <<managerVars, master, killed, childVars, killVars, viewVars>>

(* Mutant of Drained: the pump stops at the exit of the child. *)
ChildIsGone(s) == child[s] # "running"

(* The terminal is empty and nobody holds its other end, or kill closed it. *)
Drained(s) == child[s] # "running" /\ s \notin held /\ read[s] = produced[s]

ReadEnds(s) ==
    /\ PumpGoto(s, "read", "wait")
    /\ Drained(s) \/ master[s] = "closed"
    /\ UNCHANGED <<managerVars, master, killed, childVars, killVars, sent,
                   viewVars>>

(* Mutant of Wait: onExit is called before pty.exit is emitted. *)
WaitAndRemove(s) ==
    /\ PumpGoto(s, "wait", "exit")
    /\ child[s] = "exited"
    /\ child' = [child EXCEPT ![s] = "reaped"]
    /\ sessions' = sessions \ {s}
    /\ UNCHANGED <<spawn, master, killed, held, produced, read, recycled,
                   strays, killVars, sent, viewVars>>

Wait(s) ==
    /\ PumpGoto(s, "wait", "exit")
    /\ child[s] = "exited"
    /\ child' = [child EXCEPT ![s] = "reaped"]
    /\ UNCHANGED <<managerVars, master, killed, held, produced, read,
                   recycled, strays, killVars, sent, viewVars>>

EmitExit(s) ==
    /\ PumpGoto(s, "exit", "remove")
    /\ Notify(s, Line("exit"))
    /\ UNCHANGED <<managerVars, master, killed, childVars, killVars, viewVars>>

(* onExit is Manager.remove. *)
Remove(s) ==
    /\ PumpGoto(s, "remove", "gone")
    /\ sessions' = sessions \ {s}
    /\ UNCHANGED <<spawn, master, killed, childVars, killVars, sent, viewVars>>

-----------------------------------------------------------------------------
(* Manager.Kill and Manager.KillAll *)

KillRequest(k) ==
    /\ kpc[k] = "idle"
    /\ \E s \in asked :
          /\ asked' = asked \ {s}
          /\ todo' = [todo EXCEPT ![k] = {s} \cap sessions]
    /\ kpc' = [kpc EXCEPT ![k] = "next"]
    /\ UNCHANGED <<managerVars, sessionVars, childVars, current, sent, got,
                   clients, view, shown, ended>>

KillAll(k) ==
    /\ kpc[k] = "idle"
    /\ todo' = [todo EXCEPT ![k] = sessions]
    /\ kpc' = [kpc EXCEPT ![k] = "next"]
    /\ UNCHANGED <<managerVars, sessionVars, childVars, current, sent, viewVars>>

(* Session.kill, first half: SIGKILL to the group the pid names by then. *)
Signal(k, s) ==
    /\ kpc[k] = "next"
    /\ s \in todo[k] \ killed
    /\ killed' = killed \cup {s}
    /\ child' = [child EXCEPT ![s] = IF @ = "running" THEN "exited" ELSE @]
    /\ strays' = IF s \in recycled THEN strays \cup {s} ELSE strays
    /\ kpc' = [kpc EXCEPT ![k] = "close"]
    /\ current' = [current EXCEPT ![k] = s]
    /\ UNCHANGED <<managerVars, pump, master, held, produced, read, recycled,
                   todo, sent, viewVars>>

(* Mutant of CloseMaster: the kill leaves the master open. *)
KeepMaster(k) ==
    LET s == current[k] IN
    /\ kpc[k] = "close"
    /\ todo' = [todo EXCEPT ![k] = @ \ {s}]
    /\ kpc' = [kpc EXCEPT ![k] = "next"]
    /\ current' = [current EXCEPT ![k] = NoSession]
    /\ UNCHANGED <<managerVars, sessionVars, childVars, sent, viewVars>>

(* ... second half: close the master. *)
CloseMaster(k) ==
    LET s == current[k] IN
    /\ kpc[k] = "close"
    /\ master' = [master EXCEPT ![s] = "closed"]
    /\ todo' = [todo EXCEPT ![k] = @ \ {s}]
    /\ kpc' = [kpc EXCEPT ![k] = "next"]
    /\ current' = [current EXCEPT ![k] = NoSession]
    /\ UNCHANGED <<managerVars, pump, killed, childVars, sent, viewVars>>

(* Once.Do of a second killer returns when the first is done. *)
AlreadyKilled(k, s) ==
    /\ kpc[k] = "next"
    /\ s \in todo[k] \cap killed
    /\ \A j \in Killers : current[j] # s
    /\ todo' = [todo EXCEPT ![k] = @ \ {s}]
    /\ UNCHANGED <<managerVars, sessionVars, childVars, kpc, current, sent,
                   viewVars>>

-----------------------------------------------------------------------------
(* The client *)

(* A line arrives.  The app compares its sessionId with the session that is *)
(* still nil before Bind; the CLI has no onNotify before Bind.              *)
Receive(s) ==
    /\ got[s] < Len(sent[s])
    /\ got' = [got EXCEPT ![s] = @ + 1]
    /\ LET line == sent[s][got[s] + 1] IN
         /\ view' = [view EXCEPT ![s] =
                       IF line.kind = "reply" /\ @ = "waiting" THEN "replied" ELSE @]
         /\ shown' = [shown EXCEPT ![s] =
                       IF line.kind = "data" /\ view[s] = "bound"
                         THEN Append(@, line.n) ELSE @]
         /\ ended' = IF line.kind = "error" \/ (line.kind = "exit" /\ view[s] = "bound")
                       THEN ended \cup {s} ELSE ended
    /\ UNCHANGED <<managerVars, sessionVars, childVars, killVars, asked, sent,
                   clients>>

(* The app sets sessionId after a round trip of pty.resize; the CLI sets    *)
(* onNotify when its main goroutine gets to it.                             *)
Bind(s) ==
    /\ view[s] = "replied"
    /\ view' = [view EXCEPT ![s] = "bound"]
    /\ UNCHANGED <<managerVars, sessionVars, childVars, killVars, asked, sent,
                   got, clients, shown, ended>>

(* PtySession.kill: the tab is closed.  Without a sessionId there is nobody *)
(* to kill.                                                                 *)
CloseTab(s) ==
    /\ view[s] # "closed"
    /\ view' = [view EXCEPT ![s] = "closed"]
    /\ asked' = IF view[s] = "bound" THEN asked \cup {s} ELSE asked
    /\ UNCHANGED <<managerVars, sessionVars, childVars, killVars, sent, got,
                   clients, shown, ended>>

(* Some client, this one or another, stops reading with its queue full.     *)
ClientStalls ==
    /\ clients = "reading"
    /\ clients' = "stalled"
    /\ UNCHANGED <<managerVars, sessionVars, childVars, killVars, sent, asked,
                   got, view, shown, ended>>

(* It reads again, or leaves and its connection is closed. *)
ClientResumes ==
    /\ clients = "stalled"
    /\ clients' = "reading"
    /\ UNCHANGED <<managerVars, sessionVars, childVars, killVars, sent, asked,
                   got, view, shown, ended>>

-----------------------------------------------------------------------------

SpawnStep(s) == Insert(s) \/ Reply(s)

PumpStep(s) == \/ ReadChunk(s) \/ EmitData(s) \/ ReadEnds(s)
               \/ Wait(s) \/ EmitExit(s) \/ Remove(s)

KillStep(k) ==
    CloseMaster(k) \/ \E s \in Sessions : Signal(k, s) \/ AlreadyKilled(k, s)

ViewStep(s) == Receive(s) \/ Bind(s)

Next ==
    \/ \E s \in Sessions :
          \/ Start(s) \/ StartFails(s) \/ SpawnStep(s)
          \/ Write(s) \/ Exit(s) \/ JobEnds(s) \/ Recycle(s)
          \/ PumpStep(s) \/ ViewStep(s) \/ CloseTab(s)
    \/ \E k \in Killers : KillRequest(k) \/ KillAll(k) \/ KillStep(k)
    \/ ClientStalls \/ ClientResumes

Spec == Init /\ [][Next]_vars

(* Goroutines that can run do run.  A pump that waits in Notify gets its    *)
(* line through when there is room again and again, for a channel serves    *)
(* its senders in the order they came.  Children, users and the shutdown    *)
(* are free to do nothing.                                                  *)
GoroutineFairness ==
    /\ \A s \in Sessions : /\ WF_vars(Insert(s))
                           /\ WF_vars(PumpStep(s))
                           /\ SF_vars(EmitData(s) \/ EmitExit(s))
    /\ \A k \in Killers : WF_vars(KillStep(k))

(* What is assumed of the clients: one that stalls does not do so for ever. *)
ClientFairness == WF_vars(ClientResumes)

FairSpec == Spec /\ GoroutineFairness /\ ClientFairness

-----------------------------------------------------------------------------
(* Properties *)

TypeOK ==
    /\ sessions \subseteq Sessions
    /\ spawn \in [Sessions -> {"idle", "started", "inserted", "done"}]
    /\ pump \in [Sessions -> {"none", "read", "emit", "wait", "exit",
                              "remove", "gone"}]
    /\ master \in [Sessions -> {"open", "closed"}]
    /\ killed \subseteq Sessions
    /\ child \in [Sessions -> {"none", "running", "exited", "reaped"}]
    /\ held \subseteq Sessions
    /\ produced \in [Sessions -> 0..MaxChunks]
    /\ read \in [Sessions -> 0..MaxChunks]
    /\ \A s \in Sessions : read[s] <= produced[s]
    /\ recycled \subseteq Sessions
    /\ strays \subseteq recycled
    /\ kpc \in [Killers -> {"idle", "next", "close"}]
    /\ todo \in [Killers -> SUBSET Sessions]
    /\ current \in [Killers -> Sessions \cup {NoSession}]
    /\ \A k \in Killers : kpc[k] = "close" <=> current[k] # NoSession
    /\ asked \subseteq Sessions
    /\ sent \in [Sessions -> Seq(Lines)]
    /\ got \in [Sessions -> Nat]
    /\ clients \in {"reading", "stalled"}
    /\ view \in [Sessions -> {"waiting", "replied", "bound", "closed"}]
    /\ shown \in [Sessions -> Seq(1..MaxChunks)]
    /\ ended \subseteq Sessions

FromPump(line) == line.kind \in {"data", "exit"}

(* What a terminal is fed is what the child wrote, chunk by chunk from the  *)
(* first, with pty.exit once and last of what the pump sends.               *)
StreamIsOutput ==
    \A s \in Sessions : \A i \in 1..Len(sent[s]) :
        LET line == sent[s][i] IN
        /\ line.kind = "data" =>
             /\ line.n \in 1..produced[s]
             /\ \A n \in 1..line.n - 1 : \E j \in 1..i - 1 :
                    sent[s][j] = Data(n)
             /\ \A j \in 1..i - 1 :
                    sent[s][j].kind = "data" => sent[s][j].n < line.n
        /\ line.kind = "exit" =>
             \A j \in i + 1..Len(sent[s]) : ~FromPump(sent[s][j])

(* A session that was not killed announces its exit after all its output:   *)
(* readPump goes on until the terminal is drained.                          *)
ExitIsComplete ==
    \A s \in Sessions : Announced(s) /\ s \notin killed =>
        \A n \in 1..produced[s] :
            \E i \in 1..Len(sent[s]) : sent[s][i] = Data(n)

(* Whoever knows the id of a session whose exit was not announced yet finds *)
(* it in the manager: pty.write, pty.resize and pty.kill reach it.          *)
LiveIsListed ==
    \A s \in Sessions :
        (\E i \in 1..Len(sent[s]) : sent[s][i] = Line("reply")) /\ ~Announced(s)
            => s \in sessions

(* session.go:104-105: a kill "makes the readPump observe EOF and emit      *)
(* pty.exit", whatever the child left running.                              *)
KilledIsAnnounced == \A s \in Sessions : (s \in killed) ~> Announced(s)

(* A child that exits on its own is reaped and announced by its pump, once  *)
(* nobody else holds its terminal.                                          *)
ExitIsAnnounced ==
    \A s \in Sessions : (Drained(s) /\ child[s] = "exited") ~> Announced(s)

(* session.go:46, "onExit fires once after the process exits": a session    *)
(* that was killed, or whose child exited, leaves the table, provided it    *)
(* was in the table before its pump came to remove it.  One that is         *)
(* inserted after that (manager.go:41, :85) is never forgotten.             *)
EndedIsForgotten ==
    \A s \in Sessions :
        (/\ s \in sessions
         /\ pump[s] # "gone"
         /\ s \in killed \/ (Drained(s) /\ child[s] # "running"))
            ~> s \notin sessions

(* The stream of a terminal is the output of its child, and all of it.      *)
StreamIsComplete == StreamIsOutput /\ ExitIsComplete

(* Every end of a session, by a kill or of itself, is announced, and the    *)
(* session forgotten, however the clients stall, as long as none of them    *)
(* stalls for ever.                                                         *)
EndsAreAnnounced == KilledIsAnnounced /\ ExitIsAnnounced /\ EndedIsForgotten
=============================================================================
