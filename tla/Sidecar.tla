------------------------------- MODULE Sidecar ------------------------------
(***************************************************************************)
(* The life of the sidecar (cmd/vmux-sidecar, watchdog, socket, the app's  *)
(* SidecarController) and what of it outlives a process: the socket path   *)
(* and the workspace registry (internal/workspace) with its file.          *)
(*                                                                         *)
(* Each process is launched by an app and ends by SIGTERM, by its watchdog *)
(* once that app is gone, or by a crash; the next app may launch another   *)
(* one while it still runs.  Registry operations run under one lock; they  *)
(* come from requests, which go on while the process shuts down.  Opening  *)
(* reads the git status and then starts the watcher; the file is truncated *)
(* and then written.                                                       *)
(*                                                                         *)
(* Of the git status of a directory all that counts is whether it was read *)
(* after the last change.  A watcher sees what happens in the directory    *)
(* itself and in its .git, not what happens in the directories below it.   *)
(* A read of the status ends (git.go:29 gives it five seconds), with a     *)
(* status or an error.  What Shutdown does beside the registry is in       *)
(* PtySessions and McpProxy.                                               *)
(***************************************************************************)
EXTENDS Naturals, FiniteSets

CONSTANTS
    MaxProcs,   \* bound on the processes launched
    Paths,      \* directories opened as workspaces
    MaxIds      \* bound on the workspaces opened

ASSUME SidecarAssumption ==
    /\ MaxProcs \in Nat
    /\ MaxIds \in Nat \ {0}

Procs == 1..MaxProcs
Nobody == 0

VARIABLES
    life,       \* where each process is in main
    parent,     \* whether the app that launched it lives
    listening,  \* processes whose listener is not closed
    socket,     \* whose listener the socket path leads to
    lock,       \* what holds Registry.mu: [op, path, id]
    table,      \* Registry.byPath and byID: the id of each path, or 0
    watch,      \* watchers: "none", "on" or "stopped"
    event,      \* paths whose watcher got an event
    current,    \* paths whose Workspace.Git was read after the last change
    fresh,      \* a status that is read and not stored: "none", or "read"
                \* since the last change, or "old"
    telling,    \* paths whose watcher is inside Notify
    missed,     \* paths whose last change no read got or will get (history)
    file,       \* workspaces.json: [whole, ids]
    ids,        \* ids given out
    opened,     \* what a start owes: the table the last operation left,
                \* of any process, less what a load had to skip; nothing
                \* while the file is written or if that failed (history)
    overlapped  \* whether two processes ran at a time (history)

procVars == <<life, parent, listening, socket, overlapped>>
regVars == <<lock, table, watch, event, current, fresh, telling, missed>>
histVars == <<ids, opened>>
vars == <<procVars, regVars, file, histVars>>

NoIds == [w \in Paths |-> 0]
Free == [op |-> "none", path |-> {}, id |-> 0]

Init ==
    /\ life = [p \in Procs |-> "off"]
    /\ parent = [p \in Procs |-> FALSE]
    /\ listening = {}
    /\ socket = Nobody
    /\ lock = [p \in Procs |-> Free]
    /\ table = [p \in Procs |-> NoIds]
    /\ watch = [p \in Procs |-> [w \in Paths |-> "none"]]
    /\ event = [p \in Procs |-> {}]
    /\ current = [p \in Procs |-> {}]
    /\ fresh = [p \in Procs |-> [w \in Paths |-> "none"]]
    /\ file = [whole |-> TRUE, ids |-> NoIds]
    /\ ids = 0
    /\ opened = NoIds
    /\ telling = [p \in Procs |-> {}]
    /\ missed = [p \in Procs |-> {}]
    /\ overlapped = FALSE

Running(p) == life[p] \notin {"off", "gone"}
Serves(p) == life[p] \in {"serving", "stopping", "closing"}

-----------------------------------------------------------------------------
(* Processes *)

(* An app launches its sidecar, one app at a time. *)
Launches(p) ==
    /\ life[p] = "off"
    /\ \A q \in 1..p - 1 : life[q] # "off"
    /\ \A q \in Procs : ~parent[q]
    /\ parent' = [parent EXCEPT ![p] = TRUE]
    /\ life' = [life EXCEPT ![p] = "loading"]
    /\ overlapped' = (overlapped \/ \E q \in Procs : Running(q))
    /\ UNCHANGED <<regVars, file, histVars>>

(* Mutant of Launch: a socket file that is there already is left alone. *)
LaunchIfFree(p) ==
    /\ Launches(p)
    /\ listening' = listening \cup {p}
    /\ socket' = IF socket = Nobody THEN p ELSE socket

(* ListenAt removes the socket file, whosever it is, and makes its own. *)
Launch(p) ==
    /\ Launches(p)
    /\ listening' = listening \cup {p}
    /\ socket' = p

(* The app crashes, or quits after its wait for the sidecar. *)
AppEnds(p) ==
    /\ parent[p]
    /\ parent' = [parent EXCEPT ![p] = FALSE]
    /\ UNCHANGED <<life, listening, socket, overlapped, regVars, file,
                   histVars>>

Cancel(p) ==
    /\ life[p] = "serving"
    /\ life' = [life EXCEPT ![p] = "stopping"]
    /\ UNCHANGED <<parent, listening, socket, overlapped, regVars, file,
                   histVars>>

(* SIGTERM, from SidecarController.stop or the user. *)
Terminate(p) == Cancel(p)

Watchdog(p) == ~parent[p] /\ Cancel(p)

(* Closing a listener removes the path, whosever it is by now. *)
CloseListener(p) ==
    /\ life[p] \in {"stopping", "closing"}
    /\ p \in listening
    /\ listening' = listening \ {p}
    /\ socket' = Nobody
    /\ UNCHANGED <<life, parent, overlapped, regVars, file, histVars>>

(* Nothing is left of what the watchers of a process were doing. *)
WatchersEnd(p) ==
    /\ event' = [event EXCEPT ![p] = {}]
    /\ current' = [current EXCEPT ![p] = {}]
    /\ fresh' = [fresh EXCEPT ![p] = [w \in Paths |-> "none"]]
    /\ telling' = [telling EXCEPT ![p] = {}]
    /\ missed' = [missed EXCEPT ![p] = {}]

(* The process ends with whatever its goroutines are doing. *)
End(p) ==
    /\ life' = [life EXCEPT ![p] = "gone"]
    /\ listening' = listening \ {p}
    /\ lock' = [lock EXCEPT ![p] = Free]
    /\ table' = [table EXCEPT ![p] = NoIds]
    /\ watch' = [watch EXCEPT ![p] = [w \in Paths |-> "none"]]
    /\ WatchersEnd(p)

Exit(p) ==
    /\ life[p] = "closing"
    /\ End(p)
    /\ socket' = IF p \in listening THEN Nobody ELSE socket
    /\ UNCHANGED <<parent, overlapped, file, ids, opened>>

Crash(p) ==
    /\ Running(p)
    /\ End(p)
    /\ UNCHANGED <<parent, socket, overlapped, file, ids, opened>>

-----------------------------------------------------------------------------
(* The registry *)

(* ReadGitStatus, whose result is not stored yet. *)
ReadStatus(p, w) == fresh' = [fresh EXCEPT ![p][w] = "read"]

StartWatcher(p, w) == watch' = [watch EXCEPT ![p][w] = "on"]

(* Mutant of Load: a workspace that is opened again gets an id of its own. *)
LoadAsNew(p) ==
    /\ life[p] = "loading"
    /\ life' = [life EXCEPT ![p] = "reopening"]
    /\ table' = [table EXCEPT ![p] = [w \in Paths |->
                     IF file.ids[w] # 0 THEN ids + 1 ELSE 0]]
    /\ fresh' = [fresh EXCEPT ![p] = [w \in Paths |-> "read"]]
    /\ UNCHANGED <<parent, listening, socket, overlapped, lock, watch, event,
                   current, telling, missed, file, histVars>>

(* NewRegistry reads the file and the status of each directory in it: those *)
(* that are gone or cannot be opened are skipped.                           *)
Load(p) ==
    /\ life[p] = "loading"
    /\ life' = [life EXCEPT ![p] = "reopening"]
    /\ \E good \in SUBSET Paths :
         LET entry(w) == IF file.whole THEN file.ids[w] ELSE 0
             new == [w \in Paths |-> IF w \in good THEN entry(w) ELSE 0]
         IN /\ table' = [table EXCEPT ![p] = new]
            /\ opened' = [w \in Paths |-> IF w \in good THEN opened[w] ELSE 0]
            /\ fresh' = [fresh EXCEPT ![p] = [w \in Paths |->
                             IF new[w] # 0 THEN "read" ELSE "none"]]
    /\ UNCHANGED <<parent, listening, socket, overlapped, lock, watch, event,
                   current, telling, missed, file, ids>>

(* The watchers of what was loaded start, and the process serves. *)
Reopen(p) ==
    /\ life[p] = "reopening"
    /\ life' = [life EXCEPT ![p] = "serving"]
    /\ watch' = [watch EXCEPT ![p] = [w \in Paths |->
                     IF table[p][w] # 0 THEN "on" ELSE "none"]]
    /\ fresh' = [fresh EXCEPT ![p] = [w \in Paths |-> "none"]]
    /\ current' = [current EXCEPT ![p] = {w \in Paths : fresh[p][w] = "read"}]
    /\ missed' = [missed EXCEPT ![p] = {w \in Paths : fresh[p][w] = "old"}]
    /\ UNCHANGED <<parent, listening, socket, overlapped, lock, table, event,
                   telling, file, histVars>>

(* Open takes the lock and reads the metadata and the git status. *)
OpenBegin(p, w) ==
    /\ Serves(p)
    /\ lock[p].op = "none"
    /\ table[p][w] = 0
    /\ ids < MaxIds
    /\ ids' = ids + 1
    /\ lock' = [lock EXCEPT ![p] = [op |-> "open", path |-> {w}, id |-> ids + 1]]
    /\ ReadStatus(p, w)
    /\ UNCHANGED <<procVars, table, watch, event, current, telling, missed,
                   file, opened>>

(* It starts the watcher and enters the workspace, or fails. *)
OpenEnd(p) ==
    /\ lock[p].op = "open"
    /\ LET w == CHOOSE v \in lock[p].path : TRUE
       IN \/ /\ lock' = [lock EXCEPT ![p] = Free]
             /\ fresh' = [fresh EXCEPT ![p][w] = "none"]
             /\ UNCHANGED <<table, watch, current, missed>>
          \/ /\ table' = [table EXCEPT ![p][w] = lock[p].id]
             /\ StartWatcher(p, w)
             /\ fresh' = [fresh EXCEPT ![p][w] = "none"]
             /\ IF fresh[p][w] = "read"
                THEN /\ current' = [current EXCEPT ![p] = @ \cup {w}]
                     /\ UNCHANGED missed
                ELSE /\ missed' = [missed EXCEPT ![p] = @ \cup {w}]
                     /\ UNCHANGED current
             /\ lock' = [lock EXCEPT ![p] = [Free EXCEPT !.op = "persist"]]
    /\ UNCHANGED <<procVars, event, telling, file, ids, opened>>

(* Mutant of Close: the entry goes, its watcher stays. *)
CloseOnly(p, w) ==
    /\ Serves(p)
    /\ lock[p].op = "none"
    /\ table[p][w] # 0
    /\ table' = [table EXCEPT ![p][w] = 0]
    /\ lock' = [lock EXCEPT ![p] = [Free EXCEPT !.op = "persist"]]
    /\ UNCHANGED <<procVars, watch, event, current, fresh, telling, missed, file,
                   histVars>>

Close(p, w) ==
    /\ Serves(p)
    /\ lock[p].op = "none"
    /\ table[p][w] # 0
    /\ watch[p][w] = "on"
    /\ table' = [table EXCEPT ![p][w] = 0]
    /\ watch' = [watch EXCEPT ![p][w] = "none"]
    /\ event' = [event EXCEPT ![p] = @ \ {w}]
    /\ current' = [current EXCEPT ![p] = @ \ {w}]
    /\ fresh' = [fresh EXCEPT ![p][w] = "none"]
    /\ telling' = [telling EXCEPT ![p] = @ \ {w}]
    /\ missed' = [missed EXCEPT ![p] = @ \ {w}]
    /\ lock' = [lock EXCEPT ![p] = [Free EXCEPT !.op = "persist"]]
    /\ UNCHANGED <<procVars, file, histVars>>

(* Stopping a watcher again closes its channel twice: nothing recovers. *)
ClosePanics(p, w) ==
    /\ Serves(p)
    /\ lock[p].op = "none"
    /\ table[p][w] # 0
    /\ watch[p][w] = "stopped"
    /\ End(p)
    /\ UNCHANGED <<parent, socket, overlapped, file, ids, opened>>

(* persistLocked truncates the file (or cannot even do that) ... *)
Truncate(p) ==
    /\ lock[p].op = "persist"
    /\ \/ /\ file' = [whole |-> FALSE, ids |-> NoIds]
          /\ lock' = [lock EXCEPT ![p].op = "write"]
       \/ /\ lock' = [lock EXCEPT ![p] = Free]
          /\ UNCHANGED file
    /\ opened' = NoIds
    /\ UNCHANGED <<procVars, table, watch, event, current, fresh, telling,
                   missed, ids>>

(* Mutant of Write: a failure returns with the lock held. *)
WriteOrKeepLock(p) ==
    /\ lock[p].op = "write"
    /\ \/ /\ file' = [whole |-> TRUE, ids |-> table[p]]
          /\ lock' = [lock EXCEPT ![p] = Free]
          /\ opened' = table[p]
       \/ /\ lock' = [lock EXCEPT ![p].op = "kept"]
          /\ UNCHANGED <<file, opened>>
    /\ UNCHANGED <<procVars, table, watch, event, current, fresh, telling,
                   missed, ids>>

(* ... and writes it, or fails to; no error is looked at. *)
Write(p) ==
    /\ lock[p].op = "write"
    /\ lock' = [lock EXCEPT ![p] = Free]
    /\ \/ file' = [whole |-> TRUE, ids |-> table[p]] /\ opened' = table[p]
       \/ UNCHANGED <<file, opened>>
    /\ UNCHANGED <<procVars, table, watch, event, current, fresh, telling,
                   missed, ids>>

(* Service.Shutdown stops the watchers and leaves the table as it is.  What *)
(* a stopped loop has read and still stores there is left out.              *)
ShutRegistry(p) ==
    /\ life[p] = "stopping"
    /\ lock[p].op = "none"
    /\ life' = [life EXCEPT ![p] = "closing"]
    /\ watch' = [watch EXCEPT ![p] = [w \in Paths |->
                     IF @[w] = "on" THEN "stopped" ELSE @[w]]]
    /\ WatchersEnd(p)
    /\ UNCHANGED <<parent, listening, socket, overlapped, lock, table, file,
                   histVars>>

-----------------------------------------------------------------------------
(* Directories and their watchers *)

(* The git status of a directory changes: by a change that a watcher sees,  *)
(* or by one in a directory below, of which it gets no event.               *)
Edit(w) ==
    LET watching == {p \in Procs : watch[p][w] = "on"}
        Plus(f, S) == [p \in Procs |-> IF p \in S THEN f[p] \cup {w} ELSE f[p]]
        Minus(f, S) == [p \in Procs |-> IF p \in S THEN f[p] \ {w} ELSE f[p]]
    IN /\ current' = Minus(current, Procs)
       /\ fresh' = [p \in Procs |-> [fresh[p] EXCEPT
                        ![w] = IF @ = "read" THEN "old" ELSE @]]
       /\ \/ event' = Plus(event, watching) /\ missed' = Minus(missed, watching)
          \/ /\ missed' = Plus(missed, {p \in watching : w \notin event[p]})
             /\ UNCHANGED event
       /\ UNCHANGED <<procVars, lock, table, watch, telling, file, histVars>>

(* Events settled: the loop reads the status, without the lock.  An error  *)
(* of the read is dropped until the next event.                            *)
Loop(p, w) ==
    /\ Serves(p)
    /\ watch[p][w] = "on"
    /\ w \in event[p]
    /\ fresh[p][w] = "none"
    /\ w \notin telling[p]
    /\ event' = [event EXCEPT ![p] = @ \ {w}]
    /\ \/ ReadStatus(p, w) /\ UNCHANGED missed
       \/ missed' = [missed EXCEPT ![p] = @ \cup {w}] /\ UNCHANGED fresh
    /\ UNCHANGED <<procVars, lock, table, watch, current, telling, file,
                   histVars>>

(* Mutant of StoreStatus: while the lock is held, the status is dropped. *)
StoreOrDrop(p, w) ==
    /\ Serves(p)
    /\ fresh[p][w] # "none"
    /\ lock[p].op # "open"
    /\ fresh' = [fresh EXCEPT ![p][w] = "none"]
    /\ telling' = [telling EXCEPT ![p] = @ \cup {w}]
    /\ current' = IF fresh[p][w] = "read" /\ lock[p].op = "none"
                  THEN [current EXCEPT ![p] = @ \cup {w}] ELSE current
    /\ UNCHANGED <<procVars, lock, table, watch, event, missed, file, histVars>>

(* onGitChange stores it, with the lock, if the id is still in the table:   *)
(* Close has forgotten it otherwise; and notifies the clients.              *)
StoreStatus(p, w) ==
    /\ Serves(p)
    /\ fresh[p][w] # "none"
    /\ lock[p].op = "none"
    /\ fresh' = [fresh EXCEPT ![p][w] = "none"]
    /\ telling' = [telling EXCEPT ![p] = @ \cup {w}]
    /\ current' = IF fresh[p][w] = "read"
                  THEN [current EXCEPT ![p] = @ \cup {w}] ELSE current
    /\ UNCHANGED <<procVars, lock, table, watch, event, missed, file, histVars>>

(* Notify returns to the loop: no client's queue is full any more. *)
NotifyReturns(p, w) ==
    /\ w \in telling[p]
    /\ telling' = [telling EXCEPT ![p] = @ \ {w}]
    /\ UNCHANGED <<procVars, lock, table, watch, event, current, fresh, missed,
                   file, histVars>>

-----------------------------------------------------------------------------
MainStep(p) ==
    \/ Load(p) \/ Reopen(p) \/ Watchdog(p) \/ CloseListener(p)
    \/ ShutRegistry(p) \/ Exit(p)
LockedStep(p) == OpenEnd(p) \/ Truncate(p) \/ Write(p)
LoopStep(p, w) == Loop(p, w) \/ StoreStatus(p, w)

Next ==
    \/ \E p \in Procs :
         \/ Launch(p) \/ AppEnds(p) \/ Terminate(p) \/ Crash(p)
         \/ MainStep(p) \/ LockedStep(p)
         \/ \E w \in Paths : \/ OpenBegin(p, w) \/ Close(p, w)
                             \/ ClosePanics(p, w)
                             \/ LoopStep(p, w) \/ NotifyReturns(p, w)
    \/ \E w \in Paths : Edit(w)

Spec == Init /\ [][Next]_vars

(* Goroutines that can run do; the bounds make sure that the mutex is free  *)
(* in the end.  Users, apps and crashes are under no obligation.            *)
GoroutineFairness ==
    /\ \A p \in Procs : WF_vars(MainStep(p)) /\ WF_vars(LockedStep(p))
    /\ \A p \in Procs, w \in Paths : WF_vars(LoopStep(p, w))

(* What is assumed of the clients: each reads its connection or leaves, so  *)
(* that Notify, which waits for all of them (server.go:76), returns.        *)
ClientFairness == \A p \in Procs, w \in Paths : WF_vars(NotifyReturns(p, w))

FairSpec == Spec /\ GoroutineFairness /\ ClientFairness

-----------------------------------------------------------------------------
(* Properties *)

TypeOK ==
    /\ life \in [Procs -> {"off", "loading", "reopening", "serving",
                           "stopping", "closing", "gone"}]
    /\ parent \in [Procs -> BOOLEAN]
    /\ listening \subseteq Procs
    /\ socket \in Procs \cup {Nobody}
    /\ lock \in [Procs -> [op : {"none", "open", "persist", "write"},
                           path : SUBSET Paths, id : 0..MaxIds]]
    /\ table \in [Procs -> [Paths -> 0..MaxIds]]
    /\ watch \in [Procs -> [Paths -> {"none", "on", "stopped"}]]
    /\ event \in [Procs -> SUBSET Paths]
    /\ current \in [Procs -> SUBSET Paths]
    /\ fresh \in [Procs -> [Paths -> {"none", "read", "old"}]]
    /\ file \in [whole : BOOLEAN, ids : [Paths -> 0..MaxIds]]
    /\ ids \in 0..MaxIds
    /\ opened \in [Paths -> 0..MaxIds]
    /\ telling \in [Procs -> SUBSET Paths]
    /\ missed \in [Procs -> SUBSET Paths]
    /\ overlapped \in BOOLEAN

(* Workspaces "reopen across sidecar restarts" (registry.go:33-34), under   *)
(* the id the app knows them by, however the processes before ended: unless *)
(* the last write of the file failed or was cut, or the directory could not *)
(* be opened at this start or an earlier one.  Of two processes that run at *)
(* a time, the one that wrote last counts.                                  *)
ReopensUnderItsId ==
    [][\A p \in Procs :
           life[p] = "loading" /\ life'[p] = "reopening" =>
               \A w \in Paths : opened'[w] # 0 => table'[p][w] = opened[w]]_vars

(* Opening a path that is open gives the same workspace (registry.go:56).   *)
OpenKeepsId ==
    [][\A p \in Procs, w \in Paths :
           table[p][w] # 0 /\ table'[p][w] # 0 =>
               table'[p][w] = table[p][w]]_vars

(* A watcher runs exactly for the workspaces in the table, until the        *)
(* shutdown has stopped them all; closing a workspace twice, or while it is *)
(* being opened, is an error and not a panic (registry.go:138-142).         *)
WatchedWhileOpen ==
    \A p \in Procs :
        life[p] \in {"serving", "stopping"} =>
            \A w \in Paths : watch[p][w] = IF table[p][w] = 0 THEN "none"
                                                              ELSE "on"

(* A client that connects reaches the sidecar that serves (ListenAt         *)
(* replaces what a crash left, socket.go:41-44), unless two of them ran at  *)
(* a time: then the older one removes the path of the newer when it ends.   *)
Reachable ==
    \A p \in Procs :
        life[p] \in {"loading", "reopening", "serving"} /\ ~overlapped =>
            socket = p

(* The sidecar ends when its app is gone ("preventing orphaned processes if *)
(* the app crashes", watchdog.go:2), whatever it is doing: no orphan stays. *)
SidecarEnds == []<>(\A p \in Procs : Running(p) => parent[p])

(* The git state of an open workspace catches up with the changes made in   *)
(* its directory or its .git while it is watched (watcher.go:13-14), once   *)
(* they stop and as long as the clients let Notify return: also when more   *)
(* changes come while one is read, stored or told, or the lock is held.     *)
(* Not when the last change was in a directory below (watcher.go:25-33),    *)
(* reading it failed, or it came between the first read and the watcher's   *)
(* start (registry.go:91, :101).                                            *)
StatusCatchesUp ==
    \/ []<><<\E w \in Paths : Edit(w)>>_vars
    \/ []<>(\A p \in Procs, w \in Paths :
                watch[p][w] = "on" => w \in current[p] \cup missed[p])

(* The id the app knows a workspace by stays good, within a process and     *)
(* from one to the next (Open and load, registry.go:56-110 and :174-194).   *)
IdsAreStable == OpenKeepsId /\ ReopensUnderItsId
=============================================================================
