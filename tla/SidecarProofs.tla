--------------------------- MODULE SidecarProofs ----------------------------
(***************************************************************************)
(* What holds of the sidecar's life and of its workspace registry for any  *)
(* number of processes, directories and workspaces.                        *)
(***************************************************************************)
EXTENDS Sidecar, TLAPS

Holding(p) == lock[p].op # "none"

(* A second process makes itself known. *)
OneRuns ==
    \A p, q \in Procs : ~overlapped /\ Running(p) /\ Running(q) => p = q

(* Only a process that serves works on the registry; an open works on one  *)
(* path, which is not in the table until it is done.                       *)
LockIsServed(p) ==
    /\ Holding(p) => Serves(p)
    /\ lock[p].op = "open" =>
           \E w \in Paths : /\ lock[p].path = {w}
                            /\ lock[p].id # 0
                            /\ table[p][w] = 0

TableIsServed(p) ==
    ~Serves(p) /\ life[p] # "reopening" => \A w \in Paths : table[p][w] = 0

(* The file has every workspace that is owed. *)
FileIsComplete ==
    \A w \in Paths : opened[w] # 0 => file.whole /\ file.ids[w] = opened[w]

SidecarInv ==
    /\ TypeOK
    /\ OneRuns
    /\ Reachable
    /\ WatchedWhileOpen
    /\ FileIsComplete
    /\ \A p \in Procs : LockIsServed(p) /\ TableIsServed(p)

-----------------------------------------------------------------------------
(* Lemmas *)

(* What a step may be. *)
LEMMA Steps ==
    ASSUME NEW G,
           [Next]_vars,
           UNCHANGED vars => G,
           \A p \in Procs : Launch(p) => G,
           \A p \in Procs : AppEnds(p) => G,
           \A p \in Procs : Terminate(p) => G,
           \A p \in Procs : Crash(p) => G,
           \A p \in Procs : Load(p) => G,
           \A p \in Procs : Watchdog(p) => G,
           \A p \in Procs : CloseListener(p) => G,
           \A p \in Procs : Exit(p) => G,
           \A p \in Procs : OpenEnd(p) => G,
           \A p \in Procs : Truncate(p) => G,
           \A p \in Procs : Write(p) => G,
           \A p \in Procs : ShutRegistry(p) => G,
           \A p \in Procs, w \in Paths : OpenBegin(p, w) => G,
           \A p \in Procs, w \in Paths : Close(p, w) => G,
           \A p \in Procs, w \in Paths : ClosePanics(p, w) => G,
           \A p \in Procs, w \in Paths : Loop(p, w) => G,
           \A p \in Procs, w \in Paths : StoreStatus(p, w) => G,
           \A w \in Paths : Edit(w) => G,
           \A p \in Procs : Reopen(p) => G,
           \A p \in Procs, w \in Paths : NotifyReturns(p, w) => G
    PROVE  G
  BY DEF Next, MainStep, LockedStep, LoopStep

(* One entry of a table of tables changes. *)
LEMMA EntryStored ==
    ASSUME NEW A, NEW B, NEW C, NEW f \in [A -> [B -> C]],
           NEW a \in A, NEW b \in B, NEW c \in C
    PROVE  [f EXCEPT ![a][b] = c] \in [A -> [B -> C]]
  OBVIOUS

Locks == [op : {"none", "open", "persist", "write"}, path : SUBSET Paths,
          id : 0..MaxIds]

(* A path is added to what a process notes, or taken from it. *)
LEMMA PathNoted ==
    ASSUME NEW f \in [Procs -> SUBSET Paths], NEW p \in Procs, NEW w \in Paths
    PROVE  /\ [f EXCEPT ![p] = @ \cup {w}] \in [Procs -> SUBSET Paths]
           /\ [f EXCEPT ![p] = @ \ {w}] \in [Procs -> SUBSET Paths]
  OBVIOUS

(* Paths are added to what several processes note, or taken from it. *)
LEMMA PathNotedBy ==
    ASSUME NEW f \in [Procs -> SUBSET Paths], NEW w \in Paths, NEW S
    PROVE  /\ [p \in Procs |-> IF p \in S THEN f[p] \cup {w} ELSE f[p]]
                 \in [Procs -> SUBSET Paths]
           /\ [p \in Procs |-> IF p \in S THEN f[p] \ {w} ELSE f[p]]
                 \in [Procs -> SUBSET Paths]
  OBVIOUS

(* A lock is let go or kept for the next step. *)
LEMMA LockStored ==
    ASSUME SidecarAssumption, NEW p \in Procs, lock \in [Procs -> Locks]
    PROVE  /\ [lock EXCEPT ![p] = Free] \in [Procs -> Locks]
           /\ [lock EXCEPT ![p] = [Free EXCEPT !.op = "persist"]]
                 \in [Procs -> Locks]
           /\ [lock EXCEPT ![p].op = "write"] \in [Procs -> Locks]
  BY DEF Free, Locks, SidecarAssumption

(* What OpenEnd does, by the path it works on. *)
LEMMA OpenEndIs ==
    ASSUME NEW p, NEW w, lock[p].path = {w}, OpenEnd(p)
    PROVE  /\ lock[p].op = "open"
           /\ UNCHANGED <<procVars, event, telling, file, ids, opened>>
           /\ fresh' = [fresh EXCEPT ![p][w] = "none"]
           /\ \/ /\ lock' = [lock EXCEPT ![p] = Free]
                 /\ UNCHANGED <<table, watch, current, missed>>
              \/ /\ table' = [table EXCEPT ![p][w] = lock[p].id]
                 /\ watch' = [watch EXCEPT ![p][w] = "on"]
                 /\ current' \in {current, [current EXCEPT ![p] = @ \cup {w}]}
                 /\ missed' \in {missed, [missed EXCEPT ![p] = @ \cup {w}]}
                 /\ lock' = [lock EXCEPT ![p] = [Free EXCEPT !.op = "persist"]]
  <1>1. (CHOOSE v \in lock[p].path : TRUE) = w
    OBVIOUS
  <1>. QED  BY <1>1 DEF OpenEnd, StartWatcher

LEMMA SidecarInit == Init /\ SidecarAssumption => SidecarInv
  <1>. SUFFICES ASSUME Init, SidecarAssumption PROVE SidecarInv
    OBVIOUS
  <1>1. TypeOK
    <2>1. 0 \in 0..MaxIds
      BY DEF SidecarAssumption
    <2>. QED  BY <2>1 DEF Init, TypeOK, Nobody, NoIds, Free
  <1>2. OneRuns /\ Reachable /\ WatchedWhileOpen /\ FileIsComplete
    BY DEF Init, OneRuns, Reachable, WatchedWhileOpen, FileIsComplete, Running,
       NoIds
  <1>3. ASSUME NEW p \in Procs PROVE LockIsServed(p) /\ TableIsServed(p)
    BY DEF Init, LockIsServed, TableIsServed, Holding, Free, NoIds
  <1>. QED  BY <1>1, <1>2, <1>3 DEF SidecarInv

-----------------------------------------------------------------------------
LEMMA OpenEndTypes ==
    ASSUME TypeOK, SidecarAssumption, NEW p \in Procs, LockIsServed(p), OpenEnd(p)
    PROVE  TypeOK'
  <1>1. lock \in [Procs -> Locks] /\ lock[p].id \in 0..MaxIds
    BY DEF TypeOK, Locks
  <1>2. PICK w \in Paths : lock[p].path = {w}
    BY DEF OpenEnd, LockIsServed
  <1>3. /\ UNCHANGED <<procVars, event, telling, file, ids, opened>>
        /\ lock' \in {[lock EXCEPT ![p] = Free],
                     [lock EXCEPT ![p] = [Free EXCEPT !.op = "persist"]]}
        /\ table' \in {table, [table EXCEPT ![p][w] = lock[p].id]}
        /\ watch' \in {watch, [watch EXCEPT ![p][w] = "on"]}
        /\ fresh' = [fresh EXCEPT ![p][w] = "none"]
        /\ current' \in {current, [current EXCEPT ![p] = @ \cup {w}]}
        /\ missed' \in {missed, [missed EXCEPT ![p] = @ \cup {w}]}
    BY ONLY <1>2, OpenEnd(p), OpenEndIs
  <1>4. /\ table \in [Procs -> [Paths -> 0..MaxIds]]
        /\ watch \in [Procs -> [Paths -> {"none", "on", "stopped"}]]
        /\ fresh \in [Procs -> [Paths -> {"none", "read", "old"}]]
        /\ current \in [Procs -> SUBSET Paths]
        /\ missed \in [Procs -> SUBSET Paths]
    BY DEF TypeOK
  <1>5. lock' \in [Procs -> Locks]
    <2>1. /\ [lock EXCEPT ![p] = Free] \in [Procs -> Locks]
          /\ [lock EXCEPT ![p] = [Free EXCEPT !.op = "persist"]]
                \in [Procs -> Locks]
      BY ONLY <1>1, LockStored, SidecarAssumption, p \in Procs
    <2>. QED  BY ONLY <1>3, <2>1
  <1>6. table' \in [Procs -> [Paths -> 0..MaxIds]]
    <2>1. [table EXCEPT ![p][w] = lock[p].id] \in [Procs -> [Paths -> 0..MaxIds]]
      BY ONLY <1>1, <1>4, EntryStored, p \in Procs, w \in Paths
    <2>. QED  BY ONLY <1>3, <1>4, <2>1
  <1>7. watch' \in [Procs -> [Paths -> {"none", "on", "stopped"}]]
    <2>1. [watch EXCEPT ![p][w] = "on"]
             \in [Procs -> [Paths -> {"none", "on", "stopped"}]]
      BY ONLY <1>4, p \in Procs, w \in Paths
    <2>. QED  BY ONLY <1>3, <1>4, <2>1
  <1>8. fresh' \in [Procs -> [Paths -> {"none", "read", "old"}]]
    BY ONLY <1>3, <1>4, p \in Procs, w \in Paths
  <1>9. /\ current' \in [Procs -> SUBSET Paths]
        /\ missed' \in [Procs -> SUBSET Paths]
    <2>1. /\ [current EXCEPT ![p] = @ \cup {w}] \in [Procs -> SUBSET Paths]
          /\ [missed EXCEPT ![p] = @ \cup {w}] \in [Procs -> SUBSET Paths]
      BY ONLY <1>4, PathNoted, p \in Procs, w \in Paths
    <2>. QED  BY ONLY <1>3, <1>4, <2>1
  <1>. QED  BY <1>3, <1>5, <1>6, <1>7, <1>8, <1>9 DEF TypeOK, Locks, procVars

LEMMA WriteTypes ==
    ASSUME TypeOK, SidecarAssumption, NEW p \in Procs, Truncate(p) \/ Write(p)
    PROVE  TypeOK'
  <1>1. lock \in [Procs -> Locks]
    BY DEF TypeOK, Locks
  <1>2. lock' \in [Procs -> Locks]
    BY <1>1, LockStored DEF Truncate, Write
  <1>3. NoIds \in [Paths -> 0..MaxIds] /\ table[p] \in [Paths -> 0..MaxIds]
    BY DEF TypeOK, SidecarAssumption, NoIds
  <1>4. /\ file' \in [whole : BOOLEAN, ids : [Paths -> 0..MaxIds]]
        /\ opened' \in [Paths -> 0..MaxIds]
    <2>1. /\ file \in [whole : BOOLEAN, ids : [Paths -> 0..MaxIds]]
          /\ opened \in [Paths -> 0..MaxIds]
      BY DEF TypeOK
    <2>2. \A t \in [Paths -> 0..MaxIds], b \in BOOLEAN :
              [whole |-> b, ids |-> t] \in [whole : BOOLEAN, ids : [Paths -> 0..MaxIds]]
      OBVIOUS
    <2>3. /\ \/ file' = file
             \/ file' = [whole |-> FALSE, ids |-> NoIds]
             \/ file' = [whole |-> TRUE, ids |-> table[p]]
          /\ opened' \in {opened, NoIds, table[p]}
      BY DEF Truncate, Write
    <2>. QED  BY <1>3, <2>1, <2>2, <2>3
  <1>5. UNCHANGED <<procVars, table, watch, event, current, fresh, telling, missed,
                    ids>>
    BY DEF Truncate, Write
  <1>. QED  BY <1>2, <1>4, <1>5 DEF TypeOK, Locks, procVars

LEMMA WatchTypes ==
    ASSUME TypeOK, SidecarAssumption, NEW p \in Procs, NEW w \in Paths,
           Loop(p, w) \/ StoreStatus(p, w) \/ NotifyReturns(p, w)
    PROVE  TypeOK'
  <1>1. /\ fresh \in [Procs -> [Paths -> {"none", "read", "old"}]]
        /\ current \in [Procs -> SUBSET Paths]
        /\ telling \in [Procs -> SUBSET Paths]
        /\ missed \in [Procs -> SUBSET Paths]
        /\ event \in [Procs -> SUBSET Paths]
    BY DEF TypeOK
  <1>2. fresh' \in [Procs -> [Paths -> {"none", "read", "old"}]]
    <2>1. fresh' \in {fresh, [fresh EXCEPT ![p][w] = "read"],
                      [fresh EXCEPT ![p][w] = "none"]}
      BY DEF Loop, StoreStatus, NotifyReturns, ReadStatus
    <2>2. /\ [fresh EXCEPT ![p][w] = "read"]
                \in [Procs -> [Paths -> {"none", "read", "old"}]]
          /\ [fresh EXCEPT ![p][w] = "none"]
                \in [Procs -> [Paths -> {"none", "read", "old"}]]
      BY ONLY <1>1, p \in Procs, w \in Paths
    <2>. QED  BY ONLY <1>1, <2>1, <2>2
  <1>3. /\ current' \in {current, [current EXCEPT ![p] = @ \cup {w}]}
        /\ telling' \in {telling, [telling EXCEPT ![p] = @ \cup {w}],
                         [telling EXCEPT ![p] = @ \ {w}]}
        /\ missed' \in {missed, [missed EXCEPT ![p] = @ \cup {w}]}
        /\ event' \in {event, [event EXCEPT ![p] = @ \ {w}]}
    BY DEF Loop, StoreStatus, NotifyReturns
  <1>4. /\ current' \in [Procs -> SUBSET Paths]
        /\ telling' \in [Procs -> SUBSET Paths]
        /\ missed' \in [Procs -> SUBSET Paths]
        /\ event' \in [Procs -> SUBSET Paths]
    <2>1. ASSUME NEW f \in [Procs -> SUBSET Paths]
          PROVE  /\ [f EXCEPT ![p] = @ \cup {w}] \in [Procs -> SUBSET Paths]
                 /\ [f EXCEPT ![p] = @ \ {w}] \in [Procs -> SUBSET Paths]
      BY PathNoted
    <2>2. /\ [current EXCEPT ![p] = @ \cup {w}] \in [Procs -> SUBSET Paths]
          /\ [telling EXCEPT ![p] = @ \cup {w}] \in [Procs -> SUBSET Paths]
          /\ [telling EXCEPT ![p] = @ \ {w}] \in [Procs -> SUBSET Paths]
          /\ [missed EXCEPT ![p] = @ \cup {w}] \in [Procs -> SUBSET Paths]
          /\ [event EXCEPT ![p] = @ \ {w}] \in [Procs -> SUBSET Paths]
      BY ONLY <1>1, <2>1
    <2>. QED  BY ONLY <1>1, <1>3, <2>2
  <1>5. UNCHANGED <<procVars, lock, table, watch, file, histVars>>
    BY DEF Loop, StoreStatus, NotifyReturns
  <1>. QED  BY <1>2, <1>4, <1>5 DEF TypeOK, procVars, histVars

(* The types of the watchers' variables of a process that ends. *)
LEMMA WatchersEndTypes ==
    ASSUME TypeOK, NEW p \in Procs, WatchersEnd(p)
    PROVE  /\ fresh' \in [Procs -> [Paths -> {"none", "read", "old"}]]
           /\ current' \in [Procs -> SUBSET Paths]
           /\ telling' \in [Procs -> SUBSET Paths]
           /\ missed' \in [Procs -> SUBSET Paths]
           /\ event' \in [Procs -> SUBSET Paths]
  BY DEF TypeOK, WatchersEnd

LEMMA TypesStay ==
    ASSUME SidecarInv, SidecarAssumption, [Next]_vars
    PROVE  TypeOK'
  <1>t. TypeOK /\ \A p \in Procs : LockIsServed(p)
    BY DEF SidecarInv
  <1>. USE <1>t DEF TypeOK, SidecarAssumption, Nobody, NoIds,
               Free, procVars, regVars, histVars
  <1>a. 0 \in 0..MaxIds
    OBVIOUS
  <1>0. UNCHANGED vars => TypeOK'
    BY DEF vars
  <1>1. ASSUME NEW p \in Procs, Launch(p) PROVE TypeOK'
    BY <1>1 DEF Launch, Launches
  <1>2. ASSUME NEW p \in Procs, AppEnds(p) PROVE TypeOK'
    BY <1>2 DEF AppEnds
  <1>3. ASSUME NEW p \in Procs, Terminate(p) PROVE TypeOK'
    BY <1>3 DEF Terminate, Cancel
  <1>4. ASSUME NEW p \in Procs, Crash(p) PROVE TypeOK'
    BY <1>4, WatchersEndTypes DEF Crash, End
  <1>5. ASSUME NEW p \in Procs, Load(p) PROVE TypeOK'
    BY <1>5 DEF Load
  <1>6. ASSUME NEW p \in Procs, Watchdog(p) PROVE TypeOK'
    BY <1>6 DEF Watchdog, Cancel
  <1>7. ASSUME NEW p \in Procs, CloseListener(p) PROVE TypeOK'
    BY <1>7 DEF CloseListener
  <1>8. ASSUME NEW p \in Procs, Exit(p) PROVE TypeOK'
    BY <1>8, WatchersEndTypes DEF Exit, End
  <1>9. ASSUME NEW p \in Procs, OpenEnd(p) PROVE TypeOK'
    BY ONLY <1>9, <1>t, SidecarAssumption, OpenEndTypes
  <1>10. ASSUME NEW p \in Procs, Truncate(p) PROVE TypeOK'
    BY ONLY <1>10, <1>t, SidecarAssumption, WriteTypes
  <1>11. ASSUME NEW p \in Procs, Write(p) PROVE TypeOK'
    BY ONLY <1>11, <1>t, SidecarAssumption, WriteTypes
  <1>12. ASSUME NEW p \in Procs, ShutRegistry(p) PROVE TypeOK'
    BY <1>12, WatchersEndTypes DEF ShutRegistry
  <1>13. ASSUME NEW p \in Procs, NEW w \in Paths, OpenBegin(p, w) PROVE TypeOK'
    BY <1>13 DEF OpenBegin, ReadStatus
  <1>14. ASSUME NEW p \in Procs, NEW w \in Paths, Close(p, w) PROVE TypeOK'
    <2>1. lock' \in [Procs -> Locks]
      BY <1>14, LockStored DEF Close, Locks
    <2>2. table' \in [Procs -> [Paths -> 0..MaxIds]]
      BY <1>14, <1>a, EntryStored DEF TypeOK, Close
    <2>4. watch' \in [Procs -> [Paths -> {"none", "on", "stopped"}]]
      BY <1>14, <1>a, EntryStored DEF TypeOK, Close
    <2>5. fresh' \in [Procs -> [Paths -> {"none", "read", "old"}]]
      BY <1>14, <1>a, EntryStored DEF TypeOK, Close
    <2>6. /\ current' \in [Procs -> SUBSET Paths]
          /\ telling' \in [Procs -> SUBSET Paths]
          /\ missed' \in [Procs -> SUBSET Paths]
          /\ event' \in [Procs -> SUBSET Paths]
      BY <1>14, PathNoted DEF TypeOK, Close
    <2>. QED  BY <1>14, <2>1, <2>2, <2>4, <2>5, <2>6 DEF Close, Locks
  <1>15. ASSUME NEW p \in Procs, NEW w \in Paths, ClosePanics(p, w) PROVE TypeOK'
    BY <1>15, WatchersEndTypes DEF ClosePanics, End
  <1>16. ASSUME NEW p \in Procs, NEW w \in Paths, Loop(p, w) PROVE TypeOK'
    BY ONLY <1>16, <1>t, SidecarAssumption, WatchTypes
  <1>17. ASSUME NEW p \in Procs, NEW w \in Paths, StoreStatus(p, w) PROVE TypeOK'
    BY ONLY <1>17, <1>t, SidecarAssumption, WatchTypes
  <1>18. ASSUME NEW w \in Paths, Edit(w) PROVE TypeOK'
    <2>1. fresh' \in [Procs -> [Paths -> {"none", "read", "old"}]]
      BY <1>18 DEF TypeOK, Edit
    <2>3. /\ current \in [Procs -> SUBSET Paths]
          /\ missed \in [Procs -> SUBSET Paths]
          /\ event \in [Procs -> SUBSET Paths]
      BY DEF TypeOK
    <2>4. /\ current' \in [Procs -> SUBSET Paths]
          /\ missed' \in [Procs -> SUBSET Paths]
          /\ event' \in [Procs -> SUBSET Paths]
      <3>. DEFINE Plus(f, S) == [p \in Procs |-> IF p \in S THEN f[p] \cup {w}
                                                          ELSE f[p]]
                  Minus(f, S) == [p \in Procs |-> IF p \in S THEN f[p] \ {w}
                                                           ELSE f[p]]
                  watching == {p \in Procs : watch[p][w] = "on"}
                  below == {p \in watching : w \notin event[p]}
      <3>1. /\ current' = Minus(current, Procs)
            /\ missed' \in {Minus(missed, watching), Plus(missed, below)}
            /\ event' \in {event, Plus(event, watching)}
        BY ONLY <1>18 DEF Edit
      <3>2. ASSUME NEW f \in [Procs -> SUBSET Paths], NEW S
            PROVE  /\ Plus(f, S) \in [Procs -> SUBSET Paths]
                   /\ Minus(f, S) \in [Procs -> SUBSET Paths]
        BY ONLY PathNotedBy, f \in [Procs -> SUBSET Paths], w \in Paths
      <3>. HIDE DEF Plus, Minus, watching, below
      <3>. QED  BY ONLY <3>1, <3>2, <2>3
    <2>. QED  BY <1>18, <2>1, <2>4 DEF Edit
  <1>19. ASSUME NEW p \in Procs, Reopen(p) PROVE TypeOK'
    <2>1. watch' \in [Procs -> [Paths -> {"none", "on", "stopped"}]]
      BY <1>19 DEF TypeOK, Reopen
    <2>2. fresh' \in [Procs -> [Paths -> {"none", "read", "old"}]]
      BY <1>19 DEF TypeOK, Reopen
    <2>3. /\ current' \in [Procs -> SUBSET Paths]
          /\ missed' \in [Procs -> SUBSET Paths]
      BY <1>19 DEF TypeOK, Reopen
    <2>4. life' \in [Procs -> {"off", "loading", "reopening", "serving",
                              "stopping", "closing", "gone"}]
      BY <1>19 DEF TypeOK, Reopen
    <2>. QED  BY <1>19, <2>1, <2>2, <2>3, <2>4 DEF Reopen
  <1>20. ASSUME NEW p \in Procs, NEW w \in Paths, NotifyReturns(p, w) PROVE TypeOK'
    BY ONLY <1>20, <1>t, SidecarAssumption, WatchTypes
  <1>. QED
    BY ONLY <1>0, <1>1, <1>2, <1>3, <1>4, <1>5, <1>6, <1>7, <1>8, <1>9, <1>10,
       <1>11, <1>12, <1>13, <1>14, <1>15, <1>16, <1>17, <1>18, <1>19, <1>20,
       [Next]_vars, Steps

-----------------------------------------------------------------------------
Later == {"reopening", "serving", "stopping", "closing", "gone"}

(* A process that is on its way out closes its listener. *)
LosesSocket(p) ==
    /\ life[p] \in {"stopping", "closing"}
    /\ UNCHANGED <<life, overlapped>>

(* A process moves on. *)
Moves(p, x) ==
    /\ Running(p)
    /\ x = "reopening" => life[p] = "loading"
    /\ x = "serving" => life[p] = "reopening"
    /\ life' = [life EXCEPT ![p] = x]
    /\ socket' = socket \/ life[p] \in {"stopping", "closing"}
    /\ UNCHANGED overlapped

(* What a step does to life and socket. *)
LEMMA LifeSteps ==
    ASSUME [Next]_vars, TypeOK
    PROVE  \/ \E p \in Procs : Launch(p)
           \/ UNCHANGED <<life, socket, overlapped>>
           \/ \E p \in Procs : LosesSocket(p)
           \/ \E p \in Procs, x \in Later : Moves(p, x)
  <1>. DEFINE G == \/ \E p \in Procs : Launch(p)
                   \/ UNCHANGED <<life, socket, overlapped>>
                   \/ \E p \in Procs : LosesSocket(p)
                   \/ \E p \in Procs, x \in Later : Moves(p, x)
  <1>0. UNCHANGED vars => G
    BY DEF vars, procVars
  <1>1. ASSUME NEW p \in Procs, Launch(p) PROVE G
    BY <1>1
  <1>2. ASSUME NEW p \in Procs, AppEnds(p) PROVE G
    BY <1>2 DEF AppEnds
  <1>3. ASSUME NEW p \in Procs, Terminate(p) PROVE G
    <2>1. Moves(p, "stopping")
      BY <1>3 DEF Terminate, Cancel, Moves, Running
    <2>. QED  BY <2>1 DEF Later
  <1>4. ASSUME NEW p \in Procs, Crash(p) PROVE G
    <2>1. Moves(p, "gone")
      BY <1>4 DEF Crash, End, Moves, Running
    <2>. QED  BY <2>1 DEF Later
  <1>5. ASSUME NEW p \in Procs, Load(p) PROVE G
    <2>1. Moves(p, "reopening")
      BY <1>5 DEF Load, Moves, Running
    <2>. QED  BY <2>1 DEF Later
  <1>6. ASSUME NEW p \in Procs, Watchdog(p) PROVE G
    <2>1. Moves(p, "stopping")
      BY <1>6 DEF Watchdog, Cancel, Moves, Running
    <2>. QED  BY <2>1 DEF Later
  <1>7. ASSUME NEW p \in Procs, CloseListener(p) PROVE G
    BY <1>7 DEF CloseListener, LosesSocket
  <1>8. ASSUME NEW p \in Procs, Exit(p) PROVE G
    <2>1. Moves(p, "gone")
      BY <1>8 DEF Exit, End, Moves, Running
    <2>. QED  BY <2>1 DEF Later
  <1>9. ASSUME NEW p \in Procs, OpenEnd(p) PROVE G
    BY <1>9 DEF OpenEnd, procVars
  <1>10. ASSUME NEW p \in Procs, Truncate(p) PROVE G
    BY <1>10 DEF Truncate, procVars
  <1>11. ASSUME NEW p \in Procs, Write(p) PROVE G
    BY <1>11 DEF Write, procVars
  <1>12. ASSUME NEW p \in Procs, ShutRegistry(p) PROVE G
    <2>1. Moves(p, "closing")
      BY <1>12 DEF ShutRegistry, Moves, Running
    <2>. QED  BY <2>1 DEF Later
  <1>13. ASSUME NEW p \in Procs, NEW w \in Paths, OpenBegin(p, w) PROVE G
    BY <1>13 DEF OpenBegin, procVars
  <1>14. ASSUME NEW p \in Procs, NEW w \in Paths, Close(p, w) PROVE G
    BY <1>14 DEF Close, procVars
  <1>15. ASSUME NEW p \in Procs, NEW w \in Paths, ClosePanics(p, w) PROVE G
    <2>1. Moves(p, "gone")
      BY <1>15 DEF ClosePanics, End, Serves, Moves, Running
    <2>. QED  BY <2>1 DEF Later
  <1>16. ASSUME NEW p \in Procs, NEW w \in Paths, Loop(p, w) PROVE G
    BY <1>16 DEF Loop, procVars
  <1>17. ASSUME NEW p \in Procs, NEW w \in Paths, StoreStatus(p, w) PROVE G
    BY <1>17 DEF StoreStatus, procVars
  <1>18. ASSUME NEW w \in Paths, Edit(w) PROVE G
    BY <1>18 DEF Edit, procVars
  <1>19. ASSUME NEW p \in Procs, Reopen(p) PROVE G
    <2>1. Moves(p, "serving")
      BY <1>19 DEF Reopen, Moves, Running
    <2>. QED  BY <2>1 DEF Later
  <1>20. ASSUME NEW p \in Procs, NEW w \in Paths, NotifyReturns(p, w) PROVE G
    BY <1>20 DEF NotifyReturns, procVars
  <1>q. G
    <2>. HIDE DEF G
    <2>. QED
      BY ONLY <1>0, <1>1, <1>2, <1>3, <1>4, <1>5, <1>6, <1>7, <1>8, <1>9, <1>10,
         <1>11, <1>12, <1>13, <1>14, <1>15, <1>16, <1>17, <1>18, <1>19, <1>20,
         [Next]_vars, Steps
  <1>. QED  BY ONLY <1>q

(* At most one process runs, and it has the socket until it is told to end. *)
LEMMA ProcessesStay ==
    ASSUME SidecarInv, [Next]_vars
    PROVE  OneRuns' /\ Reachable'
  <1>. USE DEF SidecarInv, OneRuns, Reachable, Running
  <1>t. life \in [Procs -> {"off", "loading", "reopening", "serving",
                           "stopping", "closing", "gone"}]
    BY DEF TypeOK
  <1>1. ASSUME NEW p \in Procs, Launch(p) PROVE OneRuns' /\ Reachable'
    BY <1>t, <1>1 DEF Launch, Launches
  <1>2. CASE UNCHANGED <<life, socket, overlapped>>
    BY <1>2
  <1>5. ASSUME NEW p \in Procs, LosesSocket(p) PROVE OneRuns' /\ Reachable'
    BY <1>5 DEF LosesSocket
  <1>3. ASSUME NEW p \in Procs, NEW x \in Later, Moves(p, x)
        PROVE  OneRuns' /\ Reachable'
    <2>1. ASSUME NEW q \in Procs, life'[q] \notin {"off", "gone"}
          PROVE  /\ life[q] \notin {"off", "gone"}
                 /\ life'[q] \in {"loading", "reopening", "serving"} =>
                       life[q] \in {"loading", "reopening", "serving"}
      BY <1>t, <1>3, <2>1 DEF Moves, Later
    <2>. QED  BY <1>t, <1>3, <2>1 DEF Moves, Later
  <1>4. TypeOK
    OBVIOUS
  <1>. QED  BY ONLY <1>1, <1>2, <1>3, <1>5, <1>4, [Next]_vars, LifeSteps

-----------------------------------------------------------------------------
(* WatchedWhileOpen, for one process. *)
Watched(p) ==
    life[p] \in {"serving", "stopping"} =>
        \A w \in Paths : watch[p][w] = IF table[p][w] = 0 THEN "none"
                                                          ELSE "on"

ProcessInv(p) == LockIsServed(p) /\ TableIsServed(p) /\ Watched(p)

(* A step of another process changes nothing for this one. *)
LEMMA OthersStay ==
    ASSUME NEW q, ProcessInv(q), life'[q] = life[q], lock'[q] = lock[q],
           table'[q] = table[q], watch'[q] = watch[q]
    PROVE  ProcessInv(q)'
  BY DEF ProcessInv, LockIsServed, TableIsServed, Watched, Holding, Serves

LEMMA RegistriesStay ==
    ASSUME SidecarInv, SidecarAssumption, [Next]_vars, NEW q \in Procs
    PROVE  ProcessInv(q)'
  <1>t. /\ life \in [Procs -> {"off", "loading", "reopening", "serving",
                              "stopping", "closing", "gone"}]
        /\ lock \in [Procs -> Locks]
        /\ table \in [Procs -> [Paths -> 0..MaxIds]]
        /\ watch \in [Procs -> [Paths -> {"none", "on", "stopped"}]]
        /\ \A n \in 0..MaxIds : n + 1 # 0
    BY DEF SidecarInv, TypeOK, Locks
  <1>i. ProcessInv(q)
    BY DEF SidecarInv, ProcessInv, Watched, WatchedWhileOpen
  <1>. USE DEF procVars, regVars
  <1>0. UNCHANGED vars => ProcessInv(q)'
    BY <1>i, OthersStay DEF vars
  <1>1. ASSUME NEW p \in Procs, Launch(p) PROVE ProcessInv(q)'
    <2>1. CASE p # q
      BY <1>1, <2>1, <1>i, <1>t, OthersStay DEF Launch, Launches
    <2>2. CASE p = q
      BY <1>1, <2>2, <1>i, <1>t DEF Launch, Launches, Free, ProcessInv,
         LockIsServed, TableIsServed, Watched, Holding, Serves
    <2>. QED  BY <2>1, <2>2
  <1>2. ASSUME NEW p \in Procs, AppEnds(p) PROVE ProcessInv(q)'
    BY <1>2, <1>i, <1>t, OthersStay DEF AppEnds
  <1>3. ASSUME NEW p \in Procs, Terminate(p) PROVE ProcessInv(q)'
    <2>1. CASE p # q
      BY <1>3, <2>1, <1>i, <1>t, OthersStay DEF Terminate, Cancel
    <2>2. CASE p = q
      BY <1>3, <2>2, <1>i, <1>t DEF Terminate, Cancel, Free, ProcessInv,
         LockIsServed, TableIsServed, Watched, Holding, Serves
    <2>. QED  BY <2>1, <2>2
  <1>4. ASSUME NEW p \in Procs, Crash(p) PROVE ProcessInv(q)'
    <2>1. CASE p # q
      BY <1>4, <2>1, <1>i, <1>t, OthersStay DEF Crash, End
    <2>2. CASE p = q
      BY <1>4, <2>2, <1>i, <1>t DEF Crash, End, Free, NoIds, ProcessInv,
         LockIsServed, TableIsServed, Watched, Holding, Serves
    <2>. QED  BY <2>1, <2>2
  <1>5. ASSUME NEW p \in Procs, Load(p) PROVE ProcessInv(q)'
    <2>1. CASE p # q
      BY <1>5, <2>1, <1>i, <1>t, OthersStay DEF Load
    <2>2. CASE p = q
      <3>1. life'[p] = "reopening" /\ ~Holding(p)'
        BY <1>5, <2>2, <1>i, <1>t DEF Load, ProcessInv, LockIsServed,
           Holding, Serves
      <3>. QED  BY <2>2, <3>1 DEF ProcessInv, LockIsServed, TableIsServed,
                   Watched, Holding
    <2>. QED  BY <2>1, <2>2
  <1>6. ASSUME NEW p \in Procs, Watchdog(p) PROVE ProcessInv(q)'
    <2>1. CASE p # q
      BY <1>6, <2>1, <1>i, <1>t, OthersStay DEF Watchdog, Cancel
    <2>2. CASE p = q
      BY <1>6, <2>2, <1>i, <1>t DEF Watchdog, Cancel, Free, ProcessInv,
         LockIsServed, TableIsServed, Watched, Holding, Serves
    <2>. QED  BY <2>1, <2>2
  <1>7. ASSUME NEW p \in Procs, CloseListener(p) PROVE ProcessInv(q)'
    BY <1>7, <1>i, <1>t, OthersStay DEF CloseListener
  <1>8. ASSUME NEW p \in Procs, Exit(p) PROVE ProcessInv(q)'
    <2>1. CASE p # q
      BY <1>8, <2>1, <1>i, <1>t, OthersStay DEF Exit, End
    <2>2. CASE p = q
      BY <1>8, <2>2, <1>i, <1>t DEF Exit, End, Free, NoIds, ProcessInv,
         LockIsServed, TableIsServed, Watched, Holding, Serves
    <2>. QED  BY <2>1, <2>2
  <1>9. ASSUME NEW p \in Procs, OpenEnd(p) PROVE ProcessInv(q)'
    <2>1. CASE p # q
      BY <1>9, <2>1, <1>i, <1>t, OthersStay DEF OpenEnd, StartWatcher
    <2>2. CASE p = q
      <3>1. PICK w \in Paths : /\ lock[p].path = {w}
                               /\ lock[p].id # 0
                               /\ table[p][w] = 0
        BY <1>9, <2>2, <1>i DEF OpenEnd, ProcessInv, LockIsServed
      <3>2. Serves(p) /\ life' = life
        BY <1>9, <2>2, <1>i DEF OpenEnd, ProcessInv, LockIsServed, Holding
      <3>3. CASE UNCHANGED <<table, watch>> /\ lock' = [lock EXCEPT ![p] = Free]
        BY <2>2, <3>2, <3>3, <1>i, <1>t DEF Free, ProcessInv, LockIsServed,
           TableIsServed, Watched, Holding, Serves
      <3>4. CASE /\ table' = [table EXCEPT ![p][w] = lock[p].id]
                 /\ watch' = [watch EXCEPT ![p][w] = "on"]
                 /\ lock' = [lock EXCEPT ![p] = [Free EXCEPT !.op = "persist"]]
        BY <2>2, <3>1, <3>2, <3>4, <1>i, <1>t DEF Free, ProcessInv,
           LockIsServed, TableIsServed, Watched, Holding, Serves
      <3>. QED  BY <1>9, <3>1, <3>3, <3>4, OpenEndIs
    <2>. QED  BY <2>1, <2>2
  <1>10. ASSUME NEW p \in Procs, Truncate(p) PROVE ProcessInv(q)'
    <2>1. CASE p # q
      BY <1>10, <2>1, <1>i, <1>t, OthersStay DEF Truncate
    <2>2. CASE p = q
      <3>1. UNCHANGED <<life, table, watch>> /\ Serves(p)
        BY <1>10, <2>2, <1>i DEF Truncate, ProcessInv, LockIsServed,
           TableIsServed, Watched, Holding, Serves
      <3>2. lock'[p].op \in {"write", "none"}
        BY <1>10, <1>t DEF Truncate, Free, Locks
      <3>. QED  BY <2>2, <3>1, <3>2, <1>i DEF ProcessInv, LockIsServed,
                   TableIsServed, Watched, Holding, Serves
    <2>. QED  BY <2>1, <2>2
  <1>11. ASSUME NEW p \in Procs, Write(p) PROVE ProcessInv(q)'
    <2>1. CASE p # q
      BY <1>11, <2>1, <1>i, <1>t, OthersStay DEF Write
    <2>2. CASE p = q
      BY <1>11, <2>2, <1>i, <1>t DEF Write, Free, ProcessInv,
         LockIsServed, TableIsServed, Watched, Holding, Serves
    <2>. QED  BY <2>1, <2>2
  <1>12. ASSUME NEW p \in Procs, ShutRegistry(p) PROVE ProcessInv(q)'
    <2>1. CASE p # q
      BY <1>12, <2>1, <1>i, <1>t, OthersStay DEF ShutRegistry
    <2>2. CASE p = q
      BY <1>12, <2>2, <1>i, <1>t DEF ShutRegistry, Free, ProcessInv,
         LockIsServed, TableIsServed, Watched, Holding, Serves
    <2>. QED  BY <2>1, <2>2
  <1>13. ASSUME NEW p \in Procs, NEW w \in Paths, OpenBegin(p, w) PROVE ProcessInv(q)'
    <2>1. CASE p # q
      BY <1>13, <2>1, <1>i, <1>t, OthersStay DEF OpenBegin
    <2>2. CASE p = q
      <3>1. UNCHANGED <<life, table, watch>> /\ Serves(p) /\ table[p][w] = 0
        BY <1>13 DEF OpenBegin
      <3>2. lock'[p].path = {w} /\ lock'[p].id = ids + 1
        BY <1>13, <1>t DEF OpenBegin
      <3>3. ids + 1 # 0
        BY <1>t DEF SidecarInv, TypeOK
      <3>. QED  BY <2>2, <3>1, <3>2, <3>3, <1>i DEF ProcessInv, LockIsServed,
                   TableIsServed, Watched, Holding, Serves
    <2>. QED  BY <2>1, <2>2
  <1>14. ASSUME NEW p \in Procs, NEW w \in Paths, Close(p, w) PROVE ProcessInv(q)'
    <2>1. CASE p # q
      BY <1>14, <2>1, <1>i, <1>t, OthersStay DEF Close
    <2>2. CASE p = q
      BY <1>14, <2>2, <1>i, <1>t DEF Close, Free, ProcessInv,
         LockIsServed, TableIsServed, Watched, Holding, Serves
    <2>. QED  BY <2>1, <2>2
  <1>15. ASSUME NEW p \in Procs, NEW w \in Paths, ClosePanics(p, w) PROVE ProcessInv(q)'
    <2>1. CASE p # q
      BY <1>15, <2>1, <1>i, <1>t, OthersStay DEF ClosePanics, End
    <2>2. CASE p = q
      BY <1>15, <2>2, <1>i, <1>t DEF ClosePanics, End, Free, NoIds, ProcessInv,
         LockIsServed, TableIsServed, Watched, Holding, Serves
    <2>. QED  BY <2>1, <2>2
  <1>16. ASSUME NEW p \in Procs, NEW w \in Paths, Loop(p, w) PROVE ProcessInv(q)'
    BY <1>16, <1>i, <1>t, OthersStay DEF Loop
  <1>17. ASSUME NEW p \in Procs, NEW w \in Paths, StoreStatus(p, w) PROVE ProcessInv(q)'
    BY <1>17, <1>i, <1>t, OthersStay DEF StoreStatus
  <1>18. ASSUME NEW w \in Paths, Edit(w) PROVE ProcessInv(q)'
    BY <1>18, <1>i, OthersStay DEF Edit
  <1>19. ASSUME NEW p \in Procs, Reopen(p) PROVE ProcessInv(q)'
    <2>1. CASE p # q
      BY <1>19, <2>1, <1>i, <1>t, OthersStay DEF Reopen
    <2>2. CASE p = q
      BY <1>19, <2>2, <1>i, <1>t DEF Reopen, ProcessInv,
         LockIsServed, TableIsServed, Watched, Holding, Serves
    <2>. QED  BY <2>1, <2>2
  <1>20. ASSUME NEW p \in Procs, NEW w \in Paths, NotifyReturns(p, w) PROVE ProcessInv(q)'
    BY <1>20, <1>i, <1>t, OthersStay DEF NotifyReturns
  <1>. QED
    BY ONLY <1>0, <1>1, <1>2, <1>3, <1>4, <1>5, <1>6, <1>7, <1>8, <1>9, <1>10,
       <1>11, <1>12, <1>13, <1>14, <1>15, <1>16, <1>17, <1>18, <1>19, <1>20,
       [Next]_vars, Steps

-----------------------------------------------------------------------------
(* The file: what a step does to it and to what is known. *)
LEMMA FileStays ==
    ASSUME SidecarInv, [Next]_vars
    PROVE  FileIsComplete'
  <1>t. /\ lock \in [Procs -> Locks]
        /\ table \in [Procs -> [Paths -> 0..MaxIds]]
        /\ opened \in [Paths -> 0..MaxIds]
    BY DEF SidecarInv, TypeOK, Locks
  <1>i. FileIsComplete
    BY DEF SidecarInv
  <1>c. UNCHANGED <<file, opened>> => FileIsComplete'
    BY <1>i DEF FileIsComplete
  <1>. USE DEF procVars, regVars, histVars
  <1>0. UNCHANGED vars => FileIsComplete'
    BY <1>c DEF vars
  <1>1. ASSUME NEW p \in Procs, Launch(p) PROVE FileIsComplete'
    BY <1>1, <1>c, <1>t DEF Launch, Launches
  <1>2. ASSUME NEW p \in Procs, AppEnds(p) PROVE FileIsComplete'
    BY <1>2, <1>c, <1>t DEF AppEnds
  <1>3. ASSUME NEW p \in Procs, Terminate(p) PROVE FileIsComplete'
    BY <1>3, <1>c, <1>t DEF Terminate, Cancel
  <1>4. ASSUME NEW p \in Procs, Crash(p) PROVE FileIsComplete'
    BY <1>4, <1>c, <1>t DEF Crash, End
  <1>5. ASSUME NEW p \in Procs, Load(p) PROVE FileIsComplete'
    <2>1. UNCHANGED file
      BY <1>5 DEF Load
    <2>2. \A w \in Paths : opened'[w] # 0 => opened'[w] = opened[w]
      BY <1>5 DEF Load
    <2>. QED  BY <2>1, <2>2, <1>i DEF FileIsComplete
  <1>6. ASSUME NEW p \in Procs, Watchdog(p) PROVE FileIsComplete'
    BY <1>6, <1>c, <1>t DEF Watchdog, Cancel
  <1>7. ASSUME NEW p \in Procs, CloseListener(p) PROVE FileIsComplete'
    BY <1>7, <1>c, <1>t DEF CloseListener
  <1>8. ASSUME NEW p \in Procs, Exit(p) PROVE FileIsComplete'
    BY <1>8, <1>c, <1>t DEF Exit, End
  <1>9. ASSUME NEW p \in Procs, OpenEnd(p) PROVE FileIsComplete'
    BY <1>9, <1>c DEF OpenEnd
  <1>10. ASSUME NEW p \in Procs, Truncate(p) PROVE FileIsComplete'
    BY <1>10, <1>i, <1>t DEF Truncate, FileIsComplete, NoIds
  <1>11. ASSUME NEW p \in Procs, Write(p) PROVE FileIsComplete'
    BY <1>11, <1>i, <1>t DEF Write, FileIsComplete
  <1>12. ASSUME NEW p \in Procs, ShutRegistry(p) PROVE FileIsComplete'
    BY <1>12, <1>c, <1>t DEF ShutRegistry
  <1>13. ASSUME NEW p \in Procs, NEW w \in Paths, OpenBegin(p, w) PROVE FileIsComplete'
    BY <1>13, <1>c, <1>t DEF OpenBegin
  <1>14. ASSUME NEW p \in Procs, NEW w \in Paths, Close(p, w) PROVE FileIsComplete'
    BY <1>14, <1>c, <1>t DEF Close
  <1>15. ASSUME NEW p \in Procs, NEW w \in Paths, ClosePanics(p, w) PROVE FileIsComplete'
    BY <1>15, <1>c, <1>t DEF ClosePanics, End
  <1>16. ASSUME NEW p \in Procs, NEW w \in Paths, Loop(p, w) PROVE FileIsComplete'
    BY <1>16, <1>c, <1>t DEF Loop
  <1>17. ASSUME NEW p \in Procs, NEW w \in Paths, StoreStatus(p, w) PROVE FileIsComplete'
    BY <1>17, <1>c, <1>t DEF StoreStatus
  <1>18. ASSUME NEW w \in Paths, Edit(w) PROVE FileIsComplete'
    BY <1>18, <1>c DEF Edit
  <1>19. ASSUME NEW p \in Procs, Reopen(p) PROVE FileIsComplete'
    BY <1>19, <1>c DEF Reopen
  <1>20. ASSUME NEW p \in Procs, NEW w \in Paths, NotifyReturns(p, w) PROVE FileIsComplete'
    BY <1>20, <1>c DEF NotifyReturns
  <1>. QED
    BY ONLY <1>0, <1>1, <1>2, <1>3, <1>4, <1>5, <1>6, <1>7, <1>8, <1>9, <1>10,
       <1>11, <1>12, <1>13, <1>14, <1>15, <1>16, <1>17, <1>18, <1>19, <1>20,
       [Next]_vars, Steps

-----------------------------------------------------------------------------
(* The ids: only an open enters one, where there is none. *)
LEMMA IdsKept ==
    ASSUME SidecarInv, [Next]_vars
    PROVE  \A p \in Procs, w \in Paths :
               table[p][w] # 0 /\ table'[p][w] # 0 => table'[p][w] = table[p][w]
  <1>. DEFINE Keeps == \A q \in Procs, v \in Paths :
                           table[q][v] # 0 /\ table'[q][v] # 0 =>
                               table'[q][v] = table[q][v]
  <1>t. /\ table \in [Procs -> [Paths -> 0..MaxIds]]
        /\ \A p \in Procs : LockIsServed(p) /\ TableIsServed(p)
    BY DEF SidecarInv, TypeOK
  <1>c. table' = table => Keeps
    OBVIOUS
  <1>0. UNCHANGED vars => Keeps
    BY <1>c DEF vars, regVars
  <1>1. ASSUME NEW p \in Procs, Launch(p) PROVE Keeps
    BY <1>1, <1>c DEF Launch, Launches, regVars
  <1>2. ASSUME NEW p \in Procs, AppEnds(p) PROVE Keeps
    BY <1>2, <1>c DEF AppEnds, regVars
  <1>3. ASSUME NEW p \in Procs, Terminate(p) PROVE Keeps
    BY <1>3, <1>c DEF Terminate, Cancel, regVars
  <1>4. ASSUME NEW p \in Procs, Crash(p) PROVE Keeps
    BY <1>4, <1>t DEF Crash, End, NoIds
  <1>5. ASSUME NEW p \in Procs, Load(p) PROVE Keeps
    <2>1. \A v \in Paths : table[p][v] = 0
      BY <1>5, <1>t DEF Load, TableIsServed, Serves
    <2>2. \A q \in Procs : q # p => table'[q] = table[q]
      BY <1>5, <1>t DEF Load
    <2>. QED  BY <2>1, <2>2
  <1>6. ASSUME NEW p \in Procs, Watchdog(p) PROVE Keeps
    BY <1>6, <1>c DEF Watchdog, Cancel, regVars
  <1>7. ASSUME NEW p \in Procs, CloseListener(p) PROVE Keeps
    BY <1>7, <1>c DEF CloseListener, regVars
  <1>8. ASSUME NEW p \in Procs, Exit(p) PROVE Keeps
    BY <1>8, <1>t DEF Exit, End, NoIds
  <1>9. ASSUME NEW p \in Procs, OpenEnd(p) PROVE Keeps
    <2>1. PICK w \in Paths : lock[p].path = {w} /\ table[p][w] = 0
      BY <1>9, <1>t DEF OpenEnd, LockIsServed
    <2>2. table' = table \/ table' = [table EXCEPT ![p][w] = lock[p].id]
      BY <1>9, <2>1, OpenEndIs
    <2>. QED  BY <1>t, <2>1, <2>2
  <1>10. ASSUME NEW p \in Procs, Truncate(p) PROVE Keeps
    BY <1>10, <1>c DEF Truncate, regVars
  <1>11. ASSUME NEW p \in Procs, Write(p) PROVE Keeps
    BY <1>11, <1>c DEF Write, regVars
  <1>12. ASSUME NEW p \in Procs, ShutRegistry(p) PROVE Keeps
    BY <1>12, <1>c DEF ShutRegistry, regVars
  <1>13. ASSUME NEW p \in Procs, NEW w \in Paths, OpenBegin(p, w) PROVE Keeps
    BY <1>13, <1>c DEF OpenBegin, regVars
  <1>14. ASSUME NEW p \in Procs, NEW w \in Paths, Close(p, w) PROVE Keeps
    BY <1>14, <1>t DEF Close
  <1>15. ASSUME NEW p \in Procs, NEW w \in Paths, ClosePanics(p, w) PROVE Keeps
    BY <1>15, <1>t DEF ClosePanics, End, NoIds
  <1>16. ASSUME NEW p \in Procs, NEW w \in Paths, Loop(p, w) PROVE Keeps
    BY <1>16, <1>c DEF Loop, regVars
  <1>17. ASSUME NEW p \in Procs, NEW w \in Paths, StoreStatus(p, w) PROVE Keeps
    BY <1>17, <1>c DEF StoreStatus, regVars
  <1>18. ASSUME NEW w \in Paths, Edit(w) PROVE Keeps
    BY <1>18, <1>c DEF Edit
  <1>19. ASSUME NEW p \in Procs, Reopen(p) PROVE Keeps
    BY <1>19, <1>c DEF Reopen
  <1>20. ASSUME NEW p \in Procs, NEW w \in Paths, NotifyReturns(p, w) PROVE Keeps
    BY <1>20, <1>c DEF NotifyReturns
  <1>q. Keeps
    <2>. HIDE DEF Keeps
    <2>. QED
      BY ONLY <1>0, <1>1, <1>2, <1>3, <1>4, <1>5, <1>6, <1>7, <1>8, <1>9, <1>10,
         <1>11, <1>12, <1>13, <1>14, <1>15, <1>16, <1>17, <1>18, <1>19, <1>20,
         [Next]_vars, Steps
  <1>. QED  BY <1>q

(* Only Load takes a process from loading to reopening. *)
LEMMA IdsReopened ==
    ASSUME SidecarInv, [Next]_vars
    PROVE  \A p \in Procs :
               life[p] = "loading" /\ life'[p] = "reopening" =>
                   \A w \in Paths : opened'[w] # 0 => table'[p][w] = opened[w]
  <1>. SUFFICES ASSUME NEW p \in Procs, life[p] = "loading",
                       life'[p] = "reopening"
                PROVE  \A w \in Paths : opened'[w] # 0 => table'[p][w] = opened[w]
    OBVIOUS
  <1>t. /\ life \in [Procs -> {"off", "loading", "reopening", "serving",
                              "stopping", "closing", "gone"}]
        /\ table \in [Procs -> [Paths -> 0..MaxIds]]
    BY DEF SidecarInv, TypeOK
  <1>1. Load(p)
    <2>. DEFINE G == Load(p)
    <2>0. UNCHANGED vars => G
      BY DEF vars, procVars
    <2>1. ASSUME NEW q \in Procs, Launch(q) PROVE G
      BY <2>1, <1>t DEF Launch, Launches, procVars, Serves
    <2>2. ASSUME NEW q \in Procs, AppEnds(q) PROVE G
      BY <2>2, <1>t DEF AppEnds, procVars, Serves
    <2>3. ASSUME NEW q \in Procs, Terminate(q) PROVE G
      BY <2>3, <1>t DEF Terminate, Cancel, procVars, Serves
    <2>4. ASSUME NEW q \in Procs, Crash(q) PROVE G
      BY <2>4, <1>t DEF Crash, End, procVars, Serves
    <2>5. ASSUME NEW q \in Procs, Load(q) PROVE G
      BY <2>5, <1>t DEF Load, procVars, Serves
    <2>6. ASSUME NEW q \in Procs, Watchdog(q) PROVE G
      BY <2>6, <1>t DEF Watchdog, Cancel, procVars, Serves
    <2>7. ASSUME NEW q \in Procs, CloseListener(q) PROVE G
      BY <2>7, <1>t DEF CloseListener, procVars, Serves
    <2>8. ASSUME NEW q \in Procs, Exit(q) PROVE G
      BY <2>8, <1>t DEF Exit, End, procVars, Serves
    <2>9. ASSUME NEW q \in Procs, OpenEnd(q) PROVE G
      BY <2>9, <1>t DEF OpenEnd, StartWatcher, procVars, Serves
    <2>10. ASSUME NEW q \in Procs, Truncate(q) PROVE G
      BY <2>10, <1>t DEF Truncate, procVars, Serves
    <2>11. ASSUME NEW q \in Procs, Write(q) PROVE G
      BY <2>11, <1>t DEF Write, procVars, Serves
    <2>12. ASSUME NEW q \in Procs, ShutRegistry(q) PROVE G
      BY <2>12, <1>t DEF ShutRegistry, procVars, Serves
    <2>13. ASSUME NEW q \in Procs, NEW w \in Paths, OpenBegin(q, w) PROVE G
      BY <2>13, <1>t DEF OpenBegin, procVars, Serves
    <2>14. ASSUME NEW q \in Procs, NEW w \in Paths, Close(q, w) PROVE G
      BY <2>14, <1>t DEF Close, procVars, Serves
    <2>15. ASSUME NEW q \in Procs, NEW w \in Paths, ClosePanics(q, w) PROVE G
      BY <2>15, <1>t DEF ClosePanics, End, procVars, Serves
    <2>16. ASSUME NEW q \in Procs, NEW w \in Paths, Loop(q, w) PROVE G
      BY <2>16, <1>t DEF Loop, procVars, Serves
    <2>17. ASSUME NEW q \in Procs, NEW w \in Paths, StoreStatus(q, w) PROVE G
      BY <2>17, <1>t DEF StoreStatus, procVars, Serves
    <2>18. ASSUME NEW w \in Paths, Edit(w) PROVE G
      BY <2>18 DEF Edit, procVars
    <2>19. ASSUME NEW q \in Procs, Reopen(q) PROVE G
      BY <2>19, <1>t DEF Reopen
    <2>20. ASSUME NEW q \in Procs, NEW w \in Paths, NotifyReturns(q, w) PROVE G
      BY <2>20, <1>t DEF NotifyReturns, procVars
    <2>q. G
      <3>. HIDE DEF G
      <3>. QED
        BY ONLY <2>0, <2>1, <2>2, <2>3, <2>4, <2>5, <2>6, <2>7, <2>8, <2>9,
           <2>10, <2>11, <2>12, <2>13, <2>14, <2>15, <2>16, <2>17, <2>18,
           <2>19, <2>20, [Next]_vars, Steps
    <2>. QED  BY <2>q
  <1>2. \A w \in Paths : opened[w] # 0 => file.whole /\ file.ids[w] = opened[w]
    BY DEF SidecarInv, FileIsComplete
  <1>. QED  BY <1>1, <1>2, <1>t DEF Load

-----------------------------------------------------------------------------
(* Theorems *)

LEMMA SidecarInvariant == Spec => []SidecarInv
  <1>1. Init => SidecarInv
    BY SidecarInit, SidecarAssumption
  <1>2. SidecarInv /\ [Next]_vars => SidecarInv'
    <2>. SUFFICES ASSUME SidecarInv, [Next]_vars PROVE SidecarInv'
      OBVIOUS
    <2>1. TypeOK' /\ OneRuns' /\ Reachable' /\ FileIsComplete'
      BY TypesStay, ProcessesStay, FileStays, SidecarAssumption
    <2>2. \A q \in Procs : ProcessInv(q)'
      BY RegistriesStay, SidecarAssumption
    <2>. QED  BY <2>1, <2>2 DEF SidecarInv, ProcessInv, Watched, WatchedWhileOpen
  <1>. QED  BY <1>1, <1>2, PTL DEF Spec

(* Every variable of the sidecar and its registry stays in its type.        *)
THEOREM SidecarTypes == Spec => []TypeOK
  <1>1. SidecarInv => TypeOK
    BY DEF SidecarInv
  <1>. QED  BY <1>1, SidecarInvariant, PTL

(* The workspaces in the table of a process that serves are the ones it     *)
(* watches (NewRegistry, Open and Close, registry.go:41-142).               *)
THEOREM SidecarWatchesWhatIsOpen == Spec => []WatchedWhileOpen
  <1>1. SidecarInv => WatchedWhileOpen
    BY DEF SidecarInv
  <1>. QED  BY <1>1, SidecarInvariant, PTL

(* The socket leads to the one process that serves (socket.go:27-54).       *)
THEOREM SidecarIsReachable == Spec => []Reachable
  <1>1. SidecarInv => Reachable
    BY DEF SidecarInv
  <1>. QED  BY <1>1, SidecarInvariant, PTL

(* A workspace keeps its id within a process and from one to the next, for  *)
(* any number of restarts and crashes (registry.go:41-110 and :164-194).    *)
THEOREM SidecarIdsAreStable == Spec => IdsAreStable
  <1>. DEFINE Keeps == \A p \in Procs, w \in Paths :
                           table[p][w] # 0 /\ table'[p][w] # 0 =>
                               table'[p][w] = table[p][w]
              Reopens == \A p \in Procs :
                             life[p] = "loading" /\ life'[p] = "reopening" =>
                                 \A w \in Paths :
                                     opened'[w] # 0 => table'[p][w] = opened[w]
  <1>1. SidecarInv /\ [Next]_vars => [Keeps]_vars
    <2>. SUFFICES ASSUME SidecarInv, [Next]_vars PROVE [Keeps]_vars
      OBVIOUS
    <2>. QED  BY IdsKept DEF vars
  <1>2. SidecarInv /\ [Next]_vars => [Reopens]_vars
    <2>. SUFFICES ASSUME SidecarInv, [Next]_vars PROVE [Reopens]_vars
      OBVIOUS
    <2>. QED  BY IdsReopened DEF vars
  <1>3. Spec => OpenKeepsId
    BY <1>1, SidecarInvariant, PTL DEF Spec, OpenKeepsId
  <1>4. Spec => ReopensUnderItsId
    BY <1>2, SidecarInvariant, PTL DEF Spec, ReopensUnderItsId
  <1>. QED  BY <1>3, <1>4 DEF IdsAreStable
=============================================================================
