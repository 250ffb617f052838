--------------------------- MODULE BrowserSessions --------------------------
(***************************************************************************)
(* Browser sessions (internal/browsersession, browser_methods.go): the     *)
(* screenshot store, a bounded ring of shots per session whose images are  *)
(* files, and the manager, one browser process per session.  They meet in  *)
(* browserSession.close, which clears the shots and stops the browser.     *)
(*                                                                         *)
(* Rings and tables change under a lock; files are written, removed and    *)
(* read outside of it.  A write may fail: it leaves a part of the file, or *)
(* nothing when the directory is gone.  RemoveAll is one step.  Adding a   *)
(* shot is what OnScreenshot does; nothing in the sidecar calls            *)
(* EnsureRunning yet, so the manager is modelled from its interface.       *)
(***************************************************************************)
EXTENDS Naturals, Sequences, FiniteSets, SequencesExt

CONSTANTS
    Sessions,
    Shots,      \* captures, each by a goroutine of its own
    ShotOf,     \* the session of each
    Readers,    \* browserSession.latestShot requests, for any session
    Closers,    \* browserSession.close requests, for any session, and StopAll
    Browsers,   \* browser processes that may be launched
    RingSize,   \* maxShotsPerSession
    MaxFails,   \* bound on failing writes
    None        \* no shot, no session, no browser

ASSUME BrowserAssumption ==
    /\ ShotOf \in [Shots -> Sessions]
    /\ RingSize \in Nat \ {0}
    /\ MaxFails \in Nat
    /\ None \notin Shots \cup Sessions \cup Browsers

VARIABLES
    shots,      \* ScreenshotStore.shots
    dirs,       \* sessions with a directory
    full,       \* shots with a full image on disk
    thumb,      \* shots with a thumbnail on disk
    add,        \* where the goroutine of each shot is
    fails,      \* writes that failed
    read,       \* where each reader is, and what for: [pc, session, shot]
    close,      \* closers: [pc, session, held, next], next the browser they end
    instances,  \* Manager.instances
    browser,    \* processes: "off", "live", "stopping", "dead" or "reaped"
    disturbed,  \* shots whose Add overlapped a clear (history)
    moved       \* readers whose shot was evicted or cleared since (history)

storeVars == <<shots, dirs, full, thumb, add, fails, disturbed, moved>>
managerVars == <<instances, browser>>
vars == <<storeVars, read, close, managerVars>>

Init ==
    /\ shots = [s \in Sessions |-> <<>>]
    /\ dirs = {}
    /\ full = {}
    /\ thumb = {}
    /\ add = [x \in Shots |-> "idle"]
    /\ fails = 0
    /\ read = [r \in Readers |-> [pc |-> "idle", session |-> None,
                                  shot |-> None]]
    /\ close = [c \in Closers |-> [pc |-> "idle", session |-> None,
                                   held |-> {}, next |-> None]]
    /\ instances = [s \in Sessions |-> None]
    /\ browser = [b \in Browsers |-> "off"]
    /\ disturbed = {}
    /\ moved = {}

(* Readers hold shots by name while these leave their ring. *)
Leave(gone) == moved' = moved \cup {r \in Readers : read[r].shot \in gone}

-----------------------------------------------------------------------------
(* ScreenshotStore.Add *)

Clearing(s) == \E c \in Closers : close[c].session = s /\ close[c].pc = "clear"

MakeDir(x) ==
    /\ add[x] = "idle"
    /\ dirs' = dirs \cup {ShotOf[x]}
    /\ add' = [add EXCEPT ![x] = "full"]
    /\ disturbed' = IF Clearing(ShotOf[x]) THEN disturbed \cup {x}
                                           ELSE disturbed
    /\ UNCHANGED <<shots, full, thumb, fails, moved, read, close, managerVars>>

(* The outcomes of os.WriteFile of a shot's file. *)
Write(x, files) == ShotOf[x] \in dirs /\ files' = files \cup {x} /\
                   UNCHANGED fails
WriteFails(x, files) ==
    \/ ShotOf[x] \notin dirs /\ UNCHANGED <<files, fails>>
    \/ /\ ShotOf[x] \in dirs
       /\ fails < MaxFails
       /\ fails' = fails + 1
       /\ files' \in {files, files \cup {x}}

WriteFull(x) ==
    /\ add[x] = "full"
    /\ \/ Write(x, full) /\ add' = [add EXCEPT ![x] = "thumb"]
       \/ WriteFails(x, full) /\ add' = [add EXCEPT ![x] = "failed"]
    /\ UNCHANGED <<shots, dirs, thumb, disturbed, moved, read, close,
                   managerVars>>

(* When the thumbnail fails, the full image is removed. *)
WriteThumb(x) ==
    /\ add[x] = "thumb"
    /\ \/ /\ Write(x, thumb)
          /\ add' = [add EXCEPT ![x] = "insert"]
          /\ UNCHANGED full
       \/ /\ WriteFails(x, thumb)
          /\ add' = [add EXCEPT ![x] = "failed"]
          /\ full' = full \ {x}
    /\ UNCHANGED <<shots, dirs, disturbed, moved, read, close, managerVars>>

(* Mutants of Insert: the ring is cut one shot late; the files removed are *)
(* those of the shot that came.                                            *)
InsertLate(x) ==
    /\ add[x] = "insert"
    /\ LET ring == Append(shots[ShotOf[x]], x)
           evicted == IF Len(ring) > RingSize + 1 THEN {Head(ring)} ELSE {}
       IN /\ shots' = [shots EXCEPT ![ShotOf[x]] =
                          IF evicted = {} THEN ring ELSE Tail(ring)]
          /\ full' = full \ evicted
          /\ thumb' = thumb \ evicted
          /\ Leave(evicted)
    /\ add' = [add EXCEPT ![x] = "done"]
    /\ UNCHANGED <<dirs, fails, disturbed, read, close, managerVars>>

InsertWrong(x) ==
    /\ add[x] = "insert"
    /\ LET ring == Append(shots[ShotOf[x]], x)
           evicted == IF Len(ring) > RingSize THEN {x} ELSE {}
       IN /\ shots' = [shots EXCEPT ![ShotOf[x]] =
                          IF evicted = {} THEN ring ELSE Tail(ring)]
          /\ full' = full \ evicted
          /\ thumb' = thumb \ evicted
          /\ Leave(evicted)
    /\ add' = [add EXCEPT ![x] = "done"]
    /\ UNCHANGED <<dirs, fails, disturbed, read, close, managerVars>>

(* Under the lock: the ring, and the files of what it evicts. *)
Insert(x) ==
    /\ add[x] = "insert"
    /\ LET ring == Append(shots[ShotOf[x]], x)
           evicted == IF Len(ring) > RingSize THEN {Head(ring)} ELSE {}
       IN /\ shots' = [shots EXCEPT ![ShotOf[x]] =
                          IF evicted = {} THEN ring ELSE Tail(ring)]
          /\ full' = full \ evicted
          /\ thumb' = thumb \ evicted
          /\ Leave(evicted)
    /\ add' = [add EXCEPT ![x] = "done"]
    /\ UNCHANGED <<dirs, fails, disturbed, read, close, managerVars>>

-----------------------------------------------------------------------------
(* browserSession.latestShot *)

(* Latest names the newest shot; ReadFull looks its path up again. *)
Latest(r, s) ==
    /\ read[r].pc = "idle"
    /\ read' = [read EXCEPT ![r] = IF shots[s] = <<>>
                   THEN [@ EXCEPT !.pc = "none"]
                   ELSE [pc |-> "find", session |-> s, shot |-> Last(shots[s])]]
    /\ UNCHANGED <<storeVars, close, managerVars>>

ReadFull(r) ==
    /\ read[r].pc = "find"
    /\ read' = [read EXCEPT ![r].pc =
          IF read[r].shot \in ToSet(shots[read[r].session]) THEN "read"
          ELSE "error"]
    /\ UNCHANGED <<storeVars, close, managerVars>>

ReadFile(r) ==
    /\ read[r].pc = "read"
    /\ read' = [read EXCEPT ![r].pc = IF read[r].shot \in full THEN "image"
                                                               ELSE "error"]
    /\ UNCHANGED <<storeVars, close, managerVars>>

-----------------------------------------------------------------------------
(* browserSession.close: Clear, then Stop *)

InFlight(s) == {x \in Shots : ShotOf[x] = s /\ add[x] \in {"full", "thumb",
                                                           "insert"}}

TakeRing(c, s) ==
    /\ close[c].pc = "idle"
    /\ shots' = [shots EXCEPT ![s] = <<>>]
    /\ Leave(ToSet(shots[s]))
    /\ disturbed' = disturbed \cup InFlight(s)
    /\ close' = [close EXCEPT ![c].pc = "clear", ![c].session = s]
    /\ UNCHANGED <<dirs, full, thumb, add, fails, read, managerVars>>

(* The files of the ring, and with RemoveAll whatever else there is. *)
RemoveDir(c) ==
    /\ close[c].pc = "clear"
    /\ LET s == close[c].session
           here == {x \in Shots : ShotOf[x] = s}
       IN /\ dirs' = dirs \ {s}
          /\ full' = full \ here
          /\ thumb' = thumb \ here
    /\ close' = [close EXCEPT ![c].pc = "stop"]
    /\ UNCHANGED <<shots, add, fails, disturbed, moved, read, managerVars>>

(* Manager.Stop takes the instance under the lock ... *)
TakeInstance(c) ==
    /\ close[c].pc = "stop"
    /\ LET s == close[c].session IN
         /\ close' = [close EXCEPT ![c].held = {instances[s]} \ {None},
                                   ![c].pc = "signal"]
         /\ instances' = [instances EXCEPT ![s] = None]
    /\ UNCHANGED <<storeVars, read, browser>>

(* ... and StopAll, at shutdown, all of them. *)
StopAll(c) ==
    /\ close[c].pc = "idle"
    /\ close' = [close EXCEPT ![c].pc = "signal",
                    ![c].held = {instances[s] : s \in Sessions} \ {None}]
    /\ instances' = [s \in Sessions |-> None]
    /\ UNCHANGED <<storeVars, read, browser>>

(* Mutant of Signal: the browser is waited for, but not told to end. *)
SignalNone(c) ==
    /\ close[c].pc = "signal"
    /\ \E b \in close[c].held :
           close' = [close EXCEPT ![c].pc = "wait", ![c].next = b]
    /\ UNCHANGED <<storeVars, read, managerVars>>

(* They are ended one after the other. *)
Signal(c) ==
    /\ close[c].pc = "signal"
    /\ \E b \in close[c].held :
         /\ browser' = [browser EXCEPT ![b] = IF @ = "live" THEN "stopping"
                                                           ELSE @]
         /\ close' = [close EXCEPT ![c].pc = "wait", ![c].next = b]
    /\ UNCHANGED <<storeVars, read, instances>>

Wait(c) ==
    /\ close[c].pc = "wait"
    /\ LET b == close[c].next IN
         /\ browser[b] \in {"dead", "reaped"}
         /\ browser' = [browser EXCEPT ![b] = "reaped"]
         /\ close' = [close EXCEPT ![c].pc = "signal", ![c].held = @ \ {b},
                                   ![c].next = None]
    /\ UNCHANGED <<storeVars, read, instances>>

CloseReturn(c) ==
    /\ close[c].pc = "signal"
    /\ close[c].held = {}
    /\ close' = [close EXCEPT ![c].pc = "done"]
    /\ UNCHANGED <<storeVars, read, managerVars>>

-----------------------------------------------------------------------------
(* Browser processes *)

(* Mutant of EnsureRunning: whatever the table holds is started anew. *)
LaunchAlways(s, b) ==
    /\ browser[b] = "off"
    /\ instances' = [instances EXCEPT ![s] = b]
    /\ browser' = [browser EXCEPT ![b] = "live"]
    /\ UNCHANGED <<storeVars, read, close>>

(* ProcessState is set by Wait only: a browser that died by itself counts   *)
(* as running.                                                              *)
EnsureRunning(s, b) ==
    /\ browser[b] = "off"
    /\ instances[s] \in {None} \cup {e \in Browsers : browser[e] = "reaped"}
    /\ instances' = [instances EXCEPT ![s] = b]
    /\ browser' = [browser EXCEPT ![b] = "live"]
    /\ UNCHANGED <<storeVars, read, close>>

(* It heeds the signal. *)
Ends(b) ==
    /\ browser[b] = "stopping"
    /\ browser' = [browser EXCEPT ![b] = "dead"]
    /\ UNCHANGED <<storeVars, read, close, instances>>

(* It crashes, or the user quits it. *)
Dies(b) ==
    /\ browser[b] = "live"
    /\ browser' = [browser EXCEPT ![b] = "dead"]
    /\ UNCHANGED <<storeVars, read, close, instances>>

-----------------------------------------------------------------------------
AddStep(x) == MakeDir(x) \/ WriteFull(x) \/ WriteThumb(x) \/ Insert(x)
ReadStep(r) == ReadFull(r) \/ ReadFile(r)
CloseStep(c) == RemoveDir(c) \/ TakeInstance(c) \/ Signal(c) \/ Wait(c)
                \/ CloseReturn(c)

Next ==
    \/ \E x \in Shots : AddStep(x)
    \/ \E r \in Readers : ReadStep(r) \/ \E s \in Sessions : Latest(r, s)
    \/ \E c \in Closers : \/ CloseStep(c) \/ StopAll(c)
                          \/ \E s \in Sessions : TakeRing(c, s)
    \/ \E b \in Browsers : \/ Ends(b) \/ Dies(b)
                           \/ \E s \in Sessions : EnsureRunning(s, b)

Spec == Init /\ [][Next]_vars

(* Requests that can run do, and a browser ends when it is told to. *)
FairSpec ==
    /\ Spec
    /\ \A c \in Closers : WF_vars(CloseStep(c))
    /\ \A b \in Browsers : WF_vars(Ends(b))

-----------------------------------------------------------------------------
(* Properties *)

TypeOK ==
    /\ shots \in [Sessions -> Seq(Shots)]
    /\ \A s \in Sessions : Len(shots[s]) <= RingSize
    /\ dirs \subseteq Sessions
    /\ full \subseteq Shots
    /\ thumb \subseteq Shots
    /\ add \in [Shots -> {"idle", "full", "thumb", "insert", "done", "failed"}]
    /\ fails \in 0..MaxFails
    /\ read \in [Readers -> [pc : {"idle", "none", "find", "read", "image",
                                   "error"},
                             session : Sessions \cup {None},
                             shot : Shots \cup {None}]]
    /\ close \in [Closers -> [pc : {"idle", "clear", "stop", "signal", "wait",
                                    "done"},
                              session : Sessions \cup {None},
                              held : SUBSET Browsers,
                              next : Browsers \cup {None}]]
    /\ instances \in [Sessions -> Browsers \cup {None}]
    /\ browser \in [Browsers -> {"off", "live", "stopping", "dead", "reaped"}]
    /\ disturbed \subseteq Shots
    /\ moved \subseteq Readers

InRing(x) == x \in ToSet(shots[ShotOf[x]])

Kept(x) == InRing(x) \/ x \in InFlight(ShotOf[x]) \/ Clearing(ShotOf[x])

Strays(files) == {x \in files : ~Kept(x)}

(* Page content does not pile up on disk (screenshot_store.go:18, :85):     *)
(* every image belongs to a shot in a ring, to one being added or to one    *)
(* being cleared; each write that failed leaves at most one file.           *)
DiskIsBounded == Cardinality(Strays(full)) + Cardinality(Strays(thumb)) <= fails

(* A shot in a ring can be shown: both its files are there, unless a close  *)
(* of its session ran while it was added (Clear removes the directory       *)
(* outside the lock, screenshot_store.go:158).                              *)
RingHasFiles ==
    \A x \in Shots : InRing(x) /\ x \notin disturbed => x \in full \cap thumb

(* browserSession.latestShot fails only for a shot that left its ring, or   *)
(* whose session was closed, after Latest named it (browser_methods.go:42,  *)
(* :46).                                                                    *)
ReadsFailForCause ==
    \A r \in Readers :
        read[r].pc = "error" => r \in moved \/ read[r].shot \in disturbed

(* Rings and files agree: nothing stays on disk that no ring has, and a    *)
(* shot the app is told of can be shown, or was closed or pushed out.       *)
FilesMatchRings == DiskIsBounded /\ RingHasFiles /\ ReadsFailForCause

(* No browser escapes: while one runs it is in the table or in the hands of *)
(* a request that will end it (Stop takes it from the table before the      *)
(* signal, manager.go:108-112); no two sessions or requests hold the same.  *)
BrowsersAreHeld ==
    \A b \in Browsers : browser[b] \in {"live", "stopping"} =>
        Cardinality({s \in Sessions : instances[s] = b}) +
        Cardinality({c \in Closers : b \in close[c].held}) = 1

(* browserSession.close and StopAll return, whatever other requests do to   *)
(* the same browsers and however these end (stop waits without a deadline,  *)
(* manager.go:129-135).                                                     *)
CloseReturns == []<>(\A c \in Closers : close[c].pc \in {"idle", "done"})
=============================================================================
