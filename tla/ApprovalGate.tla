---------------------------- MODULE ApprovalGate ----------------------------
(***************************************************************************)
(* The approval gate of the sidecar, and the two parties that meet in it:  *)
(* the `command_run` tool calls of agents (internal/mcp/native_command.go) *)
(* and the human who answers them from the app (internal/approval, the     *)
(* approval.* methods, app/Vmux/Activity/ActivityModel.swift).             *)
(*                                                                         *)
(* Every tool call runs in a goroutine of its own (`pc`), and so does      *)
(* every approval.decide request (`dpc`).  They share the queue of pending *)
(* items (`items`, under Queue.mu), the capacity-one verdict channel of    *)
(* each item (`decision`), the modes (`modes`, under Gate.mu) and the      *)
(* outbound queue of the client connection (`wire`, SendBuffer lines).     *)
(* Queue.notify runs outside Queue.mu in three steps: take a List, wait    *)
(* for room on the connection, queue the snapshot.                         *)
(*                                                                         *)
(* An item is identified with the call that waits on it.                   *)
(***************************************************************************)
EXTENDS Naturals, Sequences, FiniteSets

CONSTANTS
    Calls,            \* command_run calls, one goroutine each
    Deciders,         \* approval.decide requests, one goroutine each
    Workspaces,       \* ids of the open workspaces
    Commands,         \* command lines agents ask for
    Dangerous,        \* the command lines a rule of the rule set matches
    Allowlist,        \* the command lines whose program is allowlisted
    NoCall,           \* the item of a decide request not sent yet
    SendBuffer,       \* capacity of a connection's outbound queue
    MaxModeChanges    \* bound on the number of approval.setMode requests

ASSUME GateAssumption ==
    /\ Dangerous \subseteq Commands
    /\ Allowlist \subseteq Commands
    /\ NoCall \notin Calls
    /\ Calls \cap Deciders = {}
    /\ SendBuffer \in Nat \ {0}
    /\ MaxModeChanges \in Nat

VARIABLES
    modes,      \* Gate.modes; "unset" is an absent key
    changes,    \* number of approval.setMode requests so far
    pc,         \* where each command_run goroutine is
    req,        \* the workspace and command line of each call
    evalMode,   \* the mode Gate.Evaluate saw for a call (history)
    lastMode,   \* the mode runCommand read after the gate (history)
    expired,    \* calls whose gateCtx is done
    orphaned,   \* running calls whose child left the output pipe open
    items,      \* Queue.items
    decision,   \* the verdict channel of each item, capacity 1
    dpc,        \* where each approval.decide goroutine is
    dItem,      \* the item a decide request names
    dAllow,     \* the verdict it carries
    snap,       \* the List snapshot each goroutine is about to send
    wire,       \* snapshots queued on the client connection
    link,       \* state of the client connection
    ui          \* ActivityModel.pending

gateVars == <<modes, changes, req, evalMode, lastMode>>
queueVars == <<items, decision>>
runVars == <<expired, orphaned>>
decideVars == <<dpc, dItem, dAllow>>
clientVars == <<snap, wire, link, ui>>
vars == <<gateVars, pc, runVars, queueVars, decideVars, clientVars>>

Modes == {"watch", "gate", "sandbox"}
DefaultMode == "watch"
Actors == Calls \cup Deciders

CallStates == {"idle", "evaluate", "add", "addList", "addSend", "wait",
               "rmList", "rmSend", "recheck", "running", "draining",
               "finished", "refused"}
DeciderStates == {"idle", "send", "list", "sendNote", "done", "unknown"}

NoRequest == [ws |-> "none", cmd |-> "none"]

Init ==
    /\ modes = [w \in Workspaces |-> "unset"]
    /\ changes = 0
    /\ pc = [c \in Calls |-> "idle"]
    /\ req = [c \in Calls |-> NoRequest]
    /\ evalMode = [c \in Calls |-> "unset"]
    /\ lastMode = [c \in Calls |-> "unset"]
    /\ expired = {}
    /\ orphaned = {}
    /\ items = {}
    /\ decision = [c \in Calls |-> <<>>]
    /\ dpc = [d \in Deciders |-> "idle"]
    /\ dItem = [d \in Deciders |-> NoCall]
    /\ dAllow = [d \in Deciders |-> FALSE]
    /\ snap = [a \in Actors |-> {}]
    /\ wire = <<>>
    /\ link = "none"
    /\ ui = {}

Goto(c, here, there) == pc[c] = here /\ pc' = [pc EXCEPT ![c] = there]
DGoto(d, here, there) == dpc[d] = here /\ dpc' = [dpc EXCEPT ![d] = there]

(* Gate.Mode *)
Mode(w) == IF modes[w] = "unset" THEN DefaultMode ELSE modes[w]

-----------------------------------------------------------------------------
(* Queue.notify: the onChange callback lists the queue, then Notify queues  *)
(* the line on the connection.  The send blocks while the queue is full and *)
(* is abandoned when the connection is not (or no longer) there.            *)

TakeSnapshot(a) == snap' = [snap EXCEPT ![a] = items]

(* Mutant of SendSnapshot: the send does not wait for room. *)
SendWithoutRoom(a) ==
    /\ snap' = [snap EXCEPT ![a] = {}]
    /\ wire' = IF link = "open" THEN Append(wire, snap[a]) ELSE wire

SendSnapshot(a) ==
    /\ snap' = [snap EXCEPT ![a] = {}]
    /\ \/ /\ link = "open"
          /\ Len(wire) < SendBuffer
          /\ wire' = Append(wire, snap[a])
       \/ /\ link # "open"
          /\ UNCHANGED wire

-----------------------------------------------------------------------------
(* runCommand *)

Begin(c) ==
    /\ Goto(c, "idle", "evaluate")
    /\ \E w \in Workspaces, cmd \in Commands :
          req' = [req EXCEPT ![c] = [ws |-> w, cmd |-> cmd]]
    /\ UNCHANGED <<modes, changes, evalMode, lastMode, runVars, queueVars,
                   decideVars, clientVars>>

(* Bad arguments, or a workspace the registry does not know. *)
RejectRequest(c) ==
    /\ Goto(c, "idle", "refused")
    /\ UNCHANGED <<gateVars, runVars, queueVars, decideVars, clientVars>>

(* Mutant of Verdict: sandbox mode is treated like watch mode. *)
VerdictWithoutSandbox(m, cmd) ==
    IF m = "gate" /\ cmd \in Dangerous THEN "add" ELSE "recheck"

(* Gate.Evaluate, and the branch Gate.Check takes on its decision. *)
Verdict(m, cmd) ==
    CASE m = "sandbox" -> "refused"
      [] m = "gate" /\ cmd \in Dangerous -> "add"
      [] OTHER -> "recheck"

Evaluate(c) ==
    LET m == Mode(req[c].ws) IN
    /\ Goto(c, "evaluate", Verdict(m, req[c].cmd))
    /\ evalMode' = [evalMode EXCEPT ![c] = m]
    /\ UNCHANGED <<modes, changes, req, lastMode, runVars, queueVars,
                   decideVars, clientVars>>

AddItem(c) ==
    /\ Goto(c, "add", "addList")
    /\ items' = items \cup {c}
    /\ UNCHANGED <<gateVars, runVars, decision, decideVars, clientVars>>

AddList(c) ==
    /\ Goto(c, "addList", "addSend")
    /\ TakeSnapshot(c)
    /\ UNCHANGED <<gateVars, runVars, queueVars, decideVars, wire, link, ui>>

AddSend(c) ==
    /\ Goto(c, "addSend", "wait")
    /\ SendSnapshot(c)
    /\ UNCHANGED <<gateVars, runVars, queueVars, decideVars, link, ui>>

(* The select of Gate.Check.  Both cases may be ready; Go picks either. *)
TakeDecision(c) ==
    /\ decision[c] # <<>>
    /\ Goto(c, "wait", IF Head(decision[c]) THEN "recheck" ELSE "refused")
    /\ decision' = [decision EXCEPT ![c] = Tail(@)]
    /\ UNCHANGED <<gateVars, runVars, items, decideVars, clientVars>>

(* Mutant of CtxDone: the select has no case for the context. *)
CtxUnheeded(c) == FALSE /\ UNCHANGED vars

(* Selecting ctx.Done changes nothing shared before Queue.remove does. *)
CtxDone(c) ==
    /\ c \in expired
    /\ Goto(c, "wait", "rmList")
    /\ items' = items \ {c}
    /\ UNCHANGED <<gateVars, runVars, decision, decideVars, clientVars>>

RemoveList(c) ==
    /\ Goto(c, "rmList", "rmSend")
    /\ TakeSnapshot(c)
    /\ UNCHANGED <<gateVars, runVars, queueVars, decideVars, wire, link, ui>>

RemoveSend(c) ==
    /\ Goto(c, "rmSend", "refused")
    /\ SendSnapshot(c)
    /\ UNCHANGED <<gateVars, runVars, queueVars, decideVars, link, ui>>

(* The second reading of the mode, after the gate let the call through. *)
Recheck(c) ==
    LET m == Mode(req[c].ws) IN
    /\ Goto(c, "recheck",
            IF m = "watch" /\ req[c].cmd \notin Allowlist
              THEN "refused" ELSE "running")
    /\ lastMode' = [lastMode EXCEPT ![c] = m]
    /\ UNCHANGED <<modes, changes, req, evalMode, runVars, queueVars,
                   decideVars, clientVars>>

(* The child exits, or runCtx kills it at commandRunTimeout.  The command   *)
(* may have left a child of its own that still holds the output pipe.       *)
ChildEnds(c) ==
    /\ Goto(c, "running", "draining")
    /\ \/ UNCHANGED orphaned
       \/ orphaned' = orphaned \cup {c}
    /\ UNCHANGED <<gateVars, expired, queueVars, decideVars, clientVars>>

OrphanEnds(c) ==
    /\ c \in orphaned
    /\ orphaned' = orphaned \ {c}
    /\ UNCHANGED <<gateVars, pc, expired, queueVars, decideVars, clientVars>>

(* CombinedOutput returns when the child ended and the pipe is closed. *)
Finish(c) ==
    /\ c \notin orphaned
    /\ Goto(c, "draining", "finished")
    /\ UNCHANGED <<gateVars, runVars, queueVars, decideVars, clientVars>>

(* gateCtx: the approvalTimeout fires, or the sidecar shuts down. *)
Expire(c) ==
    /\ pc[c] \in {"addList", "addSend", "wait"}
    /\ c \notin expired
    /\ expired' = expired \cup {c}
    /\ UNCHANGED <<gateVars, pc, orphaned, queueVars, decideVars, clientVars>>

-----------------------------------------------------------------------------
(* approval.decide and approval.setMode *)

(* Mutant of Decide: the item is looked up, not taken out. *)
DecideKeepsItem(d) ==
    /\ link = "open"
    /\ \E c \in ui, v \in BOOLEAN :
          /\ DGoto(d, "idle", IF c \in items THEN "send" ELSE "unknown")
          /\ dItem' = [dItem EXCEPT ![d] = c]
          /\ dAllow' = [dAllow EXCEPT ![d] = v]
    /\ UNCHANGED <<gateVars, pc, runVars, queueVars, clientVars>>

(* The human answers an item the app shows. *)
Decide(d) ==
    /\ link = "open"
    /\ \E c \in ui, v \in BOOLEAN :
          /\ DGoto(d, "idle", IF c \in items THEN "send" ELSE "unknown")
          /\ dItem' = [dItem EXCEPT ![d] = c]
          /\ dAllow' = [dAllow EXCEPT ![d] = v]
          /\ items' = items \ {c}
    /\ UNCHANGED <<gateVars, pc, runVars, decision, clientVars>>

SendDecision(d) ==
    /\ DGoto(d, "send", "list")
    /\ Len(decision[dItem[d]]) < 1
    /\ decision' = [decision EXCEPT ![dItem[d]] = Append(@, dAllow[d])]
    /\ UNCHANGED <<gateVars, pc, runVars, items, dItem, dAllow, clientVars>>

DecideList(d) ==
    /\ DGoto(d, "list", "sendNote")
    /\ TakeSnapshot(d)
    /\ UNCHANGED <<gateVars, pc, runVars, queueVars, dItem, dAllow, wire, link, ui>>

DecideSend(d) ==
    /\ DGoto(d, "sendNote", "done")
    /\ SendSnapshot(d)
    /\ UNCHANGED <<gateVars, pc, runVars, queueVars, dItem, dAllow, link, ui>>

SetMode(w, m) ==
    /\ changes < MaxModeChanges
    /\ changes' = changes + 1
    /\ modes' = [modes EXCEPT ![w] = m]
    /\ UNCHANGED <<req, evalMode, lastMode, pc, runVars, queueVars,
                   decideVars, clientVars>>

-----------------------------------------------------------------------------
(* The client: writeLoop and the app's reader, taken together. *)

Connect ==
    /\ link = "none"
    /\ link' = "open"
    /\ UNCHANGED <<gateVars, pc, runVars, queueVars, decideVars, snap, wire, ui>>

Drain ==
    /\ link = "open"
    /\ wire # <<>>
    /\ ui' = Head(wire)
    /\ wire' = Tail(wire)
    /\ UNCHANGED <<gateVars, pc, runVars, queueVars, decideVars, snap, link>>

Disconnect ==
    /\ link = "open"
    /\ link' = "closed"
    /\ wire' = <<>>
    /\ UNCHANGED <<gateVars, pc, runVars, queueVars, decideVars, snap, ui>>

-----------------------------------------------------------------------------

(* What the goroutine of a call does on its own, once it has begun. *)
CallStep(c) ==
    \/ Evaluate(c) \/ AddItem(c) \/ AddList(c) \/ AddSend(c)
    \/ TakeDecision(c) \/ CtxDone(c) \/ RemoveList(c) \/ RemoveSend(c)
    \/ Recheck(c) \/ ChildEnds(c) \/ Finish(c)

DeciderStep(d) == SendDecision(d) \/ DecideList(d) \/ DecideSend(d)

Next ==
    \/ \E c \in Calls : \/ Begin(c) \/ RejectRequest(c) \/ CallStep(c)
                        \/ Expire(c) \/ OrphanEnds(c)
    \/ \E d \in Deciders : Decide(d) \/ DeciderStep(d)
    \/ \E w \in Workspaces, m \in Modes : SetMode(w, m)
    \/ Connect \/ Drain \/ Disconnect

Spec == Init /\ [][Next]_vars

(* Goroutines that can run do run.  Nothing is assumed of the agents, the   *)
(* human and the clock; a client that keeps reading is an assumption of its *)
(* own.                                                                     *)
GoroutineFairness ==
    /\ \A c \in Calls : WF_vars(CallStep(c))
    /\ \A d \in Deciders : WF_vars(DeciderStep(d))

ClientFairness == WF_vars(Drain)

FairSpec == Spec /\ GoroutineFairness /\ ClientFairness

-----------------------------------------------------------------------------
(* Properties *)

TypeOK ==
    /\ modes \in [Workspaces -> Modes \cup {"unset"}]
    /\ changes \in 0..MaxModeChanges
    /\ pc \in [Calls -> CallStates]
    /\ req \in [Calls -> [ws : Workspaces \cup {"none"},
                         cmd : Commands \cup {"none"}]]
    /\ \A c \in Calls : pc[c] \notin {"idle", "refused"} =>
                           req[c].ws \in Workspaces
    /\ evalMode \in [Calls -> Modes \cup {"unset"}]
    /\ lastMode \in [Calls -> Modes \cup {"unset"}]
    /\ expired \subseteq Calls
    /\ orphaned \subseteq Calls
    /\ items \subseteq Calls
    /\ decision \in [Calls -> Seq(BOOLEAN)]
    /\ dpc \in [Deciders -> DeciderStates]
    /\ dItem \in [Deciders -> Calls \cup {NoCall}]
    /\ \A d \in Deciders : dpc[d] # "idle" => dItem[d] \in Calls
    /\ dAllow \in [Deciders -> BOOLEAN]
    /\ snap \in [Actors -> SUBSET Calls]
    /\ wire \in Seq(SUBSET Calls)
    /\ Len(wire) <= SendBuffer
    /\ link \in {"none", "open", "closed"}
    /\ ui \subseteq Calls

(* Decide removed the item from the queue: its request succeeded. *)
Took(d) == dpc[d] \in {"send", "list", "sendNote", "done"}

(* The goroutine of the call is inside Queue.Add or blocked in the select. *)
Waiting(c) == pc[c] \in {"addList", "addSend", "wait"}

Running(c) == pc[c] \in {"running", "draining", "finished"}

ApprovedBy(d, c) == Took(d) /\ dItem[d] = c /\ dAllow[d]

(* A waiting call can always still be answered: its item is in the queue,   *)
(* or a decide request holds it and is about to send, or the verdict lies   *)
(* in the channel (Queue.Decide deletes before it sends, outside the lock). *)
WaiterCovered ==
    \A c \in Calls : Waiting(c) =>
        \/ c \in items
        \/ \E d \in Deciders : dpc[d] = "send" /\ dItem[d] = c
        \/ decision[c] # <<>>

(* Each item is settled by one decide request at most, so the send on its   *)
(* capacity-one channel never blocks the request's goroutine.               *)
OneVerdict ==
    /\ \A d, e \in Deciders :
          Took(d) /\ Took(e) /\ dItem[d] = dItem[e] => d = e
    /\ \A d \in Deciders : dpc[d] = "send" => decision[dItem[d]] = <<>>

(* The queue holds no item nobody waits for: every path out of Gate.Check   *)
(* takes the item with it.                                                  *)
QueueIsWaiting == \A c \in items : Waiting(c)

(* runCommand reads the mode twice, in Gate.Check and after it, and a       *)
(* command that runs obeyed each reading as far as the code tests it        *)
(* (native_command.go:50-61): the first was not sandbox, and if it was gate *)
(* a human approved what the rules call dangerous; if the second was watch, *)
(* the command is on the allowlist.  This is less than "obeyed the mode":   *)
(* after a first reading of watch and a second one of gate or sandbox any   *)
(* command runs, and nobody approved it; and sandbox stops nothing when     *)
(* only the second reading finds it.                                        *)
ModesObeyed ==
    \A c \in Calls : Running(c) =>
        /\ evalMode[c] # "sandbox"
        /\ evalMode[c] = "gate" /\ req[c].cmd \in Dangerous =>
                \E d \in Deciders : ApprovedBy(d, c)
        /\ lastMode[c] = "watch" => req[c].cmd \in Allowlist

(* native_command.go:13-16, approvalTimeout "bounds how long a gated        *)
(* command waits for a human decision": whatever the human does, and        *)
(* wherever in the gate the deadline finds it, the call is answered.        *)
GateAnswers ==
    \A c \in Calls :
        (Waiting(c) /\ c \in expired) ~> (pc[c] \in {"recheck", "refused"})

(* A decide request that succeeded ends the wait of its call, without the   *)
(* help of the timer: the verdict is never lost between Queue.Decide's      *)
(* delete and the select of Gate.Check.                                     *)
VerdictSettles ==
    \A d \in Deciders, c \in Calls :
        (Took(d) /\ dItem[d] = c) ~> ~Waiting(c)

(* The queue and those who wait agree: nobody waits for a verdict that can  *)
(* no longer come, no item is settled twice, and no item is left behind     *)
(* (Queue.Decide and Gate.Check, queue.go:53-65, gate.go:74-84).            *)
QueueAgrees == WaiterCovered /\ OneVerdict /\ QueueIsWaiting

(* Both ways out of the gate are open: the deadline, and the verdict.       *)
GateSettles == GateAnswers /\ VerdictSettles
=============================================================================
