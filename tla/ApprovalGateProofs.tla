------------------------- MODULE ApprovalGateProofs -------------------------
(***************************************************************************)
(* What holds of the approval gate for any number of calls, of decide      *)
(* requests and of workspaces, any rule set, any allowlist and any         *)
(* connection queue.                                                       *)
(***************************************************************************)
EXTENDS ApprovalGate, SequenceTheorems, TLAPS

(* A verdict in a channel is the one its decide request carried. *)
VerdictHasDecider ==
    \A c \in Calls : decision[c] # <<>> =>
        \E d \in Deciders : /\ dpc[d] \in {"list", "sendNote", "done"}
                            /\ dItem[d] = c
                            /\ Head(decision[c]) = dAllow[d]
                            /\ Tail(decision[c]) = <<>>

(* An item a decide request took never goes back to the queue. *)
TakenIsGone ==
    \A d \in Deciders : Took(d) =>
        /\ dItem[d] \notin items
        /\ pc[dItem[d]] \notin {"idle", "evaluate", "add"}

(* What Gate.Check promises of a call it let through; only gate mode queues *)
(* a call.                                                                  *)
CheckedBefore ==
    \A c \in Calls :
        /\ pc[c] \in {"add", "addList", "addSend", "wait"} => evalMode[c] = "gate"
        /\ pc[c] = "recheck" =>
              /\ evalMode[c] # "sandbox"
              /\ evalMode[c] = "gate" /\ req[c].cmd \in Dangerous =>
                      \E d \in Deciders : ApprovedBy(d, c)

(* The part of TypeOK the queue's invariants rest on. *)
QueueTypes ==
    /\ pc \in [Calls -> CallStates]
    /\ items \subseteq Calls
    /\ decision \in [Calls -> Seq(BOOLEAN)]
    /\ dpc \in [Deciders -> DeciderStates]
    /\ dItem \in [Deciders -> Calls \cup {NoCall}]
    /\ \A d \in Deciders : dpc[d] # "idle" => dItem[d] \in Calls
    /\ dAllow \in [Deciders -> BOOLEAN]

(* What the invariants about cleared commands need besides. *)
CallTypes ==
    /\ req \in [Calls -> [ws : Workspaces \cup {"none"},
                         cmd : Commands \cup {"none"}]]
    /\ evalMode \in [Calls -> Modes \cup {"unset"}]
    /\ lastMode \in [Calls -> Modes \cup {"unset"}]

QueueInv ==
    /\ TypeOK
    /\ WaiterCovered
    /\ OneVerdict
    /\ QueueIsWaiting
    /\ VerdictHasDecider
    /\ TakenIsGone

GateInv == QueueInv /\ CheckedBefore /\ ModesObeyed

-----------------------------------------------------------------------------

(* A sequence of length zero is empty; the guard of SendDecision counts. *)
LEMMA EmptyChannel ==
    ASSUME NEW S, NEW s \in Seq(S), Len(s) < 1
    PROVE  s = <<>>
  BY EmptySeq, LenProperties, SMT

(* The initial state satisfies the invariant. *)
LEMMA GateInit == Init => GateInv
  <1> SUFFICES ASSUME Init PROVE GateInv
    OBVIOUS
  <1> USE GateAssumption DEF Init
  <1>1. TypeOK
    BY DEF TypeOK, NoRequest, CallStates, DeciderStates, Actors
  <1>2. WaiterCovered /\ QueueIsWaiting /\ VerdictHasDecider
    BY DEF WaiterCovered, QueueIsWaiting, VerdictHasDecider, Waiting
  <1>3. OneVerdict /\ TakenIsGone
    BY DEF OneVerdict, TakenIsGone, Took
  <1>4. CheckedBefore /\ ModesObeyed
    BY DEF CheckedBefore, ModesObeyed, Running
  <1> QED
    BY <1>1, <1>2, <1>3, <1>4 DEF GateInv, QueueInv

(* Gate.Mode always answers one of the three modes. *)
LEMMA ModeType ==
    ASSUME TypeOK, NEW c \in Calls, pc[c] \notin {"idle", "refused"}
    PROVE  Mode(req[c].ws) \in Modes
  BY DEF TypeOK, Mode, Modes, DefaultMode

(* A goroutine that queues its snapshot leaves the connection well formed. *)
LEMMA SendSnapshotType ==
    ASSUME TypeOK, NEW a \in Actors, SendSnapshot(a)
    PROVE  /\ snap' \in [Actors -> SUBSET Calls]
           /\ wire' \in Seq(SUBSET Calls)
           /\ Len(wire') <= SendBuffer
  <1>1. snap' \in [Actors -> SUBSET Calls]
    BY DEF TypeOK, SendSnapshot
  <1>2. CASE wire' = wire
    BY <1>1, <1>2 DEF TypeOK
  <1>3. CASE Len(wire) < SendBuffer /\ wire' = Append(wire, snap[a])
    <2>1. snap[a] \in SUBSET Calls
      BY DEF TypeOK
    <2>2. wire' \in Seq(SUBSET Calls) /\ Len(wire') = Len(wire) + 1
      BY <1>3, <2>1, AppendProperties DEF TypeOK
    <2>3. Len(wire) \in Nat
      BY LenProperties DEF TypeOK
    <2> QED
      BY <1>1, <1>3, <2>2, <2>3, GateAssumption
  <1> QED
    BY <1>2, <1>3 DEF SendSnapshot

(* Taking from a queue that holds something. *)
LEMMA HeadTailType ==
    ASSUME NEW S, NEW s \in Seq(S), s # <<>>
    PROVE  /\ Head(s) \in S
           /\ Tail(s) \in Seq(S)
           /\ Len(Tail(s)) <= Len(s)
  <1>1. Len(s) \in Nat /\ Len(Tail(s)) = Len(s) - 1
    BY HeadTailProperties, LenProperties
  <1> QED
    BY <1>1, HeadTailProperties

(* Every step keeps the variables in their types. *)
LEMMA TypeStep == TypeOK /\ [Next]_vars => TypeOK'
  <1> SUFFICES ASSUME TypeOK, [Next]_vars PROVE TypeOK'
    OBVIOUS
  <1> USE GateAssumption DEF TypeOK, CallStates, DeciderStates, Actors, Modes,
          Goto, DGoto, TakeSnapshot, gateVars, queueVars, runVars, decideVars,
          clientVars
  <1>1. ASSUME NEW c \in Calls, Begin(c) PROVE TypeOK'
    BY <1>1 DEF Begin
  <1>2. ASSUME NEW c \in Calls, RejectRequest(c) PROVE TypeOK'
    BY <1>2 DEF RejectRequest
  <1>3. ASSUME NEW c \in Calls, Evaluate(c) PROVE TypeOK'
    <2>1. Mode(req[c].ws) \in Modes
      BY <1>3, ModeType DEF Evaluate
    <2> QED
      BY <1>3, <2>1 DEF Evaluate, Verdict
  <1>4. ASSUME NEW c \in Calls, AddItem(c) PROVE TypeOK'
    BY <1>4 DEF AddItem
  <1>5. ASSUME NEW c \in Calls, AddList(c) PROVE TypeOK'
    BY <1>5 DEF AddList
  <1>6. ASSUME NEW c \in Calls, AddSend(c) PROVE TypeOK'
    <2>1. SendSnapshot(c)
      BY <1>6 DEF AddSend
    <2> QED
      BY <1>6, <2>1, SendSnapshotType DEF AddSend
  <1>7. ASSUME NEW c \in Calls, TakeDecision(c) PROVE TypeOK'
    <2>1. decision[c] \in Seq(BOOLEAN) /\ decision[c] # <<>>
      BY <1>7 DEF TakeDecision
    <2>2. Tail(decision[c]) \in Seq(BOOLEAN)
      BY <2>1, HeadTailType
    <2> QED
      BY <1>7, <2>2 DEF TakeDecision
  <1>8. ASSUME NEW c \in Calls, CtxDone(c) PROVE TypeOK'
    BY <1>8 DEF CtxDone
  <1>9. ASSUME NEW c \in Calls, RemoveList(c) PROVE TypeOK'
    BY <1>9 DEF RemoveList
  <1>10. ASSUME NEW c \in Calls, RemoveSend(c) PROVE TypeOK'
    <2>1. SendSnapshot(c)
      BY <1>10 DEF RemoveSend
    <2> QED
      BY <1>10, <2>1, SendSnapshotType DEF RemoveSend
  <1>11. ASSUME NEW c \in Calls, Recheck(c) PROVE TypeOK'
    <2>1. Mode(req[c].ws) \in Modes
      BY <1>11, ModeType DEF Recheck
    <2> QED
      BY <1>11, <2>1 DEF Recheck
  <1>12. ASSUME NEW c \in Calls, ChildEnds(c) PROVE TypeOK'
    BY <1>12 DEF ChildEnds
  <1>13. ASSUME NEW c \in Calls, OrphanEnds(c) \/ Finish(c) \/ Expire(c)
         PROVE TypeOK'
    BY <1>13, ZenonT(40) DEF OrphanEnds, Finish, Expire
  <1>14. ASSUME NEW d \in Deciders, Decide(d) PROVE TypeOK'
    BY <1>14 DEF Decide
  <1>15. ASSUME NEW d \in Deciders, SendDecision(d) PROVE TypeOK'
    BY <1>15 DEF SendDecision
  <1>16. ASSUME NEW d \in Deciders, DecideList(d) PROVE TypeOK'
    BY <1>16 DEF DecideList
  <1>17. ASSUME NEW d \in Deciders, DecideSend(d) PROVE TypeOK'
    <2>1. SendSnapshot(d)
      BY <1>17 DEF DecideSend
    <2> QED
      BY <1>17, <2>1, SendSnapshotType DEF DecideSend
  <1>18. ASSUME NEW w \in Workspaces, NEW m \in Modes, SetMode(w, m)
         PROVE TypeOK'
    BY <1>18 DEF SetMode
  <1>19. ASSUME Connect \/ Drain \/ Disconnect PROVE TypeOK'
    <2>1. CASE Connect
      BY <2>1 DEF Connect
    <2>2. CASE Drain
      <3>1. /\ Head(wire) \in SUBSET Calls
            /\ Tail(wire) \in Seq(SUBSET Calls)
            /\ Len(Tail(wire)) <= Len(wire)
        BY <2>2, HeadTailType DEF Drain
      <3>2. Len(Tail(wire)) <= SendBuffer
        BY <3>1, LenProperties
      <3> QED
        BY <2>2, <3>1, <3>2 DEF Drain
    <2>3. CASE Disconnect
      <3>1. <<>> \in Seq(SUBSET Calls) /\ Len(<<>>) = 0
        BY EmptySeq
      <3> QED
        BY <2>3, <3>1 DEF Disconnect
    <2> QED
      BY <1>19, <2>1, <2>2, <2>3
  <1>20. CASE UNCHANGED vars
    BY <1>20 DEF vars
  <1> HIDE DEF TypeOK, CallStates, DeciderStates, Actors, Modes, Goto, DGoto,
          TakeSnapshot, gateVars, queueVars, runVars, decideVars, clientVars
  <1> QED
    BY <1>1, <1>2, <1>3, <1>4, <1>5, <1>6, <1>7, <1>8, <1>9, <1>10, <1>11,
       <1>12, <1>13, <1>14, <1>15, <1>16, <1>17, <1>18, <1>19, <1>20
       DEF Next, CallStep, DeciderStep

(* A decide request leaves exactly its own verdict in the channel. *)
LEMMA SentVerdict ==
    ASSUME TypeOK, NEW d \in Deciders, SendDecision(d)
    PROVE  /\ decision'[dItem[d]] # <<>>
           /\ Head(decision'[dItem[d]]) = dAllow[d]
           /\ Tail(decision'[dItem[d]]) = <<>>
  <1>1. dItem[d] \in Calls /\ Len(decision[dItem[d]]) < 1
    BY DEF TypeOK, SendDecision, DGoto
  <1>2. decision[dItem[d]] = <<>>
    BY <1>1, EmptyChannel DEF TypeOK
  <1>3. decision'[dItem[d]] = Append(<<>>, dAllow[d])
    BY <1>1, <1>2 DEF TypeOK, SendDecision
  <1> QED
    BY <1>3

(* A waiting call stays answerable. *)
LEMMA WaiterStep == TypeOK /\ WaiterCovered /\ [Next]_vars => WaiterCovered'
  <1> SUFFICES ASSUME TypeOK, WaiterCovered, [Next]_vars PROVE WaiterCovered'
    OBVIOUS
  <1> USE DEF TypeOK, Actors, Goto, DGoto, TakeSnapshot, SendSnapshot, gateVars,
          queueVars, runVars, decideVars, clientVars, WaiterCovered, Waiting
  <1>1. ASSUME NEW c \in Calls, Begin(c) PROVE WaiterCovered'
    BY <1>1 DEF Begin
  <1>2. ASSUME NEW c \in Calls, RejectRequest(c) PROVE WaiterCovered'
    BY <1>2 DEF RejectRequest
  <1>3. ASSUME NEW c \in Calls, Evaluate(c) PROVE WaiterCovered'
    BY <1>3 DEF Evaluate, Verdict
  <1>4. ASSUME NEW c \in Calls, AddItem(c) PROVE WaiterCovered'
    BY <1>4 DEF AddItem
  <1>5. ASSUME NEW c \in Calls, AddList(c) PROVE WaiterCovered'
    BY <1>5 DEF AddList
  <1>6. ASSUME NEW c \in Calls, AddSend(c) PROVE WaiterCovered'
    BY <1>6 DEF AddSend
  <1>7. ASSUME NEW c \in Calls, TakeDecision(c) PROVE WaiterCovered'
    BY <1>7 DEF TakeDecision
  <1>8. ASSUME NEW c \in Calls, CtxDone(c) PROVE WaiterCovered'
    BY <1>8 DEF CtxDone
  <1>9. ASSUME NEW c \in Calls, RemoveList(c) PROVE WaiterCovered'
    BY <1>9 DEF RemoveList
  <1>10. ASSUME NEW c \in Calls, RemoveSend(c) PROVE WaiterCovered'
    BY <1>10 DEF RemoveSend
  <1>11. ASSUME NEW c \in Calls, Recheck(c) PROVE WaiterCovered'
    BY <1>11 DEF Recheck
  <1>12. ASSUME NEW c \in Calls, ChildEnds(c) PROVE WaiterCovered'
    BY <1>12 DEF ChildEnds
  <1>13. ASSUME NEW c \in Calls, Finish(c) PROVE WaiterCovered'
    BY <1>13 DEF Finish
  <1>14. ASSUME NEW c \in Calls, Expire(c) PROVE WaiterCovered'
    BY <1>14 DEF Expire
  <1>15. ASSUME NEW c \in Calls, OrphanEnds(c) PROVE WaiterCovered'
    BY <1>15 DEF OrphanEnds
  <1>16. ASSUME NEW d \in Deciders, Decide(d) PROVE WaiterCovered'
    BY <1>16 DEF Decide
  <1>17. ASSUME NEW d \in Deciders, SendDecision(d) PROVE WaiterCovered'
    <2>1. decision'[dItem[d]] # <<>>
      BY <1>17, SentVerdict
    <2> QED
      BY <1>17, <2>1 DEF SendDecision
  <1>18. ASSUME NEW d \in Deciders, DecideList(d) PROVE WaiterCovered'
    BY <1>18 DEF DecideList
  <1>19. ASSUME NEW d \in Deciders, DecideSend(d) PROVE WaiterCovered'
    BY <1>19 DEF DecideSend
  <1>20. ASSUME NEW w \in Workspaces, NEW m \in Modes, SetMode(w, m)
          PROVE WaiterCovered'
    BY <1>20 DEF SetMode
  <1>21. ASSUME Connect \/ Drain \/ Disconnect PROVE WaiterCovered'
    BY <1>21 DEF Connect, Drain, Disconnect
  <1>22. CASE UNCHANGED vars
    BY <1>22 DEF vars
  <1> HIDE DEF TypeOK, Actors, Goto, DGoto, TakeSnapshot, SendSnapshot, gateVars,
          queueVars, runVars, decideVars, clientVars, WaiterCovered, Waiting
  <1> QED
    BY <1>1, <1>2, <1>3, <1>4, <1>5, <1>6, <1>7, <1>8, <1>9, <1>10,
       <1>11, <1>12, <1>13, <1>14, <1>15, <1>16, <1>17, <1>18, <1>19,
       <1>20, <1>21, <1>22
       DEF Next, CallStep, DeciderStep

(* Items leave the queue with their waiters. *)
LEMMA QueueStep == TypeOK /\ QueueIsWaiting /\ VerdictHasDecider /\ TakenIsGone
                    /\ [Next]_vars => QueueIsWaiting'
  <1> SUFFICES ASSUME TypeOK, QueueIsWaiting, VerdictHasDecider, TakenIsGone,
                      [Next]_vars PROVE QueueIsWaiting'
    OBVIOUS
  <1>0. QueueTypes
    BY DEF TypeOK, QueueTypes
  <1> USE <1>0 DEF QueueTypes, Goto, DGoto, gateVars, queueVars, runVars, decideVars,
          clientVars, QueueIsWaiting, Waiting,
          VerdictHasDecider, TakenIsGone, Took
  <1>1. ASSUME NEW c \in Calls, Begin(c) PROVE QueueIsWaiting'
    BY <1>1 DEF Begin
  <1>2. ASSUME NEW c \in Calls, RejectRequest(c) PROVE QueueIsWaiting'
    BY <1>2 DEF RejectRequest
  <1>3. ASSUME NEW c \in Calls, Evaluate(c) PROVE QueueIsWaiting'
    BY <1>3 DEF Evaluate
  <1>4. ASSUME NEW c \in Calls, AddItem(c) PROVE QueueIsWaiting'
    BY <1>4 DEF AddItem
  <1>5. ASSUME NEW c \in Calls, AddList(c) PROVE QueueIsWaiting'
    BY <1>5 DEF AddList
  <1>6. ASSUME NEW c \in Calls, AddSend(c) PROVE QueueIsWaiting'
    BY <1>6 DEF AddSend
  <1>7. ASSUME NEW c \in Calls, TakeDecision(c) PROVE QueueIsWaiting'
    <2>1. PICK d \in Deciders : /\ dpc[d] \in {"list", "sendNote", "done"}
                               /\ dItem[d] = c
      BY <1>7 DEF TakeDecision
    <2>2. c \notin items
      BY <2>1
    <2> QED
      BY <1>7, <2>2 DEF TakeDecision
  <1>8. ASSUME NEW c \in Calls, CtxDone(c) PROVE QueueIsWaiting'
    BY <1>8 DEF CtxDone
  <1>9. ASSUME NEW c \in Calls, RemoveList(c) PROVE QueueIsWaiting'
    BY <1>9 DEF RemoveList
  <1>10. ASSUME NEW c \in Calls, RemoveSend(c) PROVE QueueIsWaiting'
    BY <1>10 DEF RemoveSend
  <1>11. ASSUME NEW c \in Calls, Recheck(c) PROVE QueueIsWaiting'
    BY <1>11 DEF Recheck
  <1>12. ASSUME NEW c \in Calls, ChildEnds(c) PROVE QueueIsWaiting'
    BY <1>12 DEF ChildEnds
  <1>13. ASSUME NEW c \in Calls, Finish(c) PROVE QueueIsWaiting'
    BY <1>13 DEF Finish
  <1>14. ASSUME NEW c \in Calls, Expire(c) PROVE QueueIsWaiting'
    BY <1>14 DEF Expire
  <1>15. ASSUME NEW c \in Calls, OrphanEnds(c) PROVE QueueIsWaiting'
    BY <1>15 DEF OrphanEnds
  <1>16. ASSUME NEW d \in Deciders, Decide(d) PROVE QueueIsWaiting'
    BY <1>16 DEF Decide
  <1>17. ASSUME NEW d \in Deciders, SendDecision(d) PROVE QueueIsWaiting'
    BY <1>17 DEF SendDecision
  <1>18. ASSUME NEW d \in Deciders, DecideList(d) PROVE QueueIsWaiting'
    BY <1>18 DEF DecideList
  <1>19. ASSUME NEW d \in Deciders, DecideSend(d) PROVE QueueIsWaiting'
    BY <1>19 DEF DecideSend
  <1>20. ASSUME NEW w \in Workspaces, NEW m \in Modes, SetMode(w, m)
          PROVE QueueIsWaiting'
    BY <1>20 DEF SetMode
  <1>21. ASSUME Connect \/ Drain \/ Disconnect PROVE QueueIsWaiting'
    BY <1>21 DEF Connect, Drain, Disconnect
  <1>22. CASE UNCHANGED vars
    BY <1>22 DEF vars
  <1> HIDE DEF QueueTypes, Goto, DGoto, gateVars, queueVars, runVars, decideVars,
          clientVars, QueueIsWaiting, Waiting,
          VerdictHasDecider, TakenIsGone, Took
  <1> QED
    BY <1>1, <1>2, <1>3, <1>4, <1>5, <1>6, <1>7, <1>8, <1>9, <1>10,
       <1>11, <1>12, <1>13, <1>14, <1>15, <1>16, <1>17, <1>18, <1>19,
       <1>20, <1>21, <1>22
       DEF Next, CallStep, DeciderStep

(* Verdicts stay traceable to the request that gave them. *)
LEMMA VerdictStep == TypeOK /\ OneVerdict /\ TakenIsGone /\ VerdictHasDecider /\ [Next]_vars => VerdictHasDecider'
  <1> SUFFICES ASSUME TypeOK, OneVerdict, TakenIsGone, VerdictHasDecider, [Next]_vars PROVE VerdictHasDecider'
    OBVIOUS
  <1>0. QueueTypes
    BY DEF TypeOK, QueueTypes
  <1> USE <1>0 DEF QueueTypes, Goto, DGoto, gateVars, queueVars, runVars, decideVars,
          clientVars, VerdictHasDecider, OneVerdict, TakenIsGone, Took
  <1>1. ASSUME NEW c \in Calls, Begin(c) PROVE VerdictHasDecider'
    BY <1>1 DEF Begin
  <1>2. ASSUME NEW c \in Calls, RejectRequest(c) PROVE VerdictHasDecider'
    BY <1>2 DEF RejectRequest
  <1>3. ASSUME NEW c \in Calls, Evaluate(c) PROVE VerdictHasDecider'
    BY <1>3 DEF Evaluate
  <1>4. ASSUME NEW c \in Calls, AddItem(c) PROVE VerdictHasDecider'
    BY <1>4 DEF AddItem
  <1>5. ASSUME NEW c \in Calls, AddList(c) PROVE VerdictHasDecider'
    BY <1>5 DEF AddList
  <1>6. ASSUME NEW c \in Calls, AddSend(c) PROVE VerdictHasDecider'
    BY <1>6 DEF AddSend
  <1>7. ASSUME NEW c \in Calls, TakeDecision(c) PROVE VerdictHasDecider'
    <2>1. decision'[c] = <<>>
      BY <1>7 DEF TakeDecision
    <2> QED
      BY <1>7, <2>1, ZenonT(80) DEF TakeDecision
  <1>8. ASSUME NEW c \in Calls, CtxDone(c) PROVE VerdictHasDecider'
    BY <1>8 DEF CtxDone
  <1>9. ASSUME NEW c \in Calls, RemoveList(c) PROVE VerdictHasDecider'
    BY <1>9 DEF RemoveList
  <1>10. ASSUME NEW c \in Calls, RemoveSend(c) PROVE VerdictHasDecider'
    BY <1>10 DEF RemoveSend
  <1>11. ASSUME NEW c \in Calls, Recheck(c) PROVE VerdictHasDecider'
    BY <1>11 DEF Recheck
  <1>12. ASSUME NEW c \in Calls, ChildEnds(c) PROVE VerdictHasDecider'
    BY <1>12 DEF ChildEnds
  <1>13. ASSUME NEW c \in Calls, Finish(c) PROVE VerdictHasDecider'
    BY <1>13 DEF Finish
  <1>14. ASSUME NEW c \in Calls, Expire(c) PROVE VerdictHasDecider'
    BY <1>14 DEF Expire
  <1>15. ASSUME NEW c \in Calls, OrphanEnds(c) PROVE VerdictHasDecider'
    BY <1>15 DEF OrphanEnds
  <1>16. ASSUME NEW d \in Deciders, Decide(d) PROVE VerdictHasDecider'
    <2>1. /\ dpc[d] = "idle"
          /\ decision' = decision
          /\ \A e \in Deciders \ {d} : /\ dpc'[e] = dpc[e]
                                      /\ dItem'[e] = dItem[e]
                                      /\ dAllow'[e] = dAllow[e]
      BY <1>16 DEF Decide
    <2> QED
      BY <2>1
  <1>17. ASSUME NEW d \in Deciders, SendDecision(d) PROVE VerdictHasDecider'
    <2>1. /\ decision'[dItem[d]] # <<>>
          /\ Head(decision'[dItem[d]]) = dAllow[d]
          /\ Tail(decision'[dItem[d]]) = <<>>
      BY <1>17, SentVerdict
    <2>2. /\ dpc' = [dpc EXCEPT ![d] = "list"] /\ dpc[d] = "send"
          /\ dItem' = dItem /\ dAllow' = dAllow
          /\ \A c \in Calls \ {dItem[d]} : decision'[c] = decision[c]
      BY <1>17 DEF SendDecision
    <2>3. ASSUME NEW c \in Calls, decision'[c] # <<>>, c # dItem[d]
          PROVE  \E e \in Deciders : /\ dpc'[e] \in {"list", "sendNote", "done"}
                                     /\ dItem'[e] = c
                                     /\ Head(decision'[c]) = dAllow'[e]
                                     /\ Tail(decision'[c]) = <<>>
      <3>1. PICK e \in Deciders : /\ dpc[e] \in {"list", "sendNote", "done"}
                                  /\ dItem[e] = c
                                  /\ Head(decision[c]) = dAllow[e]
                                  /\ Tail(decision[c]) = <<>>
        BY <2>2, <2>3
      <3> QED
        BY <2>2, <2>3, <3>1
    <2>4. dpc'[d] = "list" /\ dItem'[d] = dItem[d] /\ dAllow'[d] = dAllow[d]
      BY <2>2
    <2> QED
      BY <2>1, <2>3, <2>4
  <1>18. ASSUME NEW d \in Deciders, DecideList(d) PROVE VerdictHasDecider'
    BY <1>18 DEF DecideList
  <1>19. ASSUME NEW d \in Deciders, DecideSend(d) PROVE VerdictHasDecider'
    BY <1>19 DEF DecideSend
  <1>20. ASSUME NEW w \in Workspaces, NEW m \in Modes, SetMode(w, m)
          PROVE VerdictHasDecider'
    BY <1>20 DEF SetMode
  <1>21. ASSUME Connect \/ Drain \/ Disconnect PROVE VerdictHasDecider'
    BY <1>21 DEF Connect, Drain, Disconnect
  <1>22. CASE UNCHANGED vars
    BY <1>22 DEF vars
  <1> HIDE DEF QueueTypes, Goto, DGoto, gateVars, queueVars, runVars, decideVars,
          clientVars, VerdictHasDecider, OneVerdict, TakenIsGone, Took
  <1> QED
    BY <1>1, <1>2, <1>3, <1>4, <1>5, <1>6, <1>7, <1>8, <1>9, <1>10,
       <1>11, <1>12, <1>13, <1>14, <1>15, <1>16, <1>17, <1>18, <1>19,
       <1>20, <1>21, <1>22
       DEF Next, CallStep, DeciderStep

(* Taken items stay out of the queue. *)
LEMMA TakenStep == TypeOK /\ QueueIsWaiting /\ TakenIsGone /\ [Next]_vars => TakenIsGone'
  <1> SUFFICES ASSUME TypeOK, QueueIsWaiting, TakenIsGone, [Next]_vars PROVE TakenIsGone'
    OBVIOUS
  <1>0. QueueTypes
    BY DEF TypeOK, QueueTypes
  <1> USE <1>0 DEF QueueTypes, Goto, DGoto, gateVars, queueVars, runVars, decideVars,
          clientVars, TakenIsGone, QueueIsWaiting, Waiting, Took
  <1>1. ASSUME NEW c \in Calls, Begin(c) PROVE TakenIsGone'
    BY <1>1 DEF Begin
  <1>2. ASSUME NEW c \in Calls, RejectRequest(c) PROVE TakenIsGone'
    BY <1>2 DEF RejectRequest
  <1>3. ASSUME NEW c \in Calls, Evaluate(c) PROVE TakenIsGone'
    BY <1>3 DEF Evaluate
  <1>4. ASSUME NEW c \in Calls, AddItem(c) PROVE TakenIsGone'
    BY <1>4 DEF AddItem
  <1>5. ASSUME NEW c \in Calls, AddList(c) PROVE TakenIsGone'
    BY <1>5 DEF AddList
  <1>6. ASSUME NEW c \in Calls, AddSend(c) PROVE TakenIsGone'
    BY <1>6 DEF AddSend
  <1>7. ASSUME NEW c \in Calls, TakeDecision(c) PROVE TakenIsGone'
    BY <1>7 DEF TakeDecision
  <1>8. ASSUME NEW c \in Calls, CtxDone(c) PROVE TakenIsGone'
    BY <1>8 DEF CtxDone
  <1>9. ASSUME NEW c \in Calls, RemoveList(c) PROVE TakenIsGone'
    BY <1>9 DEF RemoveList
  <1>10. ASSUME NEW c \in Calls, RemoveSend(c) PROVE TakenIsGone'
    BY <1>10 DEF RemoveSend
  <1>11. ASSUME NEW c \in Calls, Recheck(c) PROVE TakenIsGone'
    BY <1>11 DEF Recheck
  <1>12. ASSUME NEW c \in Calls, ChildEnds(c) PROVE TakenIsGone'
    BY <1>12 DEF ChildEnds
  <1>13. ASSUME NEW c \in Calls, Finish(c) PROVE TakenIsGone'
    BY <1>13 DEF Finish
  <1>14. ASSUME NEW c \in Calls, Expire(c) PROVE TakenIsGone'
    BY <1>14 DEF Expire
  <1>15. ASSUME NEW c \in Calls, OrphanEnds(c) PROVE TakenIsGone'
    BY <1>15 DEF OrphanEnds
  <1>16. ASSUME NEW d \in Deciders, Decide(d) PROVE TakenIsGone'
    <2>1. PICK c \in Calls :
            /\ dpc' = [dpc EXCEPT ![d] = IF c \in items THEN "send" ELSE "unknown"]
            /\ dItem' = [dItem EXCEPT ![d] = c]
            /\ items' = items \ {c} /\ pc' = pc
      <3>1. ui \subseteq Calls
        BY DEF TypeOK
      <3> QED
        BY ONLY <1>16, <3>1 DEF Decide, DGoto
    <2>2. ASSUME NEW e \in Deciders, Took(e)', e # d
          PROVE  /\ dItem'[e] \notin items'
                 /\ pc'[dItem'[e]] \notin {"idle", "evaluate", "add"}
      BY <2>1, <2>2
    <2>3. ASSUME Took(d)'
          PROVE  /\ dItem'[d] \notin items'
                 /\ pc'[dItem'[d]] \notin {"idle", "evaluate", "add"}
      BY <2>1, <2>3
    <2> QED
      BY ONLY <2>2, <2>3 DEF TakenIsGone
  <1>17. ASSUME NEW d \in Deciders, SendDecision(d) PROVE TakenIsGone'
    BY <1>17 DEF SendDecision
  <1>18. ASSUME NEW d \in Deciders, DecideList(d) PROVE TakenIsGone'
    BY <1>18 DEF DecideList
  <1>19. ASSUME NEW d \in Deciders, DecideSend(d) PROVE TakenIsGone'
    BY <1>19 DEF DecideSend
  <1>20. ASSUME NEW w \in Workspaces, NEW m \in Modes, SetMode(w, m)
          PROVE TakenIsGone'
    BY <1>20 DEF SetMode
  <1>21. ASSUME Connect \/ Drain \/ Disconnect PROVE TakenIsGone'
    BY <1>21 DEF Connect, Drain, Disconnect
  <1>22. CASE UNCHANGED vars
    BY <1>22 DEF vars
  <1> HIDE DEF QueueTypes, Goto, DGoto, gateVars, queueVars, runVars, decideVars,
          clientVars, TakenIsGone, QueueIsWaiting, Waiting, Took
  <1> QED
    BY <1>1, <1>2, <1>3, <1>4, <1>5, <1>6, <1>7, <1>8, <1>9, <1>10,
       <1>11, <1>12, <1>13, <1>14, <1>15, <1>16, <1>17, <1>18, <1>19,
       <1>20, <1>21, <1>22
       DEF Next, CallStep, DeciderStep

(* No item is settled twice. *)
LEMMA OneVerdictStep == TypeOK /\ OneVerdict /\ VerdictHasDecider /\ TakenIsGone /\ [Next]_vars => OneVerdict'
  <1> SUFFICES ASSUME TypeOK, OneVerdict, VerdictHasDecider, TakenIsGone, [Next]_vars PROVE OneVerdict'
    OBVIOUS
  <1>0. QueueTypes
    BY DEF TypeOK, QueueTypes
  <1> USE <1>0 DEF QueueTypes, Goto, DGoto, gateVars, queueVars, runVars, decideVars,
          clientVars, OneVerdict, VerdictHasDecider, TakenIsGone, Took
  <1>1. ASSUME NEW c \in Calls, Begin(c) PROVE OneVerdict'
    BY <1>1 DEF Begin
  <1>2. ASSUME NEW c \in Calls, RejectRequest(c) PROVE OneVerdict'
    BY <1>2 DEF RejectRequest
  <1>3. ASSUME NEW c \in Calls, Evaluate(c) PROVE OneVerdict'
    BY <1>3 DEF Evaluate
  <1>4. ASSUME NEW c \in Calls, AddItem(c) PROVE OneVerdict'
    BY <1>4 DEF AddItem
  <1>5. ASSUME NEW c \in Calls, AddList(c) PROVE OneVerdict'
    BY <1>5 DEF AddList
  <1>6. ASSUME NEW c \in Calls, AddSend(c) PROVE OneVerdict'
    BY <1>6 DEF AddSend
  <1>7. ASSUME NEW c \in Calls, TakeDecision(c) PROVE OneVerdict'
    <2>1. decision'[c] = <<>>
      BY <1>7 DEF TakeDecision
    <2> QED
      BY <1>7, <2>1 DEF TakeDecision
  <1>8. ASSUME NEW c \in Calls, CtxDone(c) PROVE OneVerdict'
    BY <1>8 DEF CtxDone
  <1>9. ASSUME NEW c \in Calls, RemoveList(c) PROVE OneVerdict'
    BY <1>9 DEF RemoveList
  <1>10. ASSUME NEW c \in Calls, RemoveSend(c) PROVE OneVerdict'
    BY <1>10 DEF RemoveSend
  <1>11. ASSUME NEW c \in Calls, Recheck(c) PROVE OneVerdict'
    BY <1>11 DEF Recheck
  <1>12. ASSUME NEW c \in Calls, ChildEnds(c) PROVE OneVerdict'
    BY <1>12 DEF ChildEnds
  <1>13. ASSUME NEW c \in Calls, Finish(c) PROVE OneVerdict'
    BY <1>13 DEF Finish
  <1>14. ASSUME NEW c \in Calls, Expire(c) PROVE OneVerdict'
    BY <1>14 DEF Expire
  <1>15. ASSUME NEW c \in Calls, OrphanEnds(c) PROVE OneVerdict'
    BY <1>15 DEF OrphanEnds
  <1>16. ASSUME NEW d \in Deciders, Decide(d) PROVE OneVerdict'
    BY <1>16 DEF Decide
  <1>17. ASSUME NEW d \in Deciders, SendDecision(d) PROVE OneVerdict'
    BY <1>17 DEF SendDecision
  <1>18. ASSUME NEW d \in Deciders, DecideList(d) PROVE OneVerdict'
    BY <1>18 DEF DecideList
  <1>19. ASSUME NEW d \in Deciders, DecideSend(d) PROVE OneVerdict'
    BY <1>19 DEF DecideSend
  <1>20. ASSUME NEW w \in Workspaces, NEW m \in Modes, SetMode(w, m)
          PROVE OneVerdict'
    BY <1>20 DEF SetMode
  <1>21. ASSUME Connect \/ Drain \/ Disconnect PROVE OneVerdict'
    BY <1>21 DEF Connect, Drain, Disconnect
  <1>22. CASE UNCHANGED vars
    BY <1>22 DEF vars
  <1> HIDE DEF QueueTypes, Goto, DGoto, gateVars, queueVars, runVars, decideVars,
          clientVars, OneVerdict, VerdictHasDecider, TakenIsGone, Took
  <1> QED
    BY <1>1, <1>2, <1>3, <1>4, <1>5, <1>6, <1>7, <1>8, <1>9, <1>10,
       <1>11, <1>12, <1>13, <1>14, <1>15, <1>16, <1>17, <1>18, <1>19,
       <1>20, <1>21, <1>22
       DEF Next, CallStep, DeciderStep

(* The gate lets through only what it may. *)
LEMMA CheckedStep == TypeOK /\ VerdictHasDecider /\ CheckedBefore /\ [Next]_vars => CheckedBefore'
  <1> SUFFICES ASSUME TypeOK, VerdictHasDecider, CheckedBefore, [Next]_vars PROVE CheckedBefore'
    OBVIOUS
  <1>0. QueueTypes /\ CallTypes
    BY DEF TypeOK, QueueTypes, CallTypes
  <1> USE <1>0 DEF QueueTypes, CallTypes, Goto, DGoto, gateVars, queueVars,
          runVars, decideVars, clientVars, CheckedBefore, VerdictHasDecider, ApprovedBy, Took
  <1>1. ASSUME NEW c \in Calls, Begin(c) PROVE CheckedBefore'
    BY <1>1 DEF Begin
  <1>2. ASSUME NEW c \in Calls, RejectRequest(c) PROVE CheckedBefore'
    BY <1>2 DEF RejectRequest
  <1>3. ASSUME NEW c \in Calls, Evaluate(c) PROVE CheckedBefore'
    <2>1. Mode(req[c].ws) \in Modes
      BY <1>3, ModeType DEF Evaluate
    <2> QED
      BY <1>3, <2>1 DEF Evaluate, Verdict, Modes
  <1>4. ASSUME NEW c \in Calls, AddItem(c) PROVE CheckedBefore'
    BY <1>4 DEF AddItem
  <1>5. ASSUME NEW c \in Calls, AddList(c) PROVE CheckedBefore'
    BY <1>5 DEF AddList
  <1>6. ASSUME NEW c \in Calls, AddSend(c) PROVE CheckedBefore'
    BY <1>6 DEF AddSend
  <1>7. ASSUME NEW c \in Calls, TakeDecision(c) PROVE CheckedBefore'
    <2>1. /\ pc[c] = "wait" /\ decision[c] # <<>>
          /\ pc' = [pc EXCEPT ![c] = IF Head(decision[c]) THEN "recheck"
                                                         ELSE "refused"]
          /\ UNCHANGED <<evalMode, req, dpc, dItem, dAllow>>
      BY <1>7 DEF TakeDecision
    <2> HIDE DEF CheckedBefore, ApprovedBy
    <2>2. PICK d \in Deciders : /\ dpc[d] \in {"list", "sendNote", "done"}
                               /\ dItem[d] = c
                               /\ Head(decision[c]) = dAllow[d]
      BY ONLY VerdictHasDecider, <2>1, c \in Calls, Zenon DEF VerdictHasDecider
    <2>3. Head(decision[c]) => ApprovedBy(d, c)
      BY <2>2 DEF ApprovedBy
    <2>4. \A e \in Deciders, k \in Calls : ApprovedBy(e, k) => ApprovedBy(e, k)'
      BY <2>1 DEF ApprovedBy
    <2>5. evalMode[c] = "gate"
      BY ONLY CheckedBefore, <2>1, c \in Calls DEF CheckedBefore
    <2>6. /\ pc'[c] = IF Head(decision[c]) THEN "recheck" ELSE "refused"
          /\ \A k \in Calls \ {c} : pc'[k] = pc[k]
      BY ONLY <2>1, c \in Calls, pc \in [Calls -> CallStates]
    <2>7. ASSUME NEW k \in Calls, k # c,
                 pc'[k] \in {"add", "addList", "addSend", "wait"}
          PROVE  evalMode'[k] = "gate"
      BY ONLY <2>1, <2>6, <2>7, CheckedBefore DEF CheckedBefore
    <2>8. ASSUME NEW k \in Calls, k # c, pc'[k] = "recheck"
          PROVE  /\ evalMode'[k] # "sandbox"
                 /\ evalMode'[k] = "gate" /\ req'[k].cmd \in Dangerous =>
                       \E e \in Deciders : ApprovedBy(e, k)'
      BY ONLY <2>1, <2>4, <2>6, <2>8, CheckedBefore DEF CheckedBefore
    <2>9. pc'[c] = "recheck" => \E e \in Deciders : ApprovedBy(e, c)'
      <3>1. CASE Head(decision[c])
        BY ONLY <2>3, <2>4, <3>1, d \in Deciders, c \in Calls
      <3>2. CASE ~Head(decision[c])
        BY ONLY <2>6, <3>2
      <3> QED
        BY ONLY <3>1, <3>2
    <2>10. pc'[c] \in {"recheck", "refused"} /\ evalMode'[c] = "gate"
      BY ONLY <2>1, <2>5, <2>6
    <2> QED
      BY ONLY <2>7, <2>8, <2>9, <2>10 DEF CheckedBefore
  <1>8. ASSUME NEW c \in Calls, CtxDone(c) PROVE CheckedBefore'
    BY <1>8 DEF CtxDone
  <1>9. ASSUME NEW c \in Calls, RemoveList(c) PROVE CheckedBefore'
    BY <1>9 DEF RemoveList
  <1>10. ASSUME NEW c \in Calls, RemoveSend(c) PROVE CheckedBefore'
    BY <1>10 DEF RemoveSend
  <1>11. ASSUME NEW c \in Calls, Recheck(c) PROVE CheckedBefore'
    BY <1>11 DEF Recheck
  <1>12. ASSUME NEW c \in Calls, ChildEnds(c) PROVE CheckedBefore'
    BY <1>12 DEF ChildEnds
  <1>13. ASSUME NEW c \in Calls, Finish(c) PROVE CheckedBefore'
    BY <1>13 DEF Finish
  <1>14. ASSUME NEW c \in Calls, Expire(c) PROVE CheckedBefore'
    BY <1>14 DEF Expire
  <1>15. ASSUME NEW c \in Calls, OrphanEnds(c) PROVE CheckedBefore'
    BY <1>15 DEF OrphanEnds
  <1>16. ASSUME NEW d \in Deciders, Decide(d) PROVE CheckedBefore'
    <2>1. \A e \in Deciders, k \in Calls : ApprovedBy(e, k) => ApprovedBy(e, k)'
      BY <1>16 DEF Decide
    <2>2. UNCHANGED <<pc, evalMode, req>>
      BY <1>16 DEF Decide
    <2> HIDE DEF ApprovedBy
    <2> QED
      BY <2>1, <2>2
  <1>17. ASSUME NEW d \in Deciders, SendDecision(d) PROVE CheckedBefore'
    BY <1>17 DEF SendDecision
  <1>18. ASSUME NEW d \in Deciders, DecideList(d) PROVE CheckedBefore'
    BY <1>18 DEF DecideList
  <1>19. ASSUME NEW d \in Deciders, DecideSend(d) PROVE CheckedBefore'
    BY <1>19 DEF DecideSend
  <1>20. ASSUME NEW w \in Workspaces, NEW m \in Modes, SetMode(w, m)
          PROVE CheckedBefore'
    BY <1>20 DEF SetMode
  <1>21. ASSUME Connect \/ Drain \/ Disconnect PROVE CheckedBefore'
    BY <1>21 DEF Connect, Drain, Disconnect
  <1>22. CASE UNCHANGED vars
    BY <1>22 DEF vars
  <1> HIDE DEF QueueTypes, CallTypes, Goto, DGoto, gateVars, queueVars,
          runVars, decideVars, clientVars, CheckedBefore, VerdictHasDecider, ApprovedBy, Took
  <1> QED
    BY <1>1, <1>2, <1>3, <1>4, <1>5, <1>6, <1>7, <1>8, <1>9, <1>10,
       <1>11, <1>12, <1>13, <1>14, <1>15, <1>16, <1>17, <1>18, <1>19,
       <1>20, <1>21, <1>22
       DEF Next, CallStep, DeciderStep

(* A command that runs obeyed both readings of the mode. *)
LEMMA RunsStep == TypeOK /\ CheckedBefore /\ ModesObeyed /\ [Next]_vars => ModesObeyed'
  <1> SUFFICES ASSUME TypeOK, CheckedBefore, ModesObeyed, [Next]_vars PROVE ModesObeyed'
    OBVIOUS
  <1>0. QueueTypes /\ CallTypes
    BY DEF TypeOK, QueueTypes, CallTypes
  <1> USE <1>0 DEF QueueTypes, CallTypes, Goto, DGoto, gateVars, queueVars,
          runVars, decideVars, clientVars, ModesObeyed, CheckedBefore, ApprovedBy, Took, Running
  <1>1. ASSUME NEW c \in Calls, Begin(c) PROVE ModesObeyed'
    BY <1>1 DEF Begin
  <1>2. ASSUME NEW c \in Calls, RejectRequest(c) PROVE ModesObeyed'
    BY <1>2 DEF RejectRequest
  <1>3. ASSUME NEW c \in Calls, Evaluate(c) PROVE ModesObeyed'
    BY <1>3 DEF Evaluate, Verdict
  <1>4. ASSUME NEW c \in Calls, AddItem(c) PROVE ModesObeyed'
    BY <1>4 DEF AddItem
  <1>5. ASSUME NEW c \in Calls, AddList(c) PROVE ModesObeyed'
    BY <1>5 DEF AddList
  <1>6. ASSUME NEW c \in Calls, AddSend(c) PROVE ModesObeyed'
    BY <1>6 DEF AddSend
  <1>7. ASSUME NEW c \in Calls, TakeDecision(c) PROVE ModesObeyed'
    <2>0. pc' = [pc EXCEPT ![c] = IF Head(decision[c]) THEN "recheck"
                                  ELSE "refused"]
      BY <1>7 DEF TakeDecision
    <2>1. \A k \in Calls : Running(k)' => Running(k)
      BY ONLY <2>0, pc \in [Calls -> CallStates], c \in Calls DEF Running
    <2>2. UNCHANGED <<evalMode, lastMode, req, dpc, dItem, dAllow>>
      BY <1>7 DEF TakeDecision
    <2>3. \A e \in Deciders, k \in Calls : ApprovedBy(e, k) => ApprovedBy(e, k)'
      BY <2>2
    <2> HIDE DEF Running, ApprovedBy
    <2> QED
      BY ONLY ModesObeyed, <2>1, <2>2, <2>3 DEF ModesObeyed
  <1>8. ASSUME NEW c \in Calls, CtxDone(c) PROVE ModesObeyed'
    BY <1>8 DEF CtxDone
  <1>9. ASSUME NEW c \in Calls, RemoveList(c) PROVE ModesObeyed'
    BY <1>9 DEF RemoveList
  <1>10. ASSUME NEW c \in Calls, RemoveSend(c) PROVE ModesObeyed'
    BY <1>10 DEF RemoveSend
  <1>11. ASSUME NEW c \in Calls, Recheck(c) PROVE ModesObeyed'
    BY <1>11 DEF Recheck
  <1>12. ASSUME NEW c \in Calls, ChildEnds(c) PROVE ModesObeyed'
    BY <1>12 DEF ChildEnds
  <1>13. ASSUME NEW c \in Calls, Finish(c) PROVE ModesObeyed'
    BY <1>13 DEF Finish
  <1>14. ASSUME NEW c \in Calls, Expire(c) PROVE ModesObeyed'
    BY <1>14 DEF Expire
  <1>15. ASSUME NEW c \in Calls, OrphanEnds(c) PROVE ModesObeyed'
    BY <1>15 DEF OrphanEnds
  <1>16. ASSUME NEW d \in Deciders, Decide(d) PROVE ModesObeyed'
    <2>1. /\ dpc[d] = "idle" /\ UNCHANGED <<gateVars, pc, runVars>>
          /\ \A e \in Deciders \ {d} : /\ dpc'[e] = dpc[e]
                                      /\ dItem'[e] = dItem[e]
                                      /\ dAllow'[e] = dAllow[e]
      BY <1>16 DEF Decide
    <2>2. ASSUME NEW c \in Calls, NEW e \in Deciders, ApprovedBy(e, c)
          PROVE  ApprovedBy(e, c)'
      BY <2>1, <2>2
    <2> HIDE DEF ApprovedBy
    <2> QED
      BY <2>1, <2>2
  <1>17. ASSUME NEW d \in Deciders, SendDecision(d) PROVE ModesObeyed'
    BY <1>17 DEF SendDecision
  <1>18. ASSUME NEW d \in Deciders, DecideList(d) PROVE ModesObeyed'
    BY <1>18 DEF DecideList
  <1>19. ASSUME NEW d \in Deciders, DecideSend(d) PROVE ModesObeyed'
    BY <1>19 DEF DecideSend
  <1>20. ASSUME NEW w \in Workspaces, NEW m \in Modes, SetMode(w, m)
          PROVE ModesObeyed'
    BY <1>20 DEF SetMode
  <1>21. ASSUME Connect \/ Drain \/ Disconnect PROVE ModesObeyed'
    BY <1>21 DEF Connect, Drain, Disconnect
  <1>22. CASE UNCHANGED vars
    BY <1>22 DEF vars
  <1> HIDE DEF QueueTypes, CallTypes, Goto, DGoto, gateVars, queueVars,
          runVars, decideVars, clientVars, ModesObeyed, CheckedBefore, ApprovedBy, Took, Running
  <1> QED
    BY <1>1, <1>2, <1>3, <1>4, <1>5, <1>6, <1>7, <1>8, <1>9, <1>10,
       <1>11, <1>12, <1>13, <1>14, <1>15, <1>16, <1>17, <1>18, <1>19,
       <1>20, <1>21, <1>22
       DEF Next, CallStep, DeciderStep

-----------------------------------------------------------------------------

(* The invariant holds along every behaviour. *)
THEOREM GateInvariant == Spec => []GateInv
  <1>1. Init => GateInv
    BY GateInit
  <1>2. GateInv /\ [Next]_vars => GateInv'
    BY TypeStep, WaiterStep, QueueStep, VerdictStep, TakenStep,
       OneVerdictStep, CheckedStep, RunsStep DEF GateInv, QueueInv
  <1> QED
    BY <1>1, <1>2, PTL DEF Spec

(* Every variable keeps its type: in particular the outbound queue never    *)
(* holds more than SendBuffer lines, whoever sends.                         *)
THEOREM GateTypes == Spec => []TypeOK
  <1>1. GateInv => TypeOK
    BY DEF GateInv, QueueInv
  <1> QED
    BY <1>1, GateInvariant, PTL

(* A call blocked in Gate.Check can always be answered, for Queue.Decide    *)
(* loses no item between its delete and its send; however often the human   *)
(* clicks, one decide request wins and its send never blocks; and the queue *)
(* never holds an item nobody waits for.                                    *)
THEOREM GateQueueAgrees == Spec => []QueueAgrees
  <1>1. GateInv => QueueAgrees
    BY DEF GateInv, QueueInv, QueueAgrees
  <1> QED
    BY <1>1, GateInvariant, PTL

(* A command that runs obeyed each of the two readings of the mode: it was  *)
(* not denied as sandboxed by the first, what the rules call dangerous was  *)
(* approved when that was gate, and it is allowlisted when the second was   *)
(* watch (native_command.go:50-61).                                         *)
THEOREM GateModesObeyed == Spec => []ModesObeyed
  <1>1. GateInv => ModesObeyed
    BY DEF GateInv
  <1> QED
    BY <1>1, GateInvariant, PTL
=============================================================================
