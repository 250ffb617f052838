--------------------------- MODULE RpcServerProofs --------------------------
(***************************************************************************)
(* What holds of the RPC server for any number of clients, emitters and    *)
(* requests and any capacities.                                            *)
(***************************************************************************)
EXTENDS RpcServer, SequenceTheorems, TLAPS

(* Every line of a connection belongs to a notification its emitter has     *)
(* started, and not to the one the emitter has yet to queue there.          *)
NotesAreStarted ==
    \A k \in Conns : \A i \in Slots(k) : \A e \in Emitters :
        out[k][i].from = e =>
            /\ out[k][i].n <= emitted[e]
            /\ k \in sending[e] => out[k][i].n < emitted[e]

(* A connection is in the table only after it was accepted. *)
ConnsAreAccepted == \A k \in conns : peer[k] # "none"

streamVars == <<conns, done, out, emitted, base, sending>>

(* The types the queues' invariants rest on. *)
StreamTypes ==
    /\ conns \subseteq Conns
    /\ out \in [Conns -> Seq(Lines)]
    /\ emitted \in [Emitters -> 0..MaxNotes]
    /\ base \in [Conns -> [Emitters -> 0..MaxNotes]]
    /\ sending \in [Emitters -> SUBSET Conns]

CursorTypes ==
    /\ out \in [Conns -> Seq(Lines)]
    /\ taken \in [Conns -> Nat]
    /\ written \in [Conns -> Nat]
    /\ seen \in [Conns -> Nat]

(* The handler of a request has run. *)
Ran(k, i) == \E j \in 1..Len(applied[k]) : applied[k][j] = i

(* An answer in a queue is the only one of a request that is done with. *)
RepliesAreDone ==
    \A k \in Conns : \A i \in Slots(k) : out[k][i].from = Dispatch =>
        /\ out[k][i].n \in Requests
        /\ dispatch[k][out[k][i].n] = "finished"
        /\ Ran(k, out[k][i].n)
        /\ \A j \in Slots(k) : out[k][j] = out[k][i] => i = j

(* Requests answer after their handler, and start as they are accepted. *)
RequestsAreRun ==
    \A k \in Conns, i \in Requests :
        /\ dispatch[k][i] = "replying" => Ran(k, i)
        /\ dispatch[k][i] # "none" => i <= accepted[k]

ReplyTypes ==
    /\ out \in [Conns -> Seq(Lines)]
    /\ emitted \in [Emitters -> 0..MaxNotes]
    /\ accepted \in [Conns -> 0..MaxRequests]
    /\ dispatch \in [Conns -> [Requests ->
                        {"none", "running", "replying", "finished"}]]
    /\ applied \in [Conns -> Seq(Requests)]

ReplyInv == RepliesAreDone /\ RequestsAreRun

StreamInv ==
    /\ NotesInOrder /\ NotesAreStarted
    /\ ConnsAreAccepted /\ NothingDropped
    /\ Backpressure

RpcInv == TypeOK /\ StreamInv /\ ReplyInv

-----------------------------------------------------------------------------

(* Queueing a line makes its connection's queue one longer and touches no   *)
(* other.                                                                   *)
LEMMA QueueAppends ==
    ASSUME out \in [Conns -> Seq(Lines)], NEW k \in Conns, NEW line \in Lines,
           Queue(k, line)
    PROVE  /\ out' \in [Conns -> Seq(Lines)]
           /\ Len(out[k]) \in Nat
           /\ Len(out'[k]) = Len(out[k]) + 1
           /\ \A q \in Conns : q # k => out'[q] = out[q]
  <1>1. out'[k] = Append(out[k], line) /\ out[k] \in Seq(Lines)
    BY DEF Queue
  <1>2. /\ Append(out[k], line) \in Seq(Lines) /\ Len(out[k]) \in Nat
        /\ Len(out'[k]) = Len(out[k]) + 1
    BY <1>1, AppendProperties, LenProperties
  <1> QED
    BY <1>1, <1>2 DEF Queue

(* A line of the queue is then an old one where it was, or the new one at   *)
(* the end.                                                                 *)
LEMMA QueueSlots ==
    ASSUME out \in [Conns -> Seq(Lines)], NEW k \in Conns, NEW line \in Lines,
           Queue(k, line)
    PROVE  /\ \A q \in Conns : \A j \in Slots(q)' :
                 \/ j \in Slots(q) /\ out'[q][j] = out[q][j]
                 \/ /\ q = k /\ out'[q][j] = line
                    /\ j \notin Slots(k) /\ \A i \in Slots(k) : i < j
           /\ \A q \in Conns : \A j \in Slots(q) :
                 j \in Slots(q)' /\ out'[q][j] = out[q][j]
           /\ \E j \in Slots(k)' : out'[k][j] = line
  <1>1. out'[k] = Append(out[k], line) /\ out[k] \in Seq(Lines)
    BY DEF Queue
  <1>2. /\ Len(out[k]) \in Nat
        /\ Len(out'[k]) = Len(out[k]) + 1
        /\ \A i \in 1..Len(out[k]) : out'[k][i] = out[k][i]
        /\ out'[k][Len(out[k]) + 1] = line
    BY <1>1, AppendProperties, LenProperties
  <1>3. \A q \in Conns : q # k => out'[q] = out[q]
    BY DEF Queue
  <1>4. Slots(k)' = Slots(k) \cup {Len(out[k]) + 1} /\ Len(out[k]) + 1 \notin Slots(k)
    BY <1>2 DEF Slots
  <1>5. \A i \in Slots(k) : i < Len(out[k]) + 1 /\ out'[k][i] = out[k][i]
    BY <1>2 DEF Slots
  <1>6. \A q \in Conns : q # k => Slots(q)' = Slots(q)
    BY <1>3 DEF Slots
  <1> QED
    BY <1>2, <1>3, <1>4, <1>5, <1>6

(* What a connection's queue holds are lines. *)
LEMMA SlotTypes ==
    ASSUME StreamTypes
    PROVE  \A k \in Conns : \A i \in Slots(k) :
               out[k][i] \in Lines /\ out[k][i].n \in Nat
  <1> SUFFICES ASSUME NEW k \in Conns, NEW i \in Slots(k)
               PROVE  out[k][i] \in Lines /\ out[k][i].n \in Nat
    OBVIOUS
  <1>1. out[k] \in Seq(Lines) /\ i \in 1..Len(out[k])
    BY DEF StreamTypes, Slots
  <1>2. out[k][i] \in Lines
    BY <1>1, ElementOfSeq
  <1> QED
    BY <1>2 DEF Lines

(* The lines dispatch and Notify queue are lines. *)
LEMMA LineTypes ==
    /\ \A i \in Requests : Reply(i) \in Lines
    /\ \A e \in Emitters, n \in Nat : Note(e, n) \in Lines
  BY RpcAssumption DEF Reply, Note, Lines, Requests

(* The initial state satisfies the invariant. *)
LEMMA RpcInit == Init => RpcInv
  <1> SUFFICES ASSUME Init PROVE RpcInv
    OBVIOUS
  <1>1. <<>> \in Seq(Lines) /\ <<>> \in Seq(Requests) /\ Len(<<>>) = 0
    BY EmptySeq
  <1>2. 0 \in 0..MaxRequests /\ 0 \in 0..MaxNotes /\ 0 <= SendBuffer
        /\ 0 <= SockRoom
    BY RpcAssumption
  <1>3. TypeOK
    BY <1>1, <1>2 DEF Init, TypeOK
  <1>4. StreamInv
    BY <1>1, <1>2 DEF Init, StreamInv, NotesInOrder, NotesAreStarted,
       ConnsAreAccepted, NothingDropped, Backpressure, Slots
  <1>5. ReplyInv
    BY <1>1 DEF Init, ReplyInv, RepliesAreDone, RequestsAreRun, Slots
  <1> QED
    BY <1>3, <1>4, <1>5 DEF RpcInv

(* Every step keeps the variables in their types. *)
LEMMA TypeStep == TypeOK /\ [Next]_vars => TypeOK'
  <1> SUFFICES ASSUME TypeOK, [Next]_vars PROVE TypeOK'
    OBVIOUS
  <1> USE RpcAssumption
  <1> USE DEF clientVars, connVars, requestVars, writerVars, emitVars,
          TypeOK
  <1>1. ASSUME NEW k \in Conns, Connect(k) PROVE TypeOK'
    BY <1>1 DEF Connect
  <1>2. ASSUME NEW k \in Conns, BeginWrite(k) PROVE TypeOK'
    BY <1>2 DEF BeginWrite
  <1>3. ASSUME NEW k \in Conns, EndWrite(k) PROVE TypeOK'
    <2>1. sent[k] + 1 \in 0..MaxRequests /\ accepted[k] <= sent[k] + 1
      BY <1>3 DEF EndWrite
    <2>2. /\ sent'[k] = sent[k] + 1
          /\ \A q \in Conns : q # k => sent'[q] = sent[q]
          /\ sent' \in [Conns -> 0..MaxRequests]
      BY <1>3, <2>1 DEF EndWrite
    <2>3. \A q \in Conns : accepted[q] <= sent'[q]
      BY <2>1, <2>2
    <2>4. \A q \in writing' : sent'[q] < MaxRequests
      BY <1>3, <2>2 DEF EndWrite
    <2> QED
      BY <1>3, <2>2, <2>3, <2>4 DEF EndWrite
  <1>4. ASSUME NEW k \in Conns, ClientReads(k) PROVE TypeOK'
    <2>1. PICK n \in Nat : n = seen[k]
      OBVIOUS
    <2>2. n + 1 \in Nat
      OBVIOUS
    <2>3. seen' = [seen EXCEPT ![k] = n + 1]
      BY <1>4, <2>1 DEF ClientReads
    <2>4. seen' \in [Conns -> Nat]
      BY <2>2, <2>3
    <2> QED
      BY <1>4, <2>4 DEF ClientReads
  <1>5. ASSUME NEW k \in Conns, ClientLeaves(k) PROVE TypeOK'
    BY <1>5 DEF ClientLeaves
  <1>6. ASSUME NEW k \in Conns, AcceptRequest(k) PROVE TypeOK'
    <2>1. accepted[k] + 1 \in Requests /\ accepted[k] + 1 <= sent[k]
      BY <1>6 DEF AcceptRequest, Requests
    <2>2. PICK n \in Nat : n = accepted[k] + 1
      BY <2>1 DEF Requests
    <2>3. n \in Requests /\ n \in 0..MaxRequests /\ n <= sent[k]
      BY <2>1, <2>2 DEF Requests
    <2>4. /\ accepted' = [accepted EXCEPT ![k] = n]
          /\ dispatch' = [dispatch EXCEPT ![k][n] = "running"]
      BY <1>6, <2>2 DEF AcceptRequest
    <2>5. /\ accepted' \in [Conns -> 0..MaxRequests]
          /\ \A q \in Conns : accepted'[q] <= sent[q]
      BY <2>3, <2>4
    <2>6. dispatch' \in [Conns -> [Requests ->
                             {"none", "running", "replying", "finished"}]]
      BY <2>3, <2>4
    <2> QED
      BY <1>6, <2>5, <2>6 DEF AcceptRequest
  <1>7. ASSUME NEW k \in Conns, ReaderEnds(k) PROVE TypeOK'
    BY <1>7 DEF ReaderEnds
  <1>8. ASSUME NEW k \in Conns, TakeLine(k) PROVE TypeOK'
    BY <1>8 DEF TakeLine
  <1>9. ASSUME NEW k \in Conns, WriteLine(k) PROVE TypeOK'
    <2>1. PICK w \in Nat : w = written[k]
      OBVIOUS
    <2>2. w + 1 \in Nat
      OBVIOUS
    <2>3. written' = [written EXCEPT ![k] = w + 1]
      BY <1>9, <2>1 DEF WriteLine
    <2>4. written' \in [Conns -> Nat]
      BY <2>2, <2>3
    <2> QED
      BY <1>9, <2>4 DEF WriteLine
  <1>10. ASSUME NEW k \in Conns, WriteFails(k) PROVE TypeOK'
    BY <1>10 DEF WriteFails
  <1>11. ASSUME NEW k \in Conns, NEW i \in Requests, Handle(k, i) PROVE TypeOK'
    <2>1. Append(applied[k], i) \in Seq(Requests)
      BY AppendProperties
    <2> QED
      BY <1>11, <2>1 DEF Handle
  <1>12. ASSUME NEW k \in Conns, NEW i \in Requests, SendReply(k, i) PROVE TypeOK'
    <2>1. Reply(i) \in Lines
      BY LineTypes
    <2>2. Queue(k, Reply(i))
      BY <1>12 DEF SendReply
    <2>3. /\ out' \in [Conns -> Seq(Lines)]
          /\ Len(out'[k]) = Len(out[k]) + 1
          /\ \A q \in Conns : q # k => out'[q] = out[q]
      BY <2>1, <2>2, QueueAppends
    <2> QED
      BY <1>12, <2>3 DEF SendReply
  <1>13. ASSUME NEW k \in Conns, NEW i \in Requests, DropReply(k, i) PROVE TypeOK'
    BY <1>13 DEF DropReply
  <1>14. ASSUME NEW e \in Emitters, Notify(e) PROVE TypeOK'
    BY <1>14 DEF Notify
  <1>15. ASSUME NEW e \in Emitters, NEW k \in Conns, SendNote(e, k) PROVE TypeOK'
    <2>1. Note(e, emitted[e]) \in Lines
      BY LineTypes, RpcAssumption
    <2>2. Queue(k, Note(e, emitted[e]))
      BY <1>15 DEF SendNote
    <2>3. /\ out' \in [Conns -> Seq(Lines)]
          /\ Len(out'[k]) = Len(out[k]) + 1
          /\ \A q \in Conns : q # k => out'[q] = out[q]
      BY <2>1, <2>2, QueueAppends
    <2> QED
      BY <1>15, <2>3 DEF SendNote
  <1>16. ASSUME NEW e \in Emitters, NEW k \in Conns, DropNote(e, k) PROVE TypeOK'
    BY <1>16 DEF DropNote
  <1>17. CASE UNCHANGED vars
    BY <1>17 DEF vars
  <1> HIDE DEF clientVars, connVars, requestVars, writerVars, emitVars,
          TypeOK
  <1> QED
    BY <1>1, <1>2, <1>3, <1>4, <1>5, <1>6, <1>7, <1>8, <1>9, <1>10,
       <1>11, <1>12, <1>13, <1>14, <1>15, <1>16, <1>17
       DEF Next, ReaderStep, WriterStep, DispatchStep, NotifyStep

(* The cursors of a connection stay within their bounds of each other. *)
LEMMA BoundsStep == TypeOK /\ Backpressure /\ [Next]_vars => Backpressure'
  <1> SUFFICES ASSUME TypeOK, Backpressure, [Next]_vars PROVE Backpressure'
    OBVIOUS
  <1>0. CursorTypes
    BY DEF TypeOK, CursorTypes
  <1> USE <1>0, RpcAssumption
  <1>len. \A k \in Conns : Len(out[k]) \in Nat
    BY <1>0, LenProperties DEF CursorTypes
  <1> USE <1>len
  <1> USE DEF clientVars, connVars, requestVars, writerVars, emitVars,
          CursorTypes, Backpressure, HasRoom
  <1>1. ASSUME NEW k \in Conns, Connect(k) PROVE Backpressure'
    BY <1>1 DEF Connect
  <1>2. ASSUME NEW k \in Conns, BeginWrite(k) PROVE Backpressure'
    BY <1>2 DEF BeginWrite
  <1>3. ASSUME NEW k \in Conns, EndWrite(k) PROVE Backpressure'
    BY <1>3 DEF EndWrite
  <1>4. ASSUME NEW k \in Conns, ClientReads(k) PROVE Backpressure'
    BY <1>4 DEF ClientReads
  <1>5. ASSUME NEW k \in Conns, ClientLeaves(k) PROVE Backpressure'
    BY <1>5 DEF ClientLeaves
  <1>6. ASSUME NEW k \in Conns, AcceptRequest(k) PROVE Backpressure'
    BY <1>6 DEF AcceptRequest
  <1>7. ASSUME NEW k \in Conns, ReaderEnds(k) PROVE Backpressure'
    BY <1>7 DEF ReaderEnds
  <1>8. ASSUME NEW k \in Conns, TakeLine(k) PROVE Backpressure'
    BY <1>8 DEF TakeLine
  <1>9. ASSUME NEW k \in Conns, WriteLine(k) PROVE Backpressure'
    BY <1>9 DEF WriteLine
  <1>10. ASSUME NEW k \in Conns, WriteFails(k) PROVE Backpressure'
    BY <1>10 DEF WriteFails
  <1>11. ASSUME NEW k \in Conns, NEW i \in Requests, Handle(k, i) PROVE Backpressure'
    BY <1>11 DEF Handle
  <1>12. ASSUME NEW k \in Conns, NEW i \in Requests, SendReply(k, i) PROVE Backpressure'
    <2>1. Reply(i) \in Lines
      BY LineTypes
    <2>2. Queue(k, Reply(i))
      BY <1>12 DEF SendReply
    <2>3. /\ out' \in [Conns -> Seq(Lines)]
          /\ Len(out'[k]) = Len(out[k]) + 1
          /\ \A q \in Conns : q # k => out'[q] = out[q]
      BY <2>1, <2>2, QueueAppends
    <2>4. /\ UNCHANGED <<taken, written, seen>>
          /\ Len(out[k]) - taken[k] < SendBuffer
      BY <1>12 DEF SendReply
    <2>5. \A q \in Conns : Len(out'[q]) \in Nat
      BY <2>3, <1>len
    <2>6. ASSUME NEW q \in Conns
          PROVE  /\ seen[q] <= written[q] /\ written[q] <= taken[q]
                 /\ taken[q] <= Len(out'[q])
                 /\ Len(out'[q]) - taken[q] <= SendBuffer
                 /\ taken[q] - written[q] <= 1
                 /\ written[q] - seen[q] <= SockRoom
      <3>1. CASE q = k
        BY <2>3, <2>4, <3>1
      <3>2. CASE q # k
        BY <2>3, <3>2
      <3> QED
        BY <3>1, <3>2
    <2> QED
      BY <2>4, <2>6
  <1>13. ASSUME NEW k \in Conns, NEW i \in Requests, DropReply(k, i) PROVE Backpressure'
    BY <1>13 DEF DropReply
  <1>14. ASSUME NEW e \in Emitters, Notify(e) PROVE Backpressure'
    BY <1>14 DEF Notify
  <1>15. ASSUME NEW e \in Emitters, NEW k \in Conns, SendNote(e, k) PROVE Backpressure'
    <2>1. Note(e, emitted[e]) \in Lines
      BY LineTypes, RpcAssumption DEF TypeOK
    <2>2. Queue(k, Note(e, emitted[e]))
      BY <1>15 DEF SendNote
    <2>3. /\ out' \in [Conns -> Seq(Lines)]
          /\ Len(out'[k]) = Len(out[k]) + 1
          /\ \A q \in Conns : q # k => out'[q] = out[q]
      BY <2>1, <2>2, QueueAppends
    <2>4. /\ UNCHANGED <<taken, written, seen>>
          /\ Len(out[k]) - taken[k] < SendBuffer
      BY <1>15 DEF SendNote
    <2>5. \A q \in Conns : Len(out'[q]) \in Nat
      BY <2>3, <1>len
    <2>6. ASSUME NEW q \in Conns
          PROVE  /\ seen[q] <= written[q] /\ written[q] <= taken[q]
                 /\ taken[q] <= Len(out'[q])
                 /\ Len(out'[q]) - taken[q] <= SendBuffer
                 /\ taken[q] - written[q] <= 1
                 /\ written[q] - seen[q] <= SockRoom
      <3>1. CASE q = k
        BY <2>3, <2>4, <3>1
      <3>2. CASE q # k
        BY <2>3, <3>2
      <3> QED
        BY <3>1, <3>2
    <2> QED
      BY <2>4, <2>6
  <1>16. ASSUME NEW e \in Emitters, NEW k \in Conns, DropNote(e, k) PROVE Backpressure'
    BY <1>16 DEF DropNote
  <1>17. CASE UNCHANGED vars
    BY <1>17 DEF vars
  <1> HIDE DEF clientVars, connVars, requestVars, writerVars, emitVars,
          CursorTypes, Backpressure, HasRoom
  <1> QED
    BY <1>1, <1>2, <1>3, <1>4, <1>5, <1>6, <1>7, <1>8, <1>9, <1>10,
       <1>11, <1>12, <1>13, <1>14, <1>15, <1>16, <1>17
       DEF Next, ReaderStep, WriterStep, DispatchStep, NotifyStep

(* The steps that touch the streams, one by one; all others leave them. *)
LEMMA StreamFrame ==
    ASSUME [Next]_vars
    PROVE  \/ UNCHANGED streamVars
           \/ \E k \in Conns : Connect(k) \/ ReaderEnds(k) \/ WriteFails(k)
           \/ \E k \in Conns, i \in Requests : SendReply(k, i)
           \/ \E e \in Emitters : Notify(e)
           \/ \E e \in Emitters, k \in Conns : SendNote(e, k) \/ DropNote(e, k)
  BY DEF Next, ReaderStep, WriterStep, DispatchStep, NotifyStep, BeginWrite,
     EndWrite, ClientReads, ClientLeaves, AcceptRequest, TakeLine, WriteLine,
     Handle, DropReply, vars, streamVars, clientVars, connVars, requestVars,
     writerVars, emitVars

(* Notifications are queued in the order they were emitted. *)
LEMMA OrderStep == TypeOK /\ NotesInOrder /\ NotesAreStarted /\ [Next]_vars
                      => (NotesInOrder /\ NotesAreStarted)'
  <1> SUFFICES ASSUME TypeOK, NotesInOrder, NotesAreStarted, [Next]_vars
               PROVE  (NotesInOrder /\ NotesAreStarted)'
    OBVIOUS
  <1>0. StreamTypes
    BY DEF TypeOK, StreamTypes
  <1> USE RpcAssumption
  <1>1. CASE UNCHANGED streamVars
    BY <1>1 DEF streamVars, NotesInOrder, NotesAreStarted, Slots
  <1>2. ASSUME NEW k \in Conns, Connect(k) \/ ReaderEnds(k) \/ WriteFails(k)
        PROVE  (NotesInOrder /\ NotesAreStarted)'
    <2>1. UNCHANGED <<out, emitted, sending>>
      BY <1>2 DEF Connect, ReaderEnds, WriteFails, emitVars
    <2> QED
      BY <2>1 DEF NotesInOrder, NotesAreStarted, Slots
  <1>3. ASSUME NEW k \in Conns, NEW r \in Requests, SendReply(k, r)
        PROVE  (NotesInOrder /\ NotesAreStarted)'
    <2>1. Reply(r) \in Lines /\ Reply(r).from = Dispatch /\ Queue(k, Reply(r))
      BY <1>3, LineTypes DEF Reply, SendReply
    <2>2. /\ \A q \in Conns : \A j \in Slots(q)' :
                \/ j \in Slots(q) /\ out'[q][j] = out[q][j]
                \/ out'[q][j].from = Dispatch
      BY <1>0, <2>1, QueueSlots DEF StreamTypes
    <2>3. UNCHANGED <<emitted, sending>>
      BY <1>3 DEF SendReply, emitVars
    <2>4. NotesInOrder'
      BY <2>2 DEF NotesInOrder
    <2>5. NotesAreStarted'
      BY <2>2, <2>3 DEF NotesAreStarted
    <2> QED
      BY <2>4, <2>5
  <1>4. ASSUME NEW e \in Emitters, Notify(e)
        PROVE  (NotesInOrder /\ NotesAreStarted)'
    <2>1. /\ UNCHANGED out /\ sending[e] = {}
          /\ \A f \in Emitters : f # e => emitted'[f] = emitted[f]
                                      /\ sending'[f] = sending[f]
          /\ emitted[e] \in Nat /\ emitted'[e] = emitted[e] + 1
      BY <1>0, <1>4 DEF Notify, StreamTypes
    <2>2. \A k \in Conns : \A i \in Slots(k) : out[k][i].n \in Nat
      BY <1>0, SlotTypes
    <2>3. NotesInOrder'
      BY <2>1 DEF NotesInOrder, Slots
    <2>4. NotesAreStarted'
      <3> SUFFICES ASSUME NEW k \in Conns, NEW i \in Slots(k), NEW f \in Emitters,
                          out[k][i].from = f
                   PROVE  /\ out[k][i].n <= emitted'[f]
                          /\ k \in sending'[f] => out[k][i].n < emitted'[f]
        BY <2>1 DEF NotesAreStarted, Slots
      <3>1. out[k][i].n <= emitted[f] /\ (k \in sending[f] => out[k][i].n < emitted[f])
        BY DEF NotesAreStarted
      <3>2. CASE f = e
        BY <2>1, <2>2, <3>1, <3>2
      <3>3. CASE f # e
        BY <2>1, <3>1, <3>3
      <3> QED
        BY <3>2, <3>3
    <2> QED
      BY <2>3, <2>4
  <1>5. ASSUME NEW e \in Emitters, NEW k \in Conns, SendNote(e, k)
        PROVE  (NotesInOrder /\ NotesAreStarted)'
    <2> DEFINE line == Note(e, emitted[e])
    <2>1. line \in Lines /\ line.from = e /\ line.n = emitted[e] /\ e # Dispatch
      BY <1>0, LineTypes DEF Note, StreamTypes
    <2>2. /\ \A q \in Conns : \A j \in Slots(q)' :
                \/ j \in Slots(q) /\ out'[q][j] = out[q][j]
                \/ /\ q = k /\ out'[q][j] = line
                   /\ j \notin Slots(k) /\ \A i \in Slots(k) : i < j
      BY <1>0, <1>5, <2>1, QueueSlots DEF StreamTypes, SendNote
    <2>3. /\ k \in sending[e] /\ k \notin sending'[e] /\ UNCHANGED emitted
          /\ \A f \in Emitters, q \in Conns : q \in sending'[f] => q \in sending[f]
          /\ emitted[e] \in Nat
      BY <1>0, <1>5 DEF SendNote, StreamTypes
    <2> HIDE DEF line
    <2>4. NotesInOrder'
      <3> SUFFICES ASSUME NEW q \in Conns, NEW i \in Slots(q)', NEW j \in Slots(q)',
                          i < j, out'[q][i].from = out'[q][j].from,
                          out'[q][i].from # Dispatch
                   PROVE  out'[q][i].n < out'[q][j].n
        BY DEF NotesInOrder
      <3>0. i \in Int /\ j \in Int
        BY DEF Slots
      <3>1. CASE i \in Slots(q) /\ j \in Slots(q)
        <4>1. out'[q][i] = out[q][i] /\ out'[q][j] = out[q][j]
          BY <2>2, <3>1
        <4> QED
          BY <3>1, <4>1 DEF NotesInOrder
      <3>2. CASE i \in Slots(q) /\ j \notin Slots(q)
        <4>1. q = k /\ out'[q][j] = line /\ out'[q][i] = out[q][i]
          BY <2>2, <3>2
        <4> QED
          BY <2>1, <2>3, <3>2, <4>1 DEF NotesAreStarted
      <3>3. CASE i \notin Slots(q)
        <4>1. q = k /\ \A h \in Slots(k) : h < i
          BY <2>2, <3>3
        <4>2. j \notin Slots(k)
          BY <3>0, <4>1
        <4>3. out'[q][i] = line /\ out'[q][j] = line
          BY <2>2, <3>3, <4>1, <4>2
        <4>4. Len(out[k]) \in Nat /\ Len(out'[k]) = Len(out[k]) + 1
          BY <1>0, <1>5, <2>1, QueueAppends DEF StreamTypes, SendNote, line
        <4> QED
          BY <3>0, <3>3, <4>1, <4>2, <4>4 DEF Slots
      <3> QED
        BY <3>1, <3>2, <3>3
    <2>5. NotesAreStarted'
      <3> SUFFICES ASSUME NEW q \in Conns, NEW i \in Slots(q)', NEW f \in Emitters,
                          out'[q][i].from = f
                   PROVE  /\ out'[q][i].n <= emitted'[f]
                          /\ q \in sending'[f] => out'[q][i].n < emitted'[f]
        BY DEF NotesAreStarted
      <3>1. CASE i \in Slots(q) /\ out'[q][i] = out[q][i]
        BY <2>3, <3>1 DEF NotesAreStarted
      <3>2. CASE q = k /\ out'[q][i] = line
        BY <2>1, <2>3, <3>2
      <3> QED
        BY <2>2, <3>1, <3>2
    <2> QED
      BY <2>4, <2>5
  <1>6. ASSUME NEW e \in Emitters, NEW k \in Conns, DropNote(e, k)
        PROVE  (NotesInOrder /\ NotesAreStarted)'
    <2>1. /\ UNCHANGED <<out, emitted>>
          /\ \A f \in Emitters, q \in Conns : q \in sending'[f] => q \in sending[f]
      BY <1>0, <1>6 DEF DropNote, StreamTypes
    <2> QED
      BY <2>1 DEF NotesInOrder, NotesAreStarted, Slots
  <1> QED
    BY <1>1, <1>2, <1>3, <1>4, <1>5, <1>6, StreamFrame

(* A connection in the table was accepted, and stays so. *)
LEMMA AcceptedStep == TypeOK /\ ConnsAreAccepted /\ [Next]_vars => ConnsAreAccepted'
  <1> SUFFICES ASSUME TypeOK, ConnsAreAccepted, [Next]_vars PROVE ConnsAreAccepted'
    OBVIOUS
  <1>0. conns \subseteq Conns /\ peer \in [Conns -> {"none", "open", "gone"}]
    BY DEF TypeOK
  <1>1. CASE UNCHANGED <<conns, peer>>
    BY <1>1 DEF ConnsAreAccepted
  <1>2. ASSUME NEW k \in Conns, Connect(k) \/ ClientLeaves(k) \/ ReaderEnds(k)
        PROVE  ConnsAreAccepted'
    BY <1>0, <1>2 DEF ConnsAreAccepted, Connect, ClientLeaves, ReaderEnds,
       connVars, clientVars
  <1> QED
    BY <1>1, <1>2 DEF Next, ReaderStep, WriterStep, DispatchStep, NotifyStep,
       BeginWrite, EndWrite, ClientReads, AcceptRequest, TakeLine, WriteLine,
       WriteFails, Handle, SendReply, DropReply, Notify, SendNote, DropNote,
       vars, clientVars, connVars

(* No connected client misses a notification. *)
LEMMA DropStep == TypeOK /\ ConnsAreAccepted /\ NothingDropped /\ [Next]_vars
                     => NothingDropped'
  <1> SUFFICES ASSUME TypeOK, ConnsAreAccepted, NothingDropped, [Next]_vars
               PROVE  NothingDropped'
    OBVIOUS
  <1>0. StreamTypes
    BY DEF TypeOK, StreamTypes
  <1> DEFINE Got(k, e, n) == \E i \in Slots(k) : out[k][i] = Note(e, n)
  <1>1. CASE UNCHANGED streamVars
    BY <1>1 DEF streamVars, NothingDropped, Slots, Note
  <1>2. ASSUME NEW k \in Conns, Connect(k) PROVE NothingDropped'
    <2>1. /\ UNCHANGED <<out, emitted, sending, done>> /\ conns' = conns \cup {k}
          /\ base'[k] = emitted /\ \A q \in Conns : q # k => base'[q] = base[q]
          /\ k \notin conns
      BY <1>0, <1>2 DEF Connect, StreamTypes, ConnsAreAccepted
    <2>2. ASSUME NEW q \in (conns \ done)', NEW e \in Emitters,
                 NEW n \in (base'[q][e] + 1)..emitted'[e]
          PROVE  (n = emitted[e] /\ q \in sending[e]) \/ Got(q, e, n)
      <3>1. CASE q = k
        <4>1. emitted[e] \in Nat /\ n \in (emitted[e] + 1)..emitted[e]
          BY <1>0, <2>1, <3>1 DEF StreamTypes
        <4> QED
          BY <4>1
      <3>2. CASE q # k
        <4>1. q \in conns \ done /\ n \in (base[q][e] + 1)..emitted[e]
          BY <1>0, <2>1, <3>2 DEF StreamTypes
        <4> QED
          BY <4>1 DEF NothingDropped
      <3> QED
        BY <3>1, <3>2
    <2> QED
      BY <2>1, <2>2 DEF NothingDropped, Slots, Note
  <1>3. ASSUME NEW k \in Conns, ReaderEnds(k) \/ WriteFails(k) PROVE NothingDropped'
    <2>1. /\ UNCHANGED <<out, emitted, sending, base>>
          /\ (conns \ done)' \subseteq conns \ done
      BY <1>3 DEF ReaderEnds, WriteFails, emitVars
    <2> QED
      BY <2>1 DEF NothingDropped, Slots, Note
  <1>4. ASSUME NEW k \in Conns, NEW r \in Requests, SendReply(k, r)
        PROVE  NothingDropped'
    <2>1. Reply(r) \in Lines /\ Queue(k, Reply(r))
      BY <1>4, LineTypes DEF SendReply
    <2>2. \A q \in Conns : \A j \in Slots(q) :
              j \in Slots(q)' /\ out'[q][j] = out[q][j]
      BY <1>0, <2>1, QueueSlots DEF StreamTypes
    <2>3. UNCHANGED <<conns, done, emitted, sending, base>>
      BY <1>4 DEF SendReply, emitVars, connVars
    <2>4. \A q \in Conns, e \in Emitters, n \in Int : Got(q, e, n) => Got(q, e, n)'
      BY <2>2 DEF Note
    <2> HIDE DEF Got
    <2>5. ASSUME NEW q \in conns \ done, NEW e \in Emitters,
                 NEW n \in (base[q][e] + 1)..emitted[e]
          PROVE  (n = emitted[e] /\ q \in sending[e]) \/ Got(q, e, n)'
      <3>1. n \in Int /\ q \in Conns
        BY <1>0 DEF StreamTypes
      <3>2. (n = emitted[e] /\ q \in sending[e]) \/ Got(q, e, n)
        BY DEF NothingDropped, Got
      <3> QED
        BY <2>4, <3>1, <3>2
    <2> QED
      BY <2>3, <2>5 DEF NothingDropped, Got
  <1>5. ASSUME NEW e \in Emitters, Notify(e) PROVE NothingDropped'
    <2>1. /\ UNCHANGED <<out, conns, done, base>>
          /\ sending[e] = {} /\ sending'[e] = conns
          /\ emitted'[e] = emitted[e] + 1 /\ emitted[e] \in Nat
          /\ \A f \in Emitters : f # e => emitted'[f] = emitted[f]
                                      /\ sending'[f] = sending[f]
      BY <1>0, <1>5 DEF Notify, StreamTypes, connVars
    <2>2. ASSUME NEW q \in conns \ done, NEW f \in Emitters,
                 NEW n \in (base[q][f] + 1)..emitted'[f]
          PROVE  (n = emitted'[f] /\ q \in sending'[f]) \/ Got(q, f, n)
      <3>0. base[q][f] \in Nat /\ q \in Conns
        BY <1>0 DEF StreamTypes
      <3>1. CASE f # e
        BY <2>1, <3>1 DEF NothingDropped
      <3>2. CASE f = e /\ n = emitted[e] + 1
        BY <2>1, <3>2
      <3>3. CASE f = e /\ n # emitted[e] + 1
        <4>1. n \in (base[q][f] + 1)..emitted[f]
          BY <2>1, <3>0, <3>3
        <4> QED
          BY <2>1, <3>3, <4>1 DEF NothingDropped
      <3> QED
        BY <3>1, <3>2, <3>3
    <2> QED
      BY <2>1, <2>2 DEF NothingDropped, Slots, Note
  <1>6. ASSUME NEW e \in Emitters, NEW k \in Conns, SendNote(e, k)
        PROVE  NothingDropped'
    <2>1. Note(e, emitted[e]) \in Lines /\ Queue(k, Note(e, emitted[e]))
      BY <1>0, <1>6, LineTypes DEF SendNote, StreamTypes
    <2>2. /\ \A q \in Conns : \A j \in Slots(q) :
                 j \in Slots(q)' /\ out'[q][j] = out[q][j]
          /\ \E j \in Slots(k)' : out'[k][j] = Note(e, emitted[e])
      BY <1>0, <2>1, QueueSlots DEF StreamTypes
    <2>3. /\ UNCHANGED <<conns, done, emitted, base>>
          /\ \A f \in Emitters, q \in Conns :
                q \in sending[f] => q \in sending'[f] \/ (f = e /\ q = k)
      BY <1>0, <1>6 DEF SendNote, connVars, StreamTypes
    <2>4. \A q \in Conns, f \in Emitters, n \in Int : Got(q, f, n) => Got(q, f, n)'
      BY <2>2 DEF Note
    <2>5. Got(k, e, emitted[e])'
      BY <2>2, <2>3 DEF Note
    <2> HIDE DEF Got
    <2>6. ASSUME NEW q \in conns \ done, NEW f \in Emitters,
                 NEW n \in (base[q][f] + 1)..emitted[f]
          PROVE  (n = emitted[f] /\ q \in sending'[f]) \/ Got(q, f, n)'
      <3>1. n \in Int /\ q \in Conns
        BY <1>0 DEF StreamTypes
      <3>2. (n = emitted[f] /\ q \in sending[f]) \/ Got(q, f, n)
        BY DEF NothingDropped, Got
      <3>3. CASE Got(q, f, n)
        BY <2>4, <3>1, <3>3
      <3>4. CASE n = emitted[f] /\ q \in sending[f]
        <4>1. CASE f = e /\ q = k
          BY <2>3, <2>5, <3>4, <4>1 DEF Got, Note
        <4>2. CASE ~(f = e /\ q = k)
          BY <2>3, <3>1, <3>4, <4>2
        <4> QED
          BY <4>1, <4>2
      <3> QED
        BY <3>2, <3>3, <3>4
    <2> QED
      BY <2>3, <2>6 DEF NothingDropped, Got
  <1>7. ASSUME NEW e \in Emitters, NEW k \in Conns, DropNote(e, k)
        PROVE  NothingDropped'
    <2>1. /\ UNCHANGED <<out, conns, done, emitted, base>> /\ k \in done
          /\ \A f \in Emitters, q \in Conns :
                q \in sending[f] => q \in sending'[f] \/ q = k
      BY <1>0, <1>7 DEF DropNote, connVars, StreamTypes
    <2>2. ASSUME NEW q \in conns \ done, NEW f \in Emitters,
                 NEW n \in (base[q][f] + 1)..emitted[f]
          PROVE  (n = emitted[f] /\ q \in sending'[f]) \/ Got(q, f, n)
      BY <1>0, <2>1 DEF NothingDropped, StreamTypes
    <2> QED
      BY <2>1, <2>2 DEF NothingDropped, Slots, Note
  <1> QED
    BY <1>1, <1>2, <1>3, <1>4, <1>5, <1>6, <1>7, StreamFrame

(* A handler that has run has run ever after. *)
LEMMA RanAppends ==
    ASSUME ReplyTypes, NEW k \in Conns, NEW i \in Requests,
           applied' = [applied EXCEPT ![k] = Append(@, i)]
    PROVE  /\ Ran(k, i)'
           /\ \A q \in Conns, r \in Requests : Ran(q, r) => Ran(q, r)'
  <1>1. applied[k] \in Seq(Requests) /\ applied'[k] = Append(applied[k], i)
    BY DEF ReplyTypes
  <1>2. /\ Len(applied[k]) \in Nat
        /\ Len(applied'[k]) = Len(applied[k]) + 1
        /\ \A j \in 1..Len(applied[k]) : applied'[k][j] = applied[k][j]
        /\ applied'[k][Len(applied[k]) + 1] = i
    BY <1>1, AppendProperties, LenProperties
  <1>3. \A q \in Conns : q # k => applied'[q] = applied[q]
    BY DEF ReplyTypes
  <1>4. Ran(k, i)'
    BY <1>2 DEF Ran
  <1>5. \A r \in Requests : Ran(k, r) => Ran(k, r)'
    BY <1>2 DEF Ran
  <1> QED
    BY <1>3, <1>4, <1>5 DEF Ran

(* Answers stay with requests that have run, one each. *)
LEMMA ReplyStep == TypeOK /\ ReplyInv /\ [Next]_vars => ReplyInv'
  <1> SUFFICES ASSUME TypeOK, ReplyInv, [Next]_vars PROVE ReplyInv'
    OBVIOUS
  <1>0. ReplyTypes
    BY DEF TypeOK, ReplyTypes
  <1> USE RpcAssumption
  <1> DEFINE Finished(k, i) == dispatch[k][i] = "finished"
  <1>1. ASSUME UNCHANGED out,
               \A k \in Conns, i \in Requests :
                   /\ Finished(k, i) => Finished(k, i)'
                   /\ Ran(k, i) => Ran(k, i)'
        PROVE  RepliesAreDone'
    BY <1>1 DEF ReplyInv, RepliesAreDone, Slots
  <1>2. CASE UNCHANGED <<out, requestVars>>
    BY <1>2 DEF requestVars, ReplyInv, RepliesAreDone, RequestsAreRun, Ran,
       Slots
  <1>3. ASSUME NEW k \in Conns, AcceptRequest(k) PROVE ReplyInv'
    <2> DEFINE a == accepted[k] + 1
    <2>1. /\ UNCHANGED <<out, applied>>
          /\ accepted[k] \in 0..MaxRequests
          /\ accepted' = [accepted EXCEPT ![k] = a]
          /\ dispatch' = [dispatch EXCEPT ![k][a] = "running"]
      BY <1>0, <1>3 DEF AcceptRequest, ReplyTypes
    <2>2. a \in Requests => dispatch[k][a] = "none"
      <3>1. ~(a <= accepted[k])
        BY <2>1
      <3> QED
        BY <1>0, <3>1 DEF ReplyInv, RequestsAreRun, ReplyTypes
    <2> HIDE DEF a
    <2>3. \A q \in Conns, i \in Requests :
              /\ q # k \/ i # a => dispatch'[q][i] = dispatch[q][i]
              /\ q = k /\ i = a => dispatch'[q][i] = "running"
      BY <1>0, <2>1 DEF ReplyTypes
    <2>4. \A q \in Conns, i \in Requests :
              /\ Finished(q, i) => Finished(q, i)'
              /\ Ran(q, i) => Ran(q, i)'
      BY <2>1, <2>2, <2>3 DEF Ran
    <2>5. RepliesAreDone'
      BY <1>1, <2>1, <2>4
    <2>6. ASSUME NEW q \in Conns, NEW i \in Requests
          PROVE  /\ dispatch'[q][i] = "replying" => Ran(q, i)'
                 /\ dispatch'[q][i] # "none" => i <= accepted'[q]
      <3>1. i \in Nat /\ accepted[q] \in Nat
        BY <1>0 DEF Requests, ReplyTypes
      <3>2. accepted'[q] = IF q = k THEN a ELSE accepted[q]
        BY <1>0, <2>1 DEF ReplyTypes
      <3>3. dispatch[q][i] # "none" => i <= accepted[q]
        BY DEF ReplyInv, RequestsAreRun
      <3>4. dispatch[q][i] = "replying" => Ran(q, i)
        BY DEF ReplyInv, RequestsAreRun
      <3> QED
        BY <2>3, <2>4, <3>1, <3>2, <3>3, <3>4 DEF a
    <2> QED
      BY <2>5, <2>6 DEF ReplyInv, RequestsAreRun
  <1>4. ASSUME NEW k \in Conns, NEW i \in Requests, Handle(k, i)
        PROVE  ReplyInv'
    <2>1. /\ UNCHANGED <<out, accepted>>
          /\ dispatch[k][i] = "running"
          /\ \A q \in Conns, r \in Requests :
                /\ q # k \/ r # i => dispatch'[q][r] = dispatch[q][r]
                /\ q = k /\ r = i =>
                       dispatch'[q][r] \in {"finished", "replying"}
      BY <1>0, <1>4 DEF Handle, ReplyTypes
    <2>2. /\ Ran(k, i)'
          /\ \A q \in Conns, r \in Requests : Ran(q, r) => Ran(q, r)'
      BY <1>0, <1>4, RanAppends DEF Handle
    <2>3. RepliesAreDone'
      BY <1>1, <2>1, <2>2
    <2>4. RequestsAreRun'
      BY <2>1, <2>2 DEF ReplyInv, RequestsAreRun
    <2> QED
      BY <2>3, <2>4 DEF ReplyInv
  <1>5. ASSUME NEW k \in Conns, NEW i \in Requests, DropReply(k, i)
        PROVE  ReplyInv'
    <2>1. /\ UNCHANGED <<out, accepted, applied>>
          /\ dispatch[k][i] = "replying"
          /\ \A q \in Conns, r \in Requests :
                /\ q # k \/ r # i => dispatch'[q][r] = dispatch[q][r]
                /\ q = k /\ r = i => dispatch'[q][r] = "finished"
      BY <1>0, <1>5 DEF DropReply, ReplyTypes
    <2>2. RepliesAreDone'
      BY <1>1, <2>1 DEF Ran
    <2>3. RequestsAreRun'
      BY <2>1 DEF ReplyInv, RequestsAreRun, Ran
    <2> QED
      BY <2>2, <2>3 DEF ReplyInv
  <1>6. ASSUME NEW k \in Conns, NEW i \in Requests, SendReply(k, i)
        PROVE  ReplyInv'
    <2>1. /\ UNCHANGED <<accepted, applied>>
          /\ dispatch[k][i] = "replying"
          /\ \A q \in Conns, r \in Requests :
                /\ q # k \/ r # i => dispatch'[q][r] = dispatch[q][r]
                /\ q = k /\ r = i => dispatch'[q][r] = "finished"
      BY <1>0, <1>6 DEF SendReply, ReplyTypes
    <2>2. RequestsAreRun'
      BY <2>1 DEF ReplyInv, RequestsAreRun, Ran
    <2>3. Reply(i) \in Lines /\ Queue(k, Reply(i))
      BY <1>6, LineTypes DEF SendReply
    <2>4. \A q \in Conns : \A j \in Slots(q)' :
              \/ j \in Slots(q) /\ out'[q][j] = out[q][j]
              \/ /\ q = k /\ out'[q][j] = Reply(i)
                 /\ j \notin Slots(k) /\ \A h \in Slots(k) : h < j
      BY <1>0, <2>3, QueueSlots DEF ReplyTypes
    <2>5. \A j \in Slots(k) : out[k][j] # Reply(i)
      BY <2>1 DEF ReplyInv, RepliesAreDone, Reply
    <2>6. Ran(k, i)
      BY <2>1 DEF ReplyInv, RequestsAreRun, Ran
    <2>7. \A q \in Conns, r \in Requests : Finished(q, r) => Finished(q, r)'
      BY <2>1
    <2>8. ASSUME NEW q \in Conns, NEW j \in Slots(q)',
                 out'[q][j].from = Dispatch
          PROVE  /\ out'[q][j].n \in Requests
                 /\ dispatch'[q][out'[q][j].n] = "finished"
                 /\ Ran(q, out'[q][j].n)
                 /\ \A h \in Slots(q)' : out'[q][h] = out'[q][j] => j = h
      <3>1. CASE j \in Slots(q) /\ out'[q][j] = out[q][j]
        <4>1. /\ out[q][j].n \in Requests /\ Finished(q, out[q][j].n)
              /\ Ran(q, out[q][j].n)
              /\ \A h \in Slots(q) : out[q][h] = out[q][j] => j = h
          BY <2>8, <3>1 DEF ReplyInv, RepliesAreDone
        <4>2. \A h \in Slots(q)' : out'[q][h] = out'[q][j] => j = h
          BY <2>4, <2>5, <3>1, <4>1
        <4> QED
          BY <2>7, <3>1, <4>1, <4>2
      <3>2. CASE q = k /\ out'[q][j] = Reply(i) /\ j \notin Slots(k)
                 /\ \A h \in Slots(k) : h < j
        <4>1. \A h \in Slots(q)' : out'[q][h] = out'[q][j] => j = h
          <5> SUFFICES ASSUME NEW h \in Slots(k)', out'[k][h] = Reply(i)
                       PROVE  j = h
            BY <3>2
          <5>1. h \notin Slots(k)
            BY <2>4, <2>5
          <5>2. Slots(k)' = Slots(k) \cup {Len(out[k]) + 1}
            BY <1>0, <2>3, QueueAppends DEF Slots, ReplyTypes
          <5> QED
            BY <3>2, <5>1, <5>2
        <4>2. out'[q][j].n = i
          BY <3>2 DEF Reply
        <4> QED
          BY <2>1, <2>6, <3>2, <4>1, <4>2
      <3> QED
        BY <2>4, <3>1, <3>2
    <2>9. RepliesAreDone'
      BY <2>1, <2>8 DEF RepliesAreDone, Ran
    <2> QED
      BY <2>2, <2>9 DEF ReplyInv
  <1>7. ASSUME NEW e \in Emitters, NEW k \in Conns, SendNote(e, k)
        PROVE  ReplyInv'
    <2>1. UNCHANGED requestVars
      BY <1>7 DEF SendNote
    <2>2. emitted[e] \in Nat
      BY <1>0 DEF ReplyTypes
    <2>3. /\ Note(e, emitted[e]) \in Lines /\ Queue(k, Note(e, emitted[e]))
          /\ Note(e, emitted[e]).from # Dispatch
      BY <1>7, <2>2, LineTypes DEF SendNote, Note
    <2>4. \A q \in Conns : \A j \in Slots(q)' : out'[q][j].from = Dispatch
              => j \in Slots(q) /\ out'[q][j] = out[q][j]
      BY <1>0, <2>3, QueueSlots DEF ReplyTypes
    <2>5. RepliesAreDone'
      BY <2>1, <2>4 DEF requestVars, ReplyInv, RepliesAreDone, Ran
    <2>6. RequestsAreRun'
      BY <2>1 DEF requestVars, ReplyInv, RequestsAreRun, Ran
    <2> QED
      BY <2>5, <2>6 DEF ReplyInv
  <1> QED
    BY <1>2, <1>3, <1>4, <1>5, <1>6, <1>7
       DEF Next, ReaderStep, WriterStep, DispatchStep, NotifyStep, Connect,
       BeginWrite, EndWrite, ClientReads, ClientLeaves, ReaderEnds, TakeLine,
       WriteLine, WriteFails, Notify, DropNote, vars, clientVars, connVars,
       writerVars, emitVars

-----------------------------------------------------------------------------

(* The invariant holds along every behaviour. *)
THEOREM RpcInvariant == Spec => []RpcInv
  <1>1. Init => RpcInv
    BY RpcInit
  <1>2. RpcInv /\ [Next]_vars => RpcInv'
    BY TypeStep, BoundsStep, OrderStep, AcceptedStep, DropStep, ReplyStep
       DEF RpcInv, StreamInv
  <1> QED
    BY <1>1, <1>2, PTL DEF Spec

(* Types of the server's state. *)
THEOREM RpcTypes == Spec => []TypeOK
  <1>1. RpcInv => TypeOK
    BY DEF RpcInv
  <1> QED
    BY <1>1, RpcInvariant, PTL

(* Memory per connection is bounded by the queue, whatever the clients do;  *)
(* the queue takes every notification of an emitter, in order and once.     *)
THEOREM RpcQueueIsFaithful == Spec => []QueueIsFaithful
  <1>1. RpcInv => QueueIsFaithful
    BY DEF RpcInv, StreamInv, QueueIsFaithful
  <1> QED
    BY <1>1, RpcInvariant, PTL

(* No request is answered twice, none before its handler ran. *)
THEOREM RpcOneReply == Spec => []OneReply
  <1>1. RpcInv => OneReply
    BY DEF RpcInv, ReplyInv, RepliesAreDone, Ran, OneReply
  <1> QED
    BY <1>1, RpcInvariant, PTL
=============================================================================
