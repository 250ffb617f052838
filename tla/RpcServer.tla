------------------------------ MODULE RpcServer -----------------------------
(***************************************************************************)
(* The control-socket JSON-RPC server (internal/rpc/server.go, conn.go)    *)
(* with its clients: the app (SidecarClient.swift, one serial queue that   *)
(* both writes and reads) and the vmux CLI (cmd/vmux-cli/client.go, a      *)
(* reader goroutine of its own).                                           *)
(*                                                                         *)
(* Per connection the server runs a reader (handleConn), a writer          *)
(* (writeLoop) and one goroutine per request (dispatch).  Emitters -- the  *)
(* read pumps of PTYs, the approval queue, the registry... -- broadcast    *)
(* notifications with Notify.  All lines for a connection go through its   *)
(* sendCh.  Both directions of the socket are bounded by the kernel.       *)
(*                                                                         *)
(* out[k] is every line ever queued for k, in order; `taken`, `written`    *)
(* and `seen` are the cursors of writeLoop, of the socket and of the       *)
(* client in it.  So sendCh holds out[k][taken+1..], and the socket holds  *)
(* out[k][seen+1..written].  Requests of k are numbered in the order the   *)
(* client writes them.                                                     *)
(***************************************************************************)
EXTENDS Naturals, Sequences, FiniteSets

CONSTANTS
    Conns,          \* connections
    SerialClients,  \* those of the app: it does not read while it writes
    Emitters,       \* goroutines that call Notify
    Dispatch,       \* the origin of a line that answers a request
    Silent,         \* the numbers of the requests without an id
    SendBuffer,     \* capacity of sendCh
    SockRoom,       \* lines a direction of the socket holds
    MaxNotes,       \* bound on the notifications of an emitter
    MaxRequests     \* bound on the requests of a client

ASSUME RpcAssumption ==
    /\ SerialClients \subseteq Conns
    /\ Dispatch \notin Emitters
    /\ SendBuffer \in Nat \ {0}
    /\ SockRoom \in Nat \ {0}
    /\ MaxNotes \in Nat
    /\ MaxRequests \in Nat
    /\ Silent \subseteq 1..MaxRequests

VARIABLES
    conns,      \* Server.conns
    done,       \* connections whose done channel is closed
    peer,       \* the client's end: "none", "open" or "gone"
    writing,    \* clients blocked in, or about to make, a write
    sent,       \* requests each client wrote to the socket
    accepted,   \* requests handleConn read
    dispatch,   \* where the goroutine of each request is
    applied,    \* the order in which the handlers of a connection ran
    out, taken, written, seen,
    emitted,    \* notifications each emitter started
    base,       \* how many each had when a connection was added (history)
    sending     \* connections the current Notify of an emitter has yet to serve

clientVars == <<peer, writing, sent, seen>>
connVars == <<conns, done>>
requestVars == <<accepted, dispatch, applied>>
writerVars == <<taken, written>>
emitVars == <<emitted, sending, base>>
vars == <<clientVars, connVars, requestVars, out, writerVars, emitVars>>

Requests == 1..MaxRequests
Slots(k) == 1..Len(out[k])
Note(e, n) == [from |-> e, n |-> n]
Reply(i) == [from |-> Dispatch, n |-> i]
Lines == [from : Emitters \cup {Dispatch}, n : Nat]

Init ==
    /\ conns = {}
    /\ done = {}
    /\ peer = [k \in Conns |-> "none"]
    /\ writing = {}
    /\ sent = [k \in Conns |-> 0]
    /\ accepted = [k \in Conns |-> 0]
    /\ dispatch = [k \in Conns |-> [i \in Requests |-> "none"]]
    /\ applied = [k \in Conns |-> <<>>]
    /\ out = [k \in Conns |-> <<>>]
    /\ taken = [k \in Conns |-> 0]
    /\ written = [k \in Conns |-> 0]
    /\ seen = [k \in Conns |-> 0]
    /\ emitted = [e \in Emitters |-> 0]
    /\ base = [k \in Conns |-> [e \in Emitters |-> 0]]
    /\ sending = [e \in Emitters |-> {}]

-----------------------------------------------------------------------------
(* conn.send: the queue has room, or the connection is closing. *)

HasRoom(k) == Len(out[k]) - taken[k] < SendBuffer
Queue(k, line) == out' = [out EXCEPT ![k] = Append(@, line)]

-----------------------------------------------------------------------------
(* Clients *)

(* Serve accepts a connection and adds it. *)
Connect(k) ==
    /\ peer[k] = "none"
    /\ peer' = [peer EXCEPT ![k] = "open"]
    /\ conns' = conns \cup {k}
    /\ base' = [base EXCEPT ![k] = emitted]
    /\ UNCHANGED <<writing, sent, seen, done, requestVars, out, writerVars,
                   emitted, sending>>

BeginWrite(k) ==
    /\ peer[k] = "open"
    /\ k \notin writing
    /\ sent[k] < MaxRequests
    /\ writing' = writing \cup {k}
    /\ UNCHANGED <<peer, sent, seen, connVars, requestVars, out, writerVars,
                   emitVars>>

EndWrite(k) ==
    /\ peer[k] = "open"
    /\ k \in writing
    /\ sent[k] - accepted[k] < SockRoom
    /\ sent' = [sent EXCEPT ![k] = @ + 1]
    /\ writing' = writing \ {k}
    /\ UNCHANGED <<peer, seen, connVars, requestVars, out, writerVars, emitVars>>

(* drainSocket runs on the serial queue writes run on. *)
ClientReads(k) ==
    /\ peer[k] = "open"
    /\ k \in SerialClients => k \notin writing
    /\ seen[k] < written[k]
    /\ seen' = [seen EXCEPT ![k] = @ + 1]
    /\ UNCHANGED <<peer, writing, sent, connVars, requestVars, out, writerVars,
                   emitVars>>

ClientLeaves(k) ==
    /\ peer[k] = "open"
    /\ peer' = [peer EXCEPT ![k] = "gone"]
    /\ writing' = writing \ {k}
    /\ UNCHANGED <<sent, seen, connVars, requestVars, out, writerVars, emitVars>>

-----------------------------------------------------------------------------
(* handleConn *)

(* Mutants of AcceptRequest: a blank line counts as a request; the handler  *)
(* runs in the reader, which waits for its answer to be queued.             *)
AcceptBlank(k) ==
    /\ k \in conns \ done
    /\ accepted[k] < MaxRequests
    /\ accepted' = [accepted EXCEPT ![k] = @ + 1]
    /\ dispatch' = [dispatch EXCEPT ![k][accepted[k] + 1] = "running"]
    /\ UNCHANGED <<clientVars, connVars, applied, out, writerVars, emitVars>>

AcceptInline(k) ==
    /\ k \in conns \ done
    /\ accepted[k] < sent[k]
    /\ \A i \in Requests : dispatch[k][i] \in {"none", "finished"}
    /\ accepted' = [accepted EXCEPT ![k] = @ + 1]
    /\ dispatch' = [dispatch EXCEPT ![k][accepted[k] + 1] = "running"]
    /\ UNCHANGED <<clientVars, connVars, applied, out, writerVars, emitVars>>

AcceptRequest(k) ==
    /\ k \in conns \ done
    /\ accepted[k] < sent[k]
    /\ accepted' = [accepted EXCEPT ![k] = @ + 1]
    /\ dispatch' = [dispatch EXCEPT ![k][accepted[k] + 1] = "running"]
    /\ UNCHANGED <<clientVars, connVars, applied, out, writerVars, emitVars>>

(* The end of the client's input, or our own end closed by writeLoop. *)
ReaderEnds(k) ==
    /\ k \in conns
    /\ k \in done \/ (peer[k] = "gone" /\ accepted[k] = sent[k])
    /\ conns' = conns \ {k}
    /\ done' = done \cup {k}
    /\ UNCHANGED <<clientVars, requestVars, out, writerVars, emitVars>>

(* dispatch: the handler, then the answer of a request that has an id. *)
Handle(k, i) ==
    /\ dispatch[k][i] = "running"
    /\ dispatch' = [dispatch EXCEPT ![k][i] =
                        IF i \in Silent THEN "finished" ELSE "replying"]
    /\ applied' = [applied EXCEPT ![k] = Append(@, i)]
    /\ UNCHANGED <<clientVars, connVars, accepted, out, writerVars, emitVars>>

(* Mutant of SendReply: the request is acknowledged before its handler ran. *)
ReplyFirst(k, i) ==
    /\ dispatch[k][i] = "running"
    /\ HasRoom(k)
    /\ Queue(k, Reply(i))
    /\ dispatch' = [dispatch EXCEPT ![k][i] = "finished"]
    /\ UNCHANGED <<clientVars, connVars, accepted, applied, writerVars, emitVars>>

SendReply(k, i) ==
    /\ dispatch[k][i] = "replying"
    /\ HasRoom(k)
    /\ Queue(k, Reply(i))
    /\ dispatch' = [dispatch EXCEPT ![k][i] = "finished"]
    /\ UNCHANGED <<clientVars, connVars, accepted, applied, writerVars, emitVars>>

DropReply(k, i) ==
    /\ dispatch[k][i] = "replying"
    /\ k \in done
    /\ dispatch' = [dispatch EXCEPT ![k][i] = "finished"]
    /\ UNCHANGED <<clientVars, connVars, accepted, applied, out, writerVars,
                   emitVars>>

-----------------------------------------------------------------------------
(* writeLoop *)

TakeLine(k) ==
    /\ peer[k] # "none"
    /\ k \notin done
    /\ taken[k] = written[k]
    /\ taken[k] < Len(out[k])
    /\ taken' = [taken EXCEPT ![k] = @ + 1]
    /\ UNCHANGED <<clientVars, connVars, requestVars, out, written, emitVars>>

WriteLine(k) ==
    /\ peer[k] = "open"
    /\ k \notin done
    /\ written[k] < taken[k]
    /\ written[k] - seen[k] < SockRoom
    /\ written' = [written EXCEPT ![k] = @ + 1]
    /\ UNCHANGED <<clientVars, connVars, requestVars, out, taken, emitVars>>

(* The client is gone: the write fails and closes the connection. *)
WriteFails(k) ==
    /\ peer[k] = "gone"
    /\ k \notin done
    /\ written[k] < taken[k]
    /\ done' = done \cup {k}
    /\ UNCHANGED <<clientVars, conns, requestVars, out, writerVars, emitVars>>

-----------------------------------------------------------------------------
(* Notify *)

Notify(e) ==
    /\ sending[e] = {}
    /\ emitted[e] < MaxNotes
    /\ emitted' = [emitted EXCEPT ![e] = @ + 1]
    /\ sending' = [sending EXCEPT ![e] = conns]
    /\ UNCHANGED <<clientVars, connVars, requestVars, out, writerVars, base>>

SendNote(e, k) ==
    /\ k \in sending[e]
    /\ HasRoom(k)
    /\ Queue(k, Note(e, emitted[e]))
    /\ sending' = [sending EXCEPT ![e] = @ \ {k}]
    /\ UNCHANGED <<clientVars, connVars, requestVars, writerVars, emitted, base>>

(* Mutant of DropNote: a full queue drops the line. *)
DropWhenFull(e, k) ==
    /\ k \in sending[e]
    /\ ~HasRoom(k)
    /\ sending' = [sending EXCEPT ![e] = @ \ {k}]
    /\ UNCHANGED <<clientVars, connVars, requestVars, out, writerVars, emitted,
                   base>>

DropNote(e, k) ==
    /\ k \in sending[e]
    /\ k \in done
    /\ sending' = [sending EXCEPT ![e] = @ \ {k}]
    /\ UNCHANGED <<clientVars, connVars, requestVars, out, writerVars, emitted,
                   base>>

-----------------------------------------------------------------------------

ReaderStep(k) == AcceptRequest(k) \/ ReaderEnds(k)
DispatchStep(k, i) == Handle(k, i) \/ SendReply(k, i) \/ DropReply(k, i)
WriterStep(k) == TakeLine(k) \/ WriteLine(k) \/ WriteFails(k)
NotifyStep(e, k) == SendNote(e, k) \/ DropNote(e, k)

Next ==
    \/ \E k \in Conns :
          \/ Connect(k) \/ BeginWrite(k) \/ EndWrite(k)
          \/ ClientReads(k) \/ ClientLeaves(k)
          \/ ReaderStep(k) \/ WriterStep(k)
          \/ \E i \in Requests : DispatchStep(k, i)
    \/ \E e \in Emitters : Notify(e) \/ \E k \in Conns : NotifyStep(e, k)

Spec == Init /\ [][Next]_vars

(* The goroutines of the server make progress. *)
ServerFairness ==
    /\ \A k \in Conns : WF_vars(ReaderStep(k)) /\ WF_vars(WriterStep(k))
    /\ \A k \in Conns, i \in Requests : WF_vars(DispatchStep(k, i))
    /\ \A e \in Emitters, k \in Conns : WF_vars(NotifyStep(e, k))

ClientFairness(k) == WF_vars(EndWrite(k)) /\ WF_vars(ClientReads(k))

(* No assumption about the clients at all. *)
ServerSpec == Spec /\ ServerFairness

-----------------------------------------------------------------------------
(* Properties *)

TypeOK ==
    /\ conns \subseteq Conns
    /\ done \subseteq Conns
    /\ peer \in [Conns -> {"none", "open", "gone"}]
    /\ writing \subseteq Conns
    /\ sent \in [Conns -> 0..MaxRequests]
    /\ accepted \in [Conns -> 0..MaxRequests]
    /\ \A k \in Conns : accepted[k] <= sent[k]
    /\ \A k \in writing : sent[k] < MaxRequests
    /\ dispatch \in [Conns -> [Requests ->
                        {"none", "running", "replying", "finished"}]]
    /\ applied \in [Conns -> Seq(Requests)]
    /\ out \in [Conns -> Seq(Lines)]
    /\ taken \in [Conns -> Nat]
    /\ written \in [Conns -> Nat]
    /\ seen \in [Conns -> Nat]
    /\ emitted \in [Emitters -> 0..MaxNotes]
    /\ base \in [Conns -> [Emitters -> 0..MaxNotes]]
    /\ sending \in [Emitters -> SUBSET Conns]

(* server.go:20-26: memory stays bounded.  Whoever queues, a connection     *)
(* holds at most SendBuffer lines, one line in the writer's hand and what   *)
(* the kernel takes.                                                        *)
Backpressure ==
    \A k \in Conns :
        /\ seen[k] <= written[k] /\ written[k] <= taken[k]
        /\ taken[k] <= Len(out[k])
        /\ Len(out[k]) - taken[k] <= SendBuffer
        /\ taken[k] - written[k] <= 1
        /\ written[k] - seen[k] <= SockRoom

(* The notifications of one emitter leave a connection's queue in the order *)
(* they were emitted, none twice: what a terminal shows depends on it.      *)
NotesInOrder ==
    \A k \in Conns : \A i, j \in Slots(k) :
        (i < j /\ out[k][i].from = out[k][j].from /\ out[k][i].from # Dispatch)
            => out[k][i].n < out[k][j].n

(* server.go:23-24, "Output is never dropped for a connected client": a     *)
(* connection's queue got every notification since it was added, save the   *)
(* one its emitter is blocked on.                                           *)
NothingDropped ==
    \A k \in conns \ done, e \in Emitters :
        \A n \in (base[k][e] + 1)..emitted[e] :
            \/ n = emitted[e] /\ k \in sending[e]
            \/ \E i \in Slots(k) : out[k][i] = Note(e, n)

(* A request is answered once at most, and only after its handler ran.      *)
OneReply ==
    \A k \in Conns : \A i \in Slots(k) : out[k][i].from = Dispatch =>
        /\ \E j \in 1..Len(applied[k]) : applied[k][j] = out[k][i].n
        /\ \A j \in Slots(k) : out[k][j] = out[k][i] => i = j

(* The app, which cannot read while it writes, and the server, which cannot *)
(* write while the app does not read, never wait for each other: as long as *)
(* a client carries on with what it is doing, every request it wrote is     *)
(* answered.                                                                *)
RequestsAnswered ==
    \A k \in Conns, r \in Requests \ Silent :
        ClientFairness(k) =>
            ((sent[k] >= r) ~>
                \/ peer[k] = "gone"
                \/ \E i \in Slots(k) : i <= seen[k] /\ out[k][i] = Reply(r))

(* conn.go:27-28: a send is abandoned when its connection closes.  An       *)
(* emitter blocked on a client that stopped reading is released when that   *)
(* client leaves.                                                           *)
LeavingReleases ==
    \A e \in Emitters, k \in Conns :
        (k \in sending[e] /\ peer[k] = "gone") ~> (k \notin sending[e])

(* What a client reads is what was emitted while it was connected: every    *)
(* notification, once, in order, from a queue of bounded length             *)
(* (conn.send and Server.Notify, conn.go:27-34, server.go:54-77).           *)
QueueIsFaithful == Backpressure /\ NotesInOrder /\ NothingDropped

(* Neither a request nor an emitter waits for ever: not for the queue of    *)
(* the connection it serves, nor for a client that has left.                *)
NobodyIsStuck == RequestsAnswered /\ LeavingReleases
=============================================================================
