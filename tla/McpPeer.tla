------------------------------- MODULE McpPeer ------------------------------
(***************************************************************************)
(* The client side of an upstream MCP server (internal/mcp/peer.go and     *)
(* upstream.go): tool calls issue requests concurrently over the stdin of  *)
(* the server's process, one reader goroutine routes the responses that    *)
(* come back on its stdout, and Upstream.Close tears both down.            *)
(*                                                                         *)
(* The goroutines meet in `pending` (under Peer.mu), in the capacity-one   *)
(* response channel of each call (`chan`) and in the writer (under         *)
(* writeMu).  The server process is external: it reads requests when it    *)
(* likes, answers in any order, may answer twice, may close its stdout     *)
(* while its stdin stays open, may die, and may answer with a frame longer *)
(* than maxMessage.                                                        *)
(***************************************************************************)
EXTENDS Naturals, Sequences, FiniteSets

CONSTANTS
    Calls,          \* Peer.Call invocations; a call stands for its id too
    NoCall,         \* no call
    PipeRoom,       \* requests the stdin pipe holds before a write blocks
    MaxFrames,      \* bound on the frames the server sends
    MaxOversize     \* bound on those that exceed maxMessage

ASSUME PeerAssumption ==
    /\ NoCall \notin Calls
    /\ PipeRoom \in Nat \ {0}
    /\ MaxFrames \in Nat
    /\ MaxOversize \in Nat

VARIABLES
    pc,         \* where each Call is
    outcome,    \* what it returned
    pending,    \* Peer.pending
    chan,       \* the response channel of each call
    ended,      \* calls whose context is done
    reader,     \* where Peer.Run is
    held,       \* the call Peer.deliver took and will send to
    closed,     \* Peer.closed
    pipes,      \* Peer.rwc: "open", or "closed" by us
    stdin,      \* requests in the server's stdin pipe
    stdout,     \* frames in its stdout pipe
    server,     \* "up", "mute" (stdout closed) or "dead"
    asked,      \* requests the server has read
    frames,     \* frames it sent
    oversize    \* frames of these that were too long

callVars == <<pc, outcome, ended>>
readVars == <<reader, held>>
closeVars == <<closed, pipes>>
serverVars == <<server, asked, frames, oversize>>
vars == <<callVars, pending, chan, readVars, closeVars, stdin, stdout,
          serverVars>>

Frames == Calls \X {"fits", "oversize"}

Init ==
    /\ pc = [c \in Calls |-> "idle"]
    /\ outcome = [c \in Calls |-> "none"]
    /\ pending = {}
    /\ chan = [c \in Calls |-> "empty"]
    /\ ended = {}
    /\ reader = "reading"
    /\ held = NoCall
    /\ closed = FALSE
    /\ pipes = "open"
    /\ stdin = <<>>
    /\ stdout = <<>>
    /\ server = "up"
    /\ asked = {}
    /\ frames = 0
    /\ oversize = 0

-----------------------------------------------------------------------------
(* Peer.Call *)

Return(c, o) ==
    /\ pc' = [pc EXCEPT ![c] = "returned"]
    /\ outcome' = [outcome EXCEPT ![c] = o]

Register(c) ==
    /\ pc[c] = "idle"
    /\ ~closed
    /\ pending' = pending \cup {c}
    /\ pc' = [pc EXCEPT ![c] = "write"]
    /\ UNCHANGED <<outcome, ended, chan, readVars, closeVars, stdin, stdout,
                   serverVars>>

Refuse(c) ==
    /\ pc[c] = "idle"
    /\ closed
    /\ Return(c, "refused")
    /\ UNCHANGED <<ended, pending, chan, readVars, closeVars, stdin, stdout,
                   serverVars>>

(* Mutant of Write: the frame is kept in memory when the pipe is full. *)
WriteWithoutRoom(c) ==
    /\ pc[c] = "write"
    /\ pipes = "open" /\ server # "dead"
    /\ stdin' = Append(stdin, c)
    /\ pc' = [pc EXCEPT ![c] = "wait"]
    /\ UNCHANGED <<outcome, ended, pending, chan, readVars, closeVars, stdout,
                   serverVars>>

(* writeMessage: blocks, whatever the context says, while the pipe is full. *)
Write(c) ==
    /\ pc[c] = "write"
    /\ pipes = "open" /\ server # "dead"
    /\ Len(stdin) < PipeRoom
    /\ stdin' = Append(stdin, c)
    /\ pc' = [pc EXCEPT ![c] = "wait"]
    /\ UNCHANGED <<outcome, ended, pending, chan, readVars, closeVars, stdout,
                   serverVars>>

WriteFails(c) ==
    /\ pc[c] = "write"
    /\ pipes = "closed" \/ server = "dead"
    /\ pending' = pending \ {c}
    /\ Return(c, "writeError")
    /\ UNCHANGED <<ended, chan, readVars, closeVars, stdin, stdout, serverVars>>

(* The select: ctx.Done, a response, or the channel failPending closed. *)
CtxDone(c) ==
    /\ pc[c] = "wait"
    /\ c \in ended
    /\ pending' = pending \ {c}
    /\ Return(c, "cancelled")
    /\ UNCHANGED <<ended, chan, readVars, closeVars, stdin, stdout, serverVars>>

Receive(c) ==
    /\ pc[c] = "wait"
    /\ chan[c] = "response"
    /\ chan' = [chan EXCEPT ![c] = "empty"]
    /\ Return(c, "response")
    /\ UNCHANGED <<ended, pending, readVars, closeVars, stdin, stdout,
                   serverVars>>

ReceiveClosed(c) ==
    /\ pc[c] = "wait"
    /\ chan[c] = "closed"
    /\ Return(c, "closed")
    /\ UNCHANGED <<ended, pending, chan, readVars, closeVars, stdin, stdout,
                   serverVars>>

(* The handshake timeout, or the end of the proxy's serve context. *)
EndContext(c) ==
    /\ c \notin ended
    /\ pc[c] # "returned"
    /\ ended' = ended \cup {c}
    /\ UNCHANGED <<pc, outcome, pending, chan, readVars, closeVars, stdin,
                   stdout, serverVars>>

-----------------------------------------------------------------------------
(* Peer.Run *)

(* Mutants of ReadResponse: the entry is looked up but not removed; the     *)
(* response goes to any entry there is.                                     *)
ReadKeepsEntry ==
    /\ reader = "reading"
    /\ stdout # <<>>
    /\ Head(stdout)[2] = "fits"
    /\ LET c == Head(stdout)[1] IN
         IF c \in pending
           THEN reader' = "delivering" /\ held' = c
           ELSE UNCHANGED readVars
    /\ stdout' = Tail(stdout)
    /\ UNCHANGED <<callVars, pending, chan, closeVars, stdin, serverVars>>

ReadMatchesAny ==
    /\ reader = "reading"
    /\ stdout # <<>>
    /\ Head(stdout)[2] = "fits"
    /\ \E c \in pending : /\ held' = c
                           /\ pending' = pending \ {c}
    /\ reader' = "delivering"
    /\ stdout' = Tail(stdout)
    /\ UNCHANGED <<callVars, chan, closeVars, stdin, serverVars>>

(* deliver takes the channel out of pending under the lock. *)
ReadResponse ==
    /\ reader = "reading"
    /\ stdout # <<>>
    /\ Head(stdout)[2] = "fits"
    /\ LET c == Head(stdout)[1] IN
         IF c \in pending
           THEN reader' = "delivering" /\ held' = c
           ELSE UNCHANGED readVars
    /\ pending' = pending \ {Head(stdout)[1]}
    /\ stdout' = Tail(stdout)
    /\ UNCHANGED <<callVars, chan, closeVars, stdin, serverVars>>

(* ... and sends to it outside the lock. *)
Deliver ==
    /\ reader = "delivering"
    /\ chan[held] = "empty"
    /\ chan' = [chan EXCEPT ![held] = "response"]
    /\ reader' = "reading"
    /\ held' = NoCall
    /\ UNCHANGED <<callVars, pending, closeVars, stdin, stdout, serverVars>>

(* A frame longer than maxMessage: Run returns at once. *)
ReadOversize ==
    /\ reader = "reading"
    /\ stdout # <<>>
    /\ Head(stdout)[2] = "oversize"
    /\ reader' = "stopped"
    /\ stdout' = Tail(stdout)
    /\ UNCHANGED <<callVars, pending, chan, held, closeVars, stdin, serverVars>>

(* Mutant of ReadEnds: pending is emptied, but nobody is told. *)
ReadEndsSilently ==
    /\ reader = "reading"
    /\ (server # "up" /\ stdout = <<>>) \/ pipes = "closed"
    /\ reader' = "stopped"
    /\ pending' = {}
    /\ UNCHANGED <<callVars, chan, held, closeVars, stdin, stdout, serverVars>>

(* The end of the stream, or a read of the pipe we closed: failPending. *)
ReadEnds ==
    /\ reader = "reading"
    /\ (server # "up" /\ stdout = <<>>) \/ pipes = "closed"
    /\ reader' = "stopped"
    /\ chan' = [c \in Calls |-> IF c \in pending THEN "closed" ELSE chan[c]]
    /\ pending' = {}
    /\ UNCHANGED <<callVars, held, closeVars, stdin, stdout, serverVars>>

-----------------------------------------------------------------------------
(* Upstream.Close: the handshake failed, or the sidecar shuts down.         *)

CloseFlag ==
    /\ ~closed
    /\ closed' = TRUE
    /\ UNCHANGED <<callVars, pending, chan, readVars, pipes, stdin, stdout,
                   serverVars>>

ClosePipes ==
    /\ closed
    /\ pipes = "open"
    /\ pipes' = "closed"
    /\ UNCHANGED <<callVars, pending, chan, readVars, closed, stdin, stdout,
                   serverVars>>

Kill ==
    /\ pipes = "closed"
    /\ server # "dead"
    /\ server' = "dead"
    /\ UNCHANGED <<callVars, pending, chan, readVars, closeVars, stdin, stdout,
                   asked, frames, oversize>>

-----------------------------------------------------------------------------
(* The server process *)

ServerReads ==
    /\ server # "dead"
    /\ stdin # <<>>
    /\ asked' = asked \cup {Head(stdin)}
    /\ stdin' = Tail(stdin)
    /\ UNCHANGED <<callVars, pending, chan, readVars, closeVars, stdout,
                   server, frames, oversize>>

Send(c, size) ==
    /\ server = "up" /\ pipes = "open"
    /\ c \in asked
    /\ frames < MaxFrames
    /\ frames' = frames + 1
    /\ stdout' = Append(stdout, <<c, size>>)
    /\ UNCHANGED <<callVars, pending, chan, readVars, closeVars, stdin, server,
                   asked>>

ServerAnswers(c) == Send(c, "fits") /\ UNCHANGED oversize

ServerOverflows(c) ==
    /\ oversize < MaxOversize
    /\ oversize' = oversize + 1
    /\ Send(c, "oversize")

ServerEnds ==
    /\ \/ server = "up" /\ server' = "mute"
       \/ server # "dead" /\ server' = "dead"
    /\ UNCHANGED <<callVars, pending, chan, readVars, closeVars, stdin, stdout,
                   asked, frames, oversize>>

-----------------------------------------------------------------------------

CallStep(c) == \/ Write(c) \/ WriteFails(c)
               \/ CtxDone(c) \/ Receive(c) \/ ReceiveClosed(c)

ReaderStep == ReadResponse \/ Deliver \/ ReadOversize \/ ReadEnds

Next ==
    \/ \E c \in Calls : \/ Register(c) \/ Refuse(c) \/ CallStep(c)
                        \/ EndContext(c)
                        \/ ServerAnswers(c) \/ ServerOverflows(c)
    \/ ReaderStep
    \/ CloseFlag \/ ClosePipes \/ Kill
    \/ ServerReads \/ ServerEnds

Spec == Init /\ [][Next]_vars

(* The goroutines of the sidecar make progress, and the server reads its    *)
(* stdin: a server that does not would block Write for good.                *)
FairSpec ==
    /\ Spec
    /\ \A c \in Calls : WF_vars(CallStep(c))
    /\ WF_vars(ReaderStep)
    /\ WF_vars(ClosePipes) /\ WF_vars(Kill)
    /\ WF_vars(ServerReads)

-----------------------------------------------------------------------------
(* Properties *)

CallStates == {"idle", "write", "wait", "returned"}
Outcomes == {"none", "refused", "writeError", "cancelled", "response", "closed"}

TypeOK ==
    /\ pc \in [Calls -> CallStates]
    /\ outcome \in [Calls -> Outcomes]
    /\ pending \subseteq Calls
    /\ chan \in [Calls -> {"empty", "response", "closed"}]
    /\ ended \subseteq Calls
    /\ reader \in {"reading", "delivering", "stopped"}
    /\ held \in Calls \cup {NoCall}
    /\ closed \in BOOLEAN
    /\ pipes \in {"open", "closed"}
    /\ stdin \in Seq(Calls)
    /\ Len(stdin) <= PipeRoom
    /\ stdout \in Seq(Frames)
    /\ server \in {"up", "mute", "dead"}
    /\ asked \subseteq Calls
    /\ frames \in 0..MaxFrames
    /\ oversize \in 0..MaxOversize

(* The send of Peer.deliver never blocks the reader and never hits a closed *)
(* channel (which would panic): duplicated and late responses are dropped,  *)
(* and failPending only closes channels nobody will send to.                *)
DeliverIsSafe ==
    reader = "delivering" => /\ held \in Calls
                             /\ chan[held] = "empty"
                             /\ held \notin pending

(* While Run reads, a response or the end of the stream reaches every       *)
(* caller that waits.                                                       *)
WaiterReachable ==
    \A c \in Calls : pc[c] = "wait" /\ reader # "stopped" =>
        c \in pending \/ held = c \/ chan[c] # "empty"

(* A call leaves nothing behind: once it returned, no response is routed to *)
(* it, and its entry is gone from pending.                                  *)
NoLeak == \A c \in pending : pc[c] \in {"write", "wait"}

(* Calls in flight return when the stream ends or Close has closed it,      *)
(* unless a frame over maxMessage stops the reader before it gets there.    *)
EndFailsInFlight ==
    \A c \in Calls :
        (/\ c \in pending
         /\ reader # "stopped"
         /\ server # "up" \/ pipes = "closed"
         /\ \A i \in 1..Len(stdout) : stdout[i][2] = "fits")
            ~> (pc[c] = "returned")

(* A call whose context is done returns. *)
CancelledReturns ==
    \A c \in Calls : (pc[c] # "idle" /\ c \in ended) ~> (pc[c] = "returned")

(* A response on its way to a call in flight, with no frame over maxMessage *)
(* ahead of it, ends that call.  Behind such a frame Run has returned, and  *)
(* neither answers nor fails the calls that wait.                           *)
AnswerArrives ==
    \A c \in Calls :
        (/\ c \in pending
         /\ reader # "stopped"
         /\ \E i \in 1..Len(stdout) :
               /\ stdout[i] = <<c, "fits">>
               /\ \A j \in 1..i : stdout[j][2] = "fits")
            ~> (pc[c] = "returned")

(* Responses are routed safely: nothing blocks or panics the reader, every  *)
(* caller stays reachable, and no entry outlives its call (Peer.pending and *)
(* its capacity-one channels, peer.go:121-157 and :191-218).                *)
RoutingIsSafe == DeliverIsSafe /\ WaiterReachable /\ NoLeak

(* Calls return when they are answered, cancelled or cut off, save those an *)
(* oversize frame left behind.                                              *)
CallsReturn == EndFailsInFlight /\ CancelledReturns /\ AnswerArrives

(* The peer is what CallService promises to the proxy: responses that come  *)
(* late, twice or out of order never become the result of another call, and *)
(* no call returns twice or without a cause (peer.go:121-218).              *)
ResultOf(o) ==
    IF o \in {"refused", "writeError", "closed"} THEN "failed" ELSE o

Service == INSTANCE CallService WITH
    begun <- {c \in Calls : pc[c] # "idle"},
    reached <- asked,
    cancelled <- ended,
    broken <- closed \/ pipes = "closed" \/ server # "up",
    result <- [c \in Calls |-> ResultOf(outcome[c])]

ImplementsCallService == Service!Spec
=============================================================================
