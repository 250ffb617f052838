------------------------------ MODULE McpProofs -----------------------------
(***************************************************************************)
(* What holds of the MCP side for any number of agents, requests and       *)
(* upstreams: of an upstream's peer, with any pipe capacity and any        *)
(* behaviour of the server, and of the proxy, which routes the requests of *)
(* agents to native tools and upstreams.                                   *)
(***************************************************************************)
EXTENDS McpPeer, McpProxy, SequenceTheorems, TLAPS

(* The channel of a call still in pending is fresh: only the reader takes   *)
(* calls out of pending, and it touches their channels only after that.     *)
PendingIsFresh ==
    \A c \in pending : chan[c] = "empty" /\ held # c

(* The reader holds a call only on its way to its channel. *)
HeldWhileDelivering == reader # "delivering" => held = NoCall

(* Before it registers, a call is unknown to the reader. *)
IdleIsUnknown ==
    \A c \in Calls : pc[c] = "idle" =>
        c \notin pending /\ held # c /\ chan[c] = "empty"

(* WaiterReachable, from the moment the call registers. *)
CallerReachable ==
    \A c \in Calls : pc[c] \in {"write", "wait"} /\ reader # "stopped" =>
        c \in pending \/ held = c \/ chan[c] # "empty"

(* The part of TypeOK that routing rests on. *)
RouteTypes ==
    /\ pc \in [Calls -> CallStates]
    /\ pending \subseteq Calls
    /\ chan \in [Calls -> {"empty", "response", "closed"}]
    /\ reader \in {"reading", "delivering", "stopped"}
    /\ held \in Calls \cup {NoCall}

RouteInv ==
    /\ DeliverIsSafe
    /\ PendingIsFresh
    /\ HeldWhileDelivering
    /\ IdleIsUnknown
    /\ NoLeak
    /\ CallerReachable

PeerInv == TypeOK /\ RouteInv

-----------------------------------------------------------------------------

(* The first frame of a non-empty pipe, and what remains. *)
LEMMA HeadTailType ==
    ASSUME NEW S, NEW s \in Seq(S), s # <<>>
    PROVE  /\ Head(s) \in S
           /\ Tail(s) \in Seq(S)
           /\ Len(Tail(s)) <= Len(s)
  <1>1. Len(s) \in Nat /\ Len(Tail(s)) = Len(s) - 1
    BY HeadTailProperties, LenProperties
  <1> QED
    BY <1>1, HeadTailProperties

(* The initial state satisfies the invariant. *)
LEMMA PeerInit == Init => PeerInv
  <1> SUFFICES ASSUME Init PROVE PeerInv
    OBVIOUS
  <1>a. <<>> \in Seq(Calls) /\ <<>> \in Seq(Frames) /\ Len(<<>>) = 0
    BY EmptySeq
  <1>b. 0 <= PipeRoom /\ 0 \in 0..MaxFrames /\ 0 \in 0..MaxOversize
    BY PeerAssumption
  <1>1. TypeOK
    BY <1>a, <1>b DEF Init, TypeOK, CallStates, Outcomes
  <1>2. RouteInv
    BY PeerAssumption DEF Init, RouteInv, DeliverIsSafe, PendingIsFresh,
       HeldWhileDelivering, IdleIsUnknown, NoLeak, CallerReachable
  <1> QED
    BY <1>1, <1>2 DEF PeerInv

(* Every step keeps the variables in their types. *)
LEMMA TypeStep == TypeOK /\ [Next]_vars => TypeOK'
  <1> SUFFICES ASSUME TypeOK, [Next]_vars PROVE TypeOK'
    OBVIOUS
  <1> USE PeerAssumption
  <1> USE DEF callVars, readVars, closeVars, serverVars, TypeOK, CallStates, Outcomes, Frames
  <1>1. ASSUME NEW c \in Calls, Register(c) PROVE TypeOK'
    BY <1>1 DEF Register
  <1>2. ASSUME NEW c \in Calls, Refuse(c) PROVE TypeOK'
    BY <1>2 DEF Refuse, Return
  <1>3. ASSUME NEW c \in Calls, Write(c) PROVE TypeOK'
    <2>1. stdin' \in Seq(Calls) /\ Len(stdin') = Len(stdin) + 1
      BY <1>3, AppendProperties DEF Write
    <2>2. Len(stdin') <= PipeRoom
      BY <1>3, <2>1, LenProperties DEF Write
    <2> QED
      BY <1>3, <2>1, <2>2 DEF Write
  <1>4. ASSUME NEW c \in Calls, WriteFails(c) PROVE TypeOK'
    BY <1>4 DEF WriteFails, Return
  <1>5. ASSUME NEW c \in Calls, CtxDone(c) PROVE TypeOK'
    BY <1>5 DEF CtxDone, Return
  <1>6. ASSUME NEW c \in Calls, Receive(c) PROVE TypeOK'
    BY <1>6 DEF Receive, Return
  <1>7. ASSUME NEW c \in Calls, ReceiveClosed(c) PROVE TypeOK'
    BY <1>7 DEF ReceiveClosed, Return
  <1>8. ASSUME NEW c \in Calls, EndContext(c) PROVE TypeOK'
    BY <1>8 DEF EndContext
  <1>9. ASSUME NEW c \in Calls, ServerAnswers(c) PROVE TypeOK'
    <2>1. <<c, "fits">> \in Frames
      OBVIOUS
    <2>2. stdout' \in Seq(Frames)
      BY <1>9, <2>1, AppendProperties DEF ServerAnswers, Send
    <2> QED
      BY <1>9, <2>2 DEF ServerAnswers, Send
  <1>10. ASSUME NEW c \in Calls, ServerOverflows(c) PROVE TypeOK'
    <2>1. <<c, "oversize">> \in Frames
      OBVIOUS
    <2>2. stdout' \in Seq(Frames)
      BY <1>10, <2>1, AppendProperties DEF ServerOverflows, Send
    <2> QED
      BY <1>10, <2>2 DEF ServerOverflows, Send
  <1>11. CASE ReadResponse
    <2>1. Head(stdout) \in Frames /\ Tail(stdout) \in Seq(Frames)
      BY <1>11, HeadTailType DEF ReadResponse
    <2>2. Head(stdout)[1] \in Calls
      BY <2>1
    <2> QED
      BY <1>11, <2>1, <2>2 DEF ReadResponse
  <1>12. CASE Deliver
    BY <1>12 DEF Deliver
  <1>13. CASE ReadOversize
    <2>1. Tail(stdout) \in Seq(Frames)
      BY <1>13, HeadTailType DEF ReadOversize
    <2> QED
      BY <1>13, <2>1 DEF ReadOversize
  <1>14. CASE ReadEnds
    BY <1>14 DEF ReadEnds
  <1>15. CASE CloseFlag
    BY <1>15 DEF CloseFlag
  <1>16. CASE ClosePipes
    BY <1>16 DEF ClosePipes
  <1>17. CASE Kill
    BY <1>17 DEF Kill
  <1>18. CASE ServerReads
    <2>1. /\ Head(stdin) \in Calls /\ Tail(stdin) \in Seq(Calls)
          /\ Len(Tail(stdin)) <= Len(stdin)
      BY <1>18, HeadTailType DEF ServerReads
    <2>2. Len(Tail(stdin)) <= PipeRoom
      BY <2>1, LenProperties, PeerAssumption
    <2> QED
      BY <1>18, <2>1, <2>2 DEF ServerReads
  <1>19. CASE ServerEnds
    BY <1>19 DEF ServerEnds
  <1>20. CASE UNCHANGED vars
    BY <1>20 DEF vars
  <1> HIDE DEF callVars, readVars, closeVars, serverVars, TypeOK, CallStates, Outcomes, Frames
  <1> QED
    BY <1>1, <1>2, <1>3, <1>4, <1>5, <1>6, <1>7, <1>8, <1>9, <1>10,
       <1>11, <1>12, <1>13, <1>14, <1>15, <1>16, <1>17, <1>18, <1>19,
       <1>20
       DEF Next, CallStep, ReaderStep

(* Every step keeps calls, their channels and the reader in agreement. *)
LEMMA RouteStep == TypeOK /\ RouteInv /\ [Next]_vars => RouteInv'
  <1> SUFFICES ASSUME TypeOK, RouteInv, [Next]_vars PROVE RouteInv'
    OBVIOUS
  <1>0. RouteTypes
    BY DEF TypeOK, RouteTypes
  <1> USE <1>0, PeerAssumption
  <1> USE DEF callVars, readVars, closeVars, serverVars, RouteTypes, RouteInv, DeliverIsSafe, PendingIsFresh,
          HeldWhileDelivering, IdleIsUnknown, NoLeak, CallerReachable
  <1>1. ASSUME NEW c \in Calls, Register(c) PROVE RouteInv'
    BY <1>1 DEF Register
  <1>2. ASSUME NEW c \in Calls, Refuse(c) PROVE RouteInv'
    BY <1>2 DEF Refuse, Return
  <1>3. ASSUME NEW c \in Calls, Write(c) PROVE RouteInv'
    BY <1>3 DEF Write
  <1>4. ASSUME NEW c \in Calls, WriteFails(c) PROVE RouteInv'
    BY <1>4 DEF WriteFails, Return
  <1>5. ASSUME NEW c \in Calls, CtxDone(c) PROVE RouteInv'
    BY <1>5 DEF CtxDone, Return
  <1>6. ASSUME NEW c \in Calls, Receive(c) PROVE RouteInv'
    BY <1>6 DEF Receive, Return
  <1>7. ASSUME NEW c \in Calls, ReceiveClosed(c) PROVE RouteInv'
    BY <1>7 DEF ReceiveClosed, Return
  <1>8. ASSUME NEW c \in Calls, EndContext(c) PROVE RouteInv'
    BY <1>8 DEF EndContext
  <1>9. ASSUME NEW c \in Calls, ServerAnswers(c) PROVE RouteInv'
    BY <1>9 DEF ServerAnswers, Send
  <1>10. ASSUME NEW c \in Calls, ServerOverflows(c) PROVE RouteInv'
    BY <1>10 DEF ServerOverflows, Send
  <1>11. CASE ReadResponse
    BY <1>11 DEF ReadResponse
  <1>12. CASE Deliver
    BY <1>12 DEF Deliver
  <1>13. CASE ReadOversize
    BY <1>13 DEF ReadOversize
  <1>14. CASE ReadEnds
    BY <1>14 DEF ReadEnds
  <1>15. CASE CloseFlag
    BY <1>15 DEF CloseFlag
  <1>16. CASE ClosePipes
    BY <1>16 DEF ClosePipes
  <1>17. CASE Kill
    BY <1>17 DEF Kill
  <1>18. CASE ServerReads
    BY <1>18 DEF ServerReads
  <1>19. CASE ServerEnds
    BY <1>19 DEF ServerEnds
  <1>20. CASE UNCHANGED vars
    BY <1>20 DEF vars
  <1> HIDE DEF callVars, readVars, closeVars, serverVars, RouteTypes, RouteInv, DeliverIsSafe, PendingIsFresh,
          HeldWhileDelivering, IdleIsUnknown, NoLeak, CallerReachable
  <1> QED
    BY <1>1, <1>2, <1>3, <1>4, <1>5, <1>6, <1>7, <1>8, <1>9, <1>10,
       <1>11, <1>12, <1>13, <1>14, <1>15, <1>16, <1>17, <1>18, <1>19,
       <1>20
       DEF Next, CallStep, ReaderStep

-----------------------------------------------------------------------------

(* The invariant holds along every behaviour. *)
THEOREM PeerInvariant == Spec => []PeerInv
  <1>1. Init => PeerInv
    BY PeerInit
  <1>2. PeerInv /\ [Next]_vars => PeerInv'
    BY TypeStep, RouteStep DEF PeerInv
  <1> QED
    BY <1>1, <1>2, PTL DEF Spec

(* Types; in particular no write leaves more than PipeRoom requests queued. *)
THEOREM PeerTypes == Spec => []TypeOK
  <1>1. PeerInv => TypeOK
    BY DEF PeerInv
  <1> QED
    BY <1>1, PeerInvariant, PTL

(* However often and in whatever order the server answers, the reader never *)
(* blocks on a channel and never sends to a closed one; while it runs, no   *)
(* caller is out of its reach; and calls that returned leave no entry.      *)
THEOREM PeerRoutingIsSafe == Spec => []RoutingIsSafe
  <1>1. PeerInv => DeliverIsSafe /\ NoLeak
    BY DEF PeerInv, RouteInv
  <1>2. PeerInv => WaiterReachable
    BY DEF PeerInv, RouteInv, CallerReachable, WaiterReachable
  <1>3. PeerInv => RoutingIsSafe
    BY <1>1, <1>2 DEF RoutingIsSafe
  <1> QED
    BY <1>3, PeerInvariant, PTL

-----------------------------------------------------------------------------
(* The peer implements CallService. *)

Begun == {c \in Calls : pc[c] # "idle"}

Broken == closed \/ pipes = "closed" \/ server # "up"

(* Whatever is under way between a caller and the server belongs to a call  *)
(* that was made, and an answer to one the server has read; a channel is    *)
(* closed only once the connection is; a call has its outcome on returning. *)
AnswersAreOwn ==
    /\ stdin \in Seq(Begun)
    /\ asked \subseteq Begun
    /\ stdout \in Seq(asked \X {"fits", "oversize"})
    /\ reader = "delivering" => held \in asked
    /\ \A c \in Calls : chan[c] = "response" => c \in asked
    /\ \A c \in Calls : chan[c] = "closed" => Broken
    /\ \A c \in Calls : outcome[c] = "none" <=> pc[c] # "returned"

(* Nothing is under way at first. *)
LEMMA OwnInit == Init => AnswersAreOwn
  <1> SUFFICES ASSUME Init PROVE AnswersAreOwn
    OBVIOUS
  <1>1. <<>> \in Seq(Begun) /\ <<>> \in Seq(asked \X {"fits", "oversize"})
    BY EmptySeq
  <1> QED
    BY <1>1, PeerAssumption DEF Init, AnswersAreOwn

(* Every step keeps answers with the calls they belong to. *)
LEMMA OwnStep == PeerInv /\ AnswersAreOwn /\ [Next]_vars => AnswersAreOwn'
  <1> SUFFICES ASSUME PeerInv, AnswersAreOwn, [Next]_vars
               PROVE  AnswersAreOwn'
    OBVIOUS
  <1>0. RouteTypes /\ outcome \in [Calls -> Outcomes]
    BY DEF PeerInv, TypeOK, RouteTypes
  <1> DEFINE Sizes == {"fits", "oversize"}
  <1> USE <1>0, PeerAssumption
  <1> USE DEF callVars, readVars, closeVars, serverVars, RouteTypes,
          Outcomes, CallStates, AnswersAreOwn, Broken
  <1>1. ASSUME NEW c \in Calls, Register(c) PROVE AnswersAreOwn'
    <2>1. Begun \subseteq Begun'
      BY <1>1 DEF Register, Begun
    <2>2. stdin' \in Seq(Begun')
      BY <1>1, <2>1, SeqMonotonic DEF Register
    <2> QED
      BY <1>1, <2>1, <2>2 DEF Register
  <1>2. ASSUME NEW c \in Calls, NEW o \in Outcomes \ {"none"}, Return(c, o),
               UNCHANGED <<chan, closed, pipes, readVars, stdin, stdout,
                           server, asked>>
        PROVE  AnswersAreOwn'
    <2>1. Begun \subseteq Begun'
      BY <1>2 DEF Return, Begun
    <2>2. stdin' \in Seq(Begun')
      BY <1>2, <2>1, SeqMonotonic
    <2> QED
      BY <1>2, <2>1, <2>2 DEF Return
  <1>3. ASSUME NEW c \in Calls, Refuse(c) PROVE AnswersAreOwn'
    BY <1>2, <1>3 DEF Refuse
  <1>4. ASSUME NEW c \in Calls, Write(c) PROVE AnswersAreOwn'
    <2>1. Begun' = Begun /\ c \in Begun
      BY <1>4 DEF Write, Begun
    <2>2. stdin' \in Seq(Begun')
      BY <1>4, <2>1, AppendProperties DEF Write
    <2> QED
      BY <1>4, <2>1, <2>2 DEF Write
  <1>5. ASSUME NEW c \in Calls, WriteFails(c) PROVE AnswersAreOwn'
    BY <1>2, <1>5 DEF WriteFails
  <1>6. ASSUME NEW c \in Calls, CtxDone(c) PROVE AnswersAreOwn'
    BY <1>2, <1>6 DEF CtxDone
  <1>7. ASSUME NEW c \in Calls, Receive(c) PROVE AnswersAreOwn'
    <2>1. Begun \subseteq Begun'
      BY <1>7 DEF Receive, Return, Begun
    <2>2. stdin' \in Seq(Begun')
      BY <1>7, <2>1, SeqMonotonic DEF Receive
    <2> QED
      BY <1>7, <2>1, <2>2 DEF Receive, Return
  <1>8. ASSUME NEW c \in Calls, ReceiveClosed(c) PROVE AnswersAreOwn'
    BY <1>2, <1>8 DEF ReceiveClosed
  <1>9. ASSUME Begun' = Begun, UNCHANGED <<pc, outcome, stdin, asked, stdout>>,
               reader' = "delivering" => held' \in asked,
               \A c \in Calls : chan'[c] = "response" => c \in asked,
               \A c \in Calls : chan'[c] = "closed" => Broken'
        PROVE  AnswersAreOwn'
    BY <1>9
  <1>10. ASSUME NEW c \in Calls, EndContext(c) PROVE AnswersAreOwn'
    BY <1>10, <1>9 DEF EndContext, Begun
  <1>11. ASSUME NEW c \in Calls, NEW size \in Sizes, Send(c, size)
         PROVE  AnswersAreOwn'
    <2>1. Begun' = Begun
      BY <1>11 DEF Send, Begun
    <2>2. stdout' \in Seq(asked \X Sizes)
      BY <1>11, AppendProperties DEF Send
    <2> QED
      BY <1>11, <2>1, <2>2 DEF Send
  <1>12. ASSUME NEW c \in Calls, ServerAnswers(c) PROVE AnswersAreOwn'
    BY <1>11, <1>12 DEF ServerAnswers
  <1>13. ASSUME NEW c \in Calls, ServerOverflows(c) PROVE AnswersAreOwn'
    BY <1>11, <1>13 DEF ServerOverflows
  <1>14. ASSUME stdout # <<>>, stdout' = Tail(stdout),
                reader' = "delivering" => held' = Head(stdout)[1],
                UNCHANGED <<callVars, chan, closeVars, stdin, serverVars>>
         PROVE  AnswersAreOwn'
    <2>1. Begun' = Begun
      BY <1>14 DEF Begun
    <2>2. /\ stdout' \in Seq(asked \X Sizes)
          /\ Head(stdout) \in asked \X Sizes
      BY <1>14, HeadTailType
    <2> QED
      BY <1>14, <2>1, <2>2
  <1>15. CASE ReadResponse
    BY <1>14, <1>15 DEF ReadResponse
  <1>16. CASE ReadOversize
    BY <1>14, <1>16 DEF ReadOversize
  <1>17. CASE Deliver
    BY <1>17, <1>9 DEF Deliver, Begun
  <1>18. CASE ReadEnds
    BY <1>18, <1>9 DEF ReadEnds, Begun
  <1>19. CASE CloseFlag
    BY <1>19, <1>9 DEF CloseFlag, Begun
  <1>20. CASE ClosePipes
    BY <1>20, <1>9 DEF ClosePipes, Begun
  <1>21. CASE Kill
    BY <1>21, <1>9 DEF Kill, Begun
  <1>22. CASE ServerEnds
    BY <1>22, <1>9 DEF ServerEnds, Begun
  <1>23. CASE ServerReads
    <2>1. Begun' = Begun
      BY <1>23 DEF ServerReads, Begun
    <2>2. Head(stdin) \in Begun /\ stdin' \in Seq(Begun)
      BY <1>23, HeadTailType DEF ServerReads
    <2>3. asked' \subseteq Begun' /\ asked \subseteq asked'
      BY <1>23, <2>1, <2>2 DEF ServerReads
    <2>4. asked \X Sizes \subseteq asked' \X Sizes
      BY <2>3
    <2>5. stdout' \in Seq(asked' \X Sizes)
      BY <1>23, <2>4, SeqMonotonic DEF ServerReads
    <2> QED
      BY <1>23, <2>1, <2>2, <2>3, <2>5 DEF ServerReads
  <1>24. CASE UNCHANGED vars
    BY <1>24, <1>9 DEF vars, Begun
  <1> HIDE DEF callVars, readVars, closeVars, serverVars, RouteTypes,
          Outcomes, CallStates, AnswersAreOwn, Broken
  <1> QED
    BY <1>1, <1>3, <1>4, <1>5, <1>6, <1>7, <1>8, <1>10, <1>12, <1>13,
       <1>15, <1>16, <1>17, <1>18, <1>19, <1>20, <1>21, <1>22, <1>23,
       <1>24
       DEF Next, CallStep, ReaderStep

(* The initial state is one of CallService. *)
LEMMA ServiceInit == Init => Service!Init
  BY DEF Init, Service!Init, ResultOf

(* Every step is one of CallService, or invisible to it. *)
LEMMA ServiceStep ==
    PeerInv /\ AnswersAreOwn /\ [Next]_vars => [Service!Next]_(Service!vars)
  <1> SUFFICES ASSUME PeerInv, AnswersAreOwn, [Next]_vars
               PROVE  Service!Next \/ UNCHANGED Service!vars
    OBVIOUS
  <1>0. RouteTypes /\ outcome \in [Calls -> Outcomes]
    BY DEF PeerInv, TypeOK, RouteTypes
  <1> DEFINE Result(out) == [c \in Calls |-> ResultOf(out[c])]
  <1> USE <1>0, PeerAssumption
  <1> USE DEF callVars, readVars, closeVars, serverVars, RouteTypes
  <1>1. ASSUME UNCHANGED <<outcome, asked, ended>>, Begun' = Begun,
               Broken' = Broken
        PROVE  UNCHANGED Service!vars
    BY <1>1 DEF Service!vars, Begun, Broken
  <1>2. ASSUME UNCHANGED <<outcome, asked, ended>>, Begun' = Begun, Broken'
        PROVE  Service!Break
    BY <1>2 DEF Service!Break, Begun, Broken
  <1>3. ASSUME NEW c \in Calls, NEW o \in Outcomes \ {"none"}, Return(c, o),
               outcome[c] = "none"
        PROVE  /\ Begun' = Begun \cup {c}
               /\ Result(outcome)[c] = "none"
               /\ Result(outcome') = [Result(outcome) EXCEPT ![c] = ResultOf(o)]
    BY <1>3 DEF Return, Begun, ResultOf
  <1>4. ASSUME NEW c \in Calls, Register(c) PROVE Service!Begin(c)
    BY <1>4 DEF Register, Service!Begin
  <1>5. ASSUME NEW c \in Calls, NEW o \in {"refused", "writeError", "closed"},
               Return(c, o), outcome[c] = "none", Broken,
               UNCHANGED <<asked, ended, closed, pipes, server>>
        PROVE  Service!Return(c)
    BY <1>5, <1>3 DEF Service!Return, Broken, ResultOf, Outcomes, Begun
  <1>6. ASSUME NEW c \in Calls, Refuse(c) PROVE Service!Return(c)
    BY <1>6, <1>5 DEF Refuse, Broken, AnswersAreOwn
  <1>7. ASSUME NEW c \in Calls, Write(c) PROVE UNCHANGED Service!vars
    BY <1>7, <1>1 DEF Write, Begun, Broken
  <1>8. ASSUME NEW c \in Calls, WriteFails(c) PROVE Service!Return(c)
    BY <1>8, <1>5 DEF WriteFails, Broken, AnswersAreOwn
  <1>9. ASSUME NEW c \in Calls, CtxDone(c) PROVE Service!Return(c)
    <2>1. outcome[c] = "none" /\ c \in Begun
      BY <1>9 DEF CtxDone, AnswersAreOwn, Begun
    <2> QED
      BY <1>9, <2>1, <1>3
         DEF CtxDone, Service!Return, ResultOf, Outcomes, Begun
  <1>10. ASSUME NEW c \in Calls, Receive(c) PROVE Service!Return(c)
    <2>1. outcome[c] = "none" /\ c \in Begun /\ c \in asked
      BY <1>10 DEF Receive, AnswersAreOwn, Begun
    <2> QED
      BY <1>10, <2>1, <1>3
         DEF Receive, Service!Return, ResultOf, Outcomes, Begun
  <1>11. ASSUME NEW c \in Calls, ReceiveClosed(c) PROVE Service!Return(c)
    BY <1>11, <1>5 DEF ReceiveClosed, AnswersAreOwn
  <1>12. ASSUME NEW c \in Calls, EndContext(c) PROVE Service!Cancel(c)
    <2>1. outcome[c] = "none"
      BY <1>12 DEF EndContext, AnswersAreOwn
    <2> QED
      BY <1>12, <2>1 DEF EndContext, Service!Cancel, ResultOf
  <1>13. ASSUME NEW c \in Calls, ServerAnswers(c) \/ ServerOverflows(c)
         PROVE  UNCHANGED Service!vars
    BY <1>13, <1>1 DEF ServerAnswers, ServerOverflows, Send, Begun, Broken
  <1>14. CASE ReaderStep
    BY <1>14, <1>1 DEF ReaderStep, ReadResponse, Deliver, ReadOversize,
       ReadEnds, Begun, Broken
  <1>15. ASSUME CloseFlag PROVE Service!Break
    BY <1>15, <1>2 DEF CloseFlag, Begun, Broken
  <1>16. ASSUME ClosePipes \/ Kill \/ ServerEnds PROVE Service!Break
    BY <1>16, <1>2 DEF ClosePipes, Kill, ServerEnds, Begun, Broken
  <1>17. CASE ServerReads
    <2>1. Head(stdin) \in Begun
      BY <1>17, HeadTailType DEF ServerReads, AnswersAreOwn
    <2>2. Service!Reach(Head(stdin)) /\ Head(stdin) \in Calls
      BY <1>17, <2>1 DEF ServerReads, Service!Reach, Begun
    <2> QED
      BY <2>2 DEF Service!Next
  <1>18. CASE UNCHANGED vars
    BY <1>18, <1>1 DEF vars, Begun, Broken
  <1> HIDE DEF callVars, readVars, closeVars, serverVars, RouteTypes
  <1> QED
    BY <1>4, <1>6, <1>7, <1>8, <1>9, <1>10, <1>11, <1>12, <1>13, <1>14,
       <1>15, <1>16, <1>17, <1>18
       DEF Next, CallStep, Service!Next

(* The peer implements CallService: a response reaches only the call the    *)
(* server read, no call returns twice, and each failure and cancellation    *)
(* has its cause (peer.go:121-218), for every number of calls, every pipe   *)
(* and every server.                                                        *)
THEOREM PeerImplementsCallService == Spec => ImplementsCallService
  <1>1. Init => PeerInv /\ AnswersAreOwn /\ Service!Init
    BY PeerInit, OwnInit, ServiceInit
  <1>2. PeerInv /\ AnswersAreOwn /\ [Next]_vars
            => PeerInv' /\ AnswersAreOwn' /\ [Service!Next]_(Service!vars)
    BY TypeStep, RouteStep, OwnStep, ServiceStep DEF PeerInv
  <1> QED
    BY <1>1, <1>2, PTL DEF Spec, ImplementsCallService, Service!Spec

-----------------------------------------------------------------------------
(* The proxy *)

(* A call that ran to its end, on its way to its answer or answered. *)
Ended(r) == \/ at[r] \in {"announce", "capture"}
            \/ /\ at[r] \in {"reply", "done"}
               /\ result[r] \in {"ok", "image", "error"}
               /\ Asks[r] # List

OwnerIsRight(r) == IF owner[r] = Nobody THEN Asks[r] \in Native
                   ELSE Asks[r] \in Advertised[owner[r]] \ Native

IsRecorded(r) ==
    \E i \in CallsLogged(r) :
        logged[r][i] = [session |-> "agent", upstream |-> owner[r],
                        error |-> result[r] = "error"]

(* The owner is chosen before the call, the call logged after it and before *)
(* its image, and answered with its result last.                            *)
RequestInv(r) ==
    /\ at[r] \in {"idle", "sent", "accepted", "native"} => owner[r] = Nobody
    /\ at[r] = "native" => Asks[r] \in Native
    /\ at[r] \in {"calling", "noting", "finish"} \/ Ended(r) => OwnerIsRight(r)
    /\ at[r] \in {"idle", "sent", "accepted", "native", "calling", "noting",
                 "finish"}
          => CallsLogged(r) = {}
    /\ \A i, j \in CallsLogged(r) : i = j
    /\ Ended(r) => IsRecorded(r)
    /\ at[r] \in {"reply", "done"} /\ result[r] = "image" => stored[r] # "none"
    /\ answered[r] # "none" => at[r] = "done" /\ answered[r] = result[r]

(* While the proxy serves, no tool an agent was told of goes away. *)
ListedStays == phase = "serving" => \A a \in Agents : listed[a] \subseteq AllTools

ProxyInv == ProxyTypeOK /\ ListedStays /\ \A r \in Requests : RequestInv(r)

LoggedEvents == [session : {"agent", "default"},
                 upstream : Upstreams \cup {Nobody}, error : BOOLEAN]

(* An event behind a log. *)
LEMMA LogGrows ==
    ASSUME NEW S, NEW q \in Seq(S), NEW e \in S
    PROVE  /\ Append(q, e) \in Seq(S)
           /\ Len(q) + 1 \in DOMAIN Append(q, e)
           /\ Append(q, e)[Len(q) + 1] = e
           /\ \A i \in DOMAIN Append(q, e) : i # Len(q) + 1 =>
                  i \in DOMAIN q /\ Append(q, e)[i] = q[i]
           /\ \A i \in DOMAIN q : i \in DOMAIN Append(q, e)
                                  /\ Append(q, e)[i] = q[i]
  OBVIOUS

LEMMA ProxyInvInit ==
    ASSUME ProxyInit
    PROVE  ProxyInv
  <1>1. ProxyTypeOK
    BY DEF ProxyInit, ProxyTypeOK
  <1>2. ListedStays
    BY DEF ProxyInit, ListedStays
  <1>3. ASSUME NEW r \in Requests PROVE RequestInv(r)
    <2>1. CallsLogged(r) = {}
      BY DEF ProxyInit, CallsLogged
    <2>. QED  BY <2>1 DEF ProxyInit, RequestInv, Ended
  <1>. QED  BY <1>1, <1>2, <1>3 DEF ProxyInv

LEMMA ProxyTypeStep ==
    ASSUME ProxyTypeOK, [ProxyNext]_proxyVars
    PROVE  ProxyTypeOK'
  <1>. USE DEF ProxyTypeOK, connVars, requestVars, upVars,
               envVars, Goto
  <1>1. ASSUME NEW a \in Agents,
               \/ Connect(a) \/ EndInput(a) \/ BridgeDies(a)
               \/ ConnStep(a)
        PROVE  ProxyTypeOK'
    <2>1. CASE Connect(a)
      BY <2>1 DEF Connect
    <2>2. CASE EndInput(a)
      BY <2>2 DEF EndInput
    <2>3. CASE BridgeDies(a)
      BY <2>3 DEF BridgeDies
    <2>4. CASE HalfClose(a)
      BY <2>4 DEF HalfClose
    <2>5. CASE BridgeExits(a)
      BY <2>5 DEF BridgeExits
    <2>6. CASE InputEnds(a)
      BY <2>6 DEF InputEnds
    <2>7. CASE ClosePeer(a)
      BY <2>7 DEF ClosePeer
    <2>. QED  BY <1>1, <2>1, <2>2, <2>3, <2>4, <2>5, <2>6, <2>7
       DEF ConnStep
  <1>2. ASSUME NEW r \in Requests, SendRequest(r) \/ Accept(r)
        PROVE  ProxyTypeOK'
    <2>1. CASE SendRequest(r)
      BY <2>1 DEF SendRequest
    <2>2. CASE Accept(r)
      BY <2>2 DEF Accept
    <2>. QED  BY <1>2, <2>1, <2>2
  <1>3. ASSUME NEW r \in Requests, ListTools(r) PROVE ProxyTypeOK'
    <2>1. AllTools \subseteq
              Native \cup UNION {Advertised[u] : u \in Upstreams}
      BY DEF AllTools
    <2>2. listed' \in [Agents -> SUBSET (Native \cup
                             UNION {Advertised[u] : u \in Upstreams})]
      BY <1>3, <2>1 DEF ListTools
    <2>. QED  BY <1>3, <2>2 DEF ListTools
  <1>4. ASSUME NEW r \in Requests, Dispatch(r) PROVE ProxyTypeOK'
    <2>1. /\ UNCHANGED <<bridge, conn, logged, stored, answered, ups, closing,
                         servers, listed, app, phase>>
          /\ \E to \in {"native", "calling", "reply"} : at' = [at EXCEPT ![r] = to]
      BY <1>4 DEF Dispatch
    <2>2. owner' \in [Requests -> Upstreams \cup {Nobody}]
      <3>1. \/ owner' = owner
            \/ \E u \in Upstreams : owner' = [owner EXCEPT ![r] = u]
        <4>1. CASE UNCHANGED <<owner, result>>
          BY <4>1
        <4>2. CASE \E u \in Owners(Asks[r]) : owner' = [owner EXCEPT ![r] = u]
          BY <4>2 DEF Owners
        <4>. QED  BY ONLY <1>4, <4>1, <4>2 DEF Dispatch
      <3>2. owner \in [Requests -> Upstreams \cup {Nobody}]
        OBVIOUS
      <3>. QED  BY ONLY <3>1, <3>2
    <2>3. result' \in [Requests -> {"none", "ok", "image", "error", "unknown",
                                    "panic"}]
      BY <1>4 DEF Dispatch
    <2>4. at' \in [Requests -> {"idle", "sent", "accepted", "native", "calling",
                            "noting", "finish", "announce", "capture", "reply",
                            "done", "lost"}]
      BY <2>1
    <2>. QED  BY <2>1, <2>2, <2>3, <2>4
  <1>5. ASSUME NEW r \in Requests, RunNative(r) PROVE ProxyTypeOK'
    <2>1. \A res \in {"ok", "error"} :
              Event("default", r, res) \in LoggedEvents
      BY DEF Event, LoggedEvents
    <2>2. logged[r] \in Seq(LoggedEvents)
      BY DEF LoggedEvents
    <2>3. logged' = logged \/ \E e \in LoggedEvents :
              logged' = [logged EXCEPT ![r] = Append(logged[r], e)]
      BY <1>5, <2>1 DEF RunNative
    <2>4. logged' \in [Requests -> Seq(LoggedEvents)]
      <3>1. \A e \in LoggedEvents : Append(logged[r], e) \in Seq(LoggedEvents)
        BY <2>2, LogGrows
      <3>2. logged \in [Requests -> Seq(LoggedEvents)]
        BY DEF LoggedEvents
      <3>. HIDE DEF ProxyTypeOK
      <3>. QED  BY <2>3, <3>1, <3>2
    <2>5. /\ at' \in [Requests -> {"idle", "sent", "accepted", "native", "calling",
                            "noting", "finish", "announce", "capture", "reply",
                            "done", "lost"}]
          /\ result' \in [Requests -> {"none", "ok", "image", "error", "unknown",
                                "panic"}]
          /\ UNCHANGED <<bridge, conn, owner, stored, answered, ups, closing,
                         servers, listed, app, phase>>
      <3>1. PICK res \in {"ok", "error", "panic"}, to \in {"noting", "finish", "reply"} :
                /\ result' = [result EXCEPT ![r] = res]
                /\ at' = [at EXCEPT ![r] = to]
        BY <1>5 DEF RunNative
      <3>. QED  BY <1>5, <3>1 DEF RunNative
    <2>. QED  BY <2>4, <2>5 DEF LoggedEvents
  <1>6. ASSUME NEW r \in Requests,
               UpstreamAnswers(r) \/ CallFails(r) \/ NoteAnnounced(r)
        PROVE  ProxyTypeOK'
    <2>1. CASE UpstreamAnswers(r)
      <3>1. PICK res \in {"ok", "image", "error"} :
                result' = [result EXCEPT ![r] = res]
        BY <2>1 DEF UpstreamAnswers
      <3>. QED  BY <2>1, <3>1 DEF UpstreamAnswers
    <2>2. CASE CallFails(r)
      BY <2>2 DEF CallFails
    <2>3. CASE NoteAnnounced(r)
      BY <2>3 DEF NoteAnnounced
    <2>. QED  BY <1>6, <2>1, <2>2, <2>3
  <1>7. ASSUME NEW r \in Requests, Record(r) PROVE ProxyTypeOK'
    <2>1. Event("agent", r, result[r]) \in LoggedEvents
      BY DEF Event, LoggedEvents
    <2>2. logged[r] \in Seq(LoggedEvents)
      BY DEF LoggedEvents
    <2>3. logged' = [logged EXCEPT ![r] =
                         Append(logged[r], Event("agent", r, result[r]))]
      BY <1>7 DEF Record
    <2>4. logged' \in [Requests -> Seq(LoggedEvents)]
      BY <2>1, <2>2, <2>3, LogGrows DEF LoggedEvents
    <2>. QED  BY <1>7, <2>4 DEF Record, LoggedEvents
  <1>8. ASSUME NEW r \in Requests,
               Announce(r) \/ Capture(r) \/ Reply(r)
        PROVE  ProxyTypeOK'
    <2>1. CASE Announce(r)
      BY <2>1 DEF Announce
    <2>2. CASE Capture(r)
      BY <2>2 DEF Capture
    <2>3. CASE Reply(r)
      BY <2>3 DEF Reply
    <2>. QED  BY <1>8, <2>1, <2>2, <2>3
  <1>9. ASSUME NEW u \in Upstreams,
               \/ AddUpstream(u) \/ ServerFails(u)
               \/ CloseUpstream(u)
        PROVE  ProxyTypeOK'
    <2>1. CASE AddUpstream(u)
      BY <2>1 DEF AddUpstream
    <2>2. CASE ServerFails(u)
      <3>1. PICK how \in {"mute", "dead"} :
                servers' = [servers EXCEPT ![u] = how]
        BY <2>2 DEF ServerFails
      <3>. QED  BY <2>2, <3>1 DEF ServerFails
    <2>3. CASE CloseUpstream(u)
      BY <2>3 DEF CloseUpstream
    <2>. QED  BY <1>9, <2>1, <2>2, <2>3
  <1>10. ASSUME \/ AppStalls \/ AppResumes \/ Stop
                \/ CloseUpstreams \/ Exit
         PROVE  ProxyTypeOK'
    <2>1. CASE AppStalls
      BY <2>1 DEF AppStalls
    <2>2. CASE AppResumes
      BY <2>2 DEF AppResumes
    <2>3. CASE Stop
      BY <2>3 DEF Stop
    <2>4. CASE CloseUpstreams
      BY <2>4 DEF CloseUpstreams
    <2>5. CASE Exit
      BY <2>5 DEF Exit
    <2>. QED  BY <1>10, <2>1, <2>2, <2>3, <2>4, <2>5
  <1>11. CASE UNCHANGED proxyVars
    BY <1>11 DEF proxyVars
  <1>. HIDE DEF ProxyTypeOK, connVars, requestVars, upVars,
               envVars, Goto
  <1>. QED
    BY <1>1, <1>2, <1>3, <1>4, <1>5, <1>6, <1>7, <1>8, <1>9, <1>10, <1>11
       DEF ProxyNext, RequestStep, MainStep

(* A request that is left alone, and the log of one that is not. *)
LEMMA RequestSame ==
    ASSUME NEW r, RequestInv(r), at'[r] = at[r], owner'[r] = owner[r],
           result'[r] = result[r], logged'[r] = logged[r],
           stored'[r] = stored[r], answered'[r] = answered[r]
    PROVE  RequestInv(r)'
  BY DEF RequestInv, Ended, OwnerIsRight, IsRecorded, CallsLogged

LEMMA LogSame ==
    ASSUME NEW r, logged'[r] = logged[r]
    PROVE  CallsLogged(r)' = CallsLogged(r)
  BY DEF CallsLogged

LEMMA LogOfOther ==
    ASSUME NEW r \in Requests, NEW e \in LoggedEvents,
           logged[r] \in Seq(LoggedEvents), logged'[r] = Append(logged[r], e),
           e.session # "agent"
    PROVE  CallsLogged(r)' = CallsLogged(r)
  <1>1. PICK q \in Seq(LoggedEvents), more \in Seq(LoggedEvents) :
            q = logged[r] /\ more = Append(q, e)
    BY LogGrows
  <1>2. {i \in DOMAIN more : more[i].session = "agent"} =
            {i \in DOMAIN q : q[i].session = "agent"}
    BY <1>1, LogGrows
  <1>. QED  BY <1>1, <1>2 DEF CallsLogged

LEMMA LogOfCall ==
    ASSUME NEW r \in Requests, NEW e \in LoggedEvents,
           logged[r] \in Seq(LoggedEvents), logged'[r] = Append(logged[r], e),
           e.session = "agent", CallsLogged(r) = {}
    PROVE  \E k : CallsLogged(r)' = {k} /\ logged'[r][k] = e
  <1>0. PICK q \in Seq(LoggedEvents) : q = logged[r]
    OBVIOUS
  <1>a. Append(q, e) \in Seq(LoggedEvents) /\ Len(q) + 1 \in Nat
    OBVIOUS
  <1>1. PICK more \in Seq(LoggedEvents), k \in Nat :
            q = logged[r] /\ more = Append(q, e) /\ k = Len(q) + 1
    BY <1>0, <1>a
  <1>2. {i \in DOMAIN q : q[i].session = "agent"} = {}
    BY <1>1 DEF CallsLogged
  <1>3. /\ k \in DOMAIN more /\ more[k] = e
        /\ \A i \in DOMAIN more : i # k => i \in DOMAIN q /\ more[i] = q[i]
    BY <1>1, LogGrows
  <1>4. {i \in DOMAIN more : more[i].session = "agent"} = {k}
    BY <1>2, <1>3
  <1>. QED  BY <1>1, <1>3, <1>4 DEF CallsLogged

(* A request is served by steps of its own. *)
LEMMA ProxyRequestStep ==
    ASSUME ProxyTypeOK,
           NEW r \in Requests, RequestInv(r),
           \/ SendRequest(r) \/ UpstreamAnswers(r) \/ RequestStep(r)
    PROVE  RequestInv(r)'
  <1>. USE DEF ProxyTypeOK, Goto
  <1>1. CASE SendRequest(r) \/ Accept(r)
    BY <1>1, LogSame DEF SendRequest, Accept, RequestInv, Ended
  <1>2. CASE ListTools(r)
    BY <1>2, LogSame DEF ListTools, RequestInv, Ended
  <1>3. CASE Dispatch(r)
    <2>1. /\ at[r] = "accepted"
          /\ UNCHANGED <<logged, stored, answered>>
          /\ CallsLogged(r)' = CallsLogged(r)
      BY <1>3, LogSame DEF Dispatch, connVars
    <2>2. CASE Asks[r] \in Native /\ Goto(r, "native") /\ UNCHANGED <<owner, result>>
      BY <2>1, <2>2 DEF RequestInv, Ended
    <2>3. ASSUME Asks[r] \notin Native, NEW u \in Owners(Asks[r]),
                 owner' = [owner EXCEPT ![r] = u], Goto(r, "calling"),
                 UNCHANGED result
          PROVE  RequestInv(r)'
      <3>1. u \in Upstreams /\ u # Nobody /\ Asks[r] \in Advertised[u] \ Native
        BY <2>3, ProxyAssumption DEF Owners
      <3>2. OwnerIsRight(r)'
        BY <2>3, <3>1 DEF OwnerIsRight
      <3>. QED  BY <2>1, <2>3, <3>2 DEF RequestInv, Ended
    <2>4. CASE /\ result' = [result EXCEPT ![r] = "unknown"]
               /\ Goto(r, "reply") /\ UNCHANGED owner
      BY <2>1, <2>4 DEF RequestInv, Ended
    <2>. QED  BY <1>3, <2>2, <2>3, <2>4 DEF Dispatch
  <1>4. CASE RunNative(r)
    <2>1. /\ at[r] = "native" /\ owner[r] = Nobody /\ Asks[r] \in Native
          /\ UNCHANGED <<owner, stored, answered>>
          /\ \/ at'[r] \in {"noting", "finish"}
             \/ at'[r] = "reply" /\ result'[r] = "panic"
      BY <1>4 DEF RunNative, RequestInv
    <2>2. CallsLogged(r)' = CallsLogged(r)
      <3>1. \/ logged'[r] = logged[r]
            \/ \E res \in {"ok", "error"} :
                 logged'[r] = Append(logged[r], Event("default", r, res))
        BY <1>4 DEF RunNative
      <3>2. \A res \in {"ok", "error"} :
                /\ Event("default", r, res) \in LoggedEvents
                /\ Event("default", r, res).session # "agent"
        BY DEF Event, LoggedEvents
      <3>3. logged[r] \in Seq(LoggedEvents)
        BY DEF LoggedEvents
      <3>. QED  BY <3>1, <3>2, <3>3, LogSame, LogOfOther
    <2>3. OwnerIsRight(r)'
      BY <2>1 DEF OwnerIsRight
    <2>. QED  BY <2>1, <2>2, <2>3 DEF RequestInv, Ended
  <1>5. CASE UpstreamAnswers(r) \/ CallFails(r) \/ NoteAnnounced(r)
    <2>1. /\ at[r] \in {"calling", "noting"} /\ at'[r] = "finish"
          /\ UNCHANGED <<owner, logged, stored, answered>>
      BY <1>5 DEF UpstreamAnswers, CallFails, NoteAnnounced
    <2>2. OwnerIsRight(r)' = OwnerIsRight(r)
      BY <2>1 DEF OwnerIsRight
    <2>. QED  BY <2>1, <2>2, LogSame DEF RequestInv, Ended
  <1>6. CASE Record(r)
    <2>1. /\ at[r] = "finish" /\ at'[r] = "announce"
          /\ logged'[r] = Append(logged[r], Event("agent", r, result[r]))
          /\ UNCHANGED <<owner, result, stored, answered>>
      BY <1>6 DEF Record
    <2>2. /\ Event("agent", r, result[r]) \in LoggedEvents
          /\ Event("agent", r, result[r]).session = "agent"
      BY DEF Event, LoggedEvents
    <2>3. logged[r] \in Seq(LoggedEvents) /\ CallsLogged(r) = {}
      BY <2>1 DEF LoggedEvents, RequestInv
    <2>4. PICK k : /\ CallsLogged(r)' = {k}
                   /\ logged'[r][k] = Event("agent", r, result[r])
      BY <2>1, <2>2, <2>3, LogOfCall
    <2>5. IsRecorded(r)'
      BY <2>1, <2>4 DEF IsRecorded, Event
    <2>6. OwnerIsRight(r)'
      BY <2>1 DEF RequestInv, OwnerIsRight
    <2>. QED  BY <2>1, <2>4, <2>5, <2>6 DEF RequestInv
  <1>7. CASE Announce(r) \/ Capture(r) \/ Reply(r)
    <2>1. UNCHANGED <<owner, result, logged>>
      BY <1>7 DEF Announce, Capture, Reply
    <2>2. /\ CallsLogged(r)' = CallsLogged(r)
          /\ OwnerIsRight(r)' = OwnerIsRight(r)
      BY <2>1, LogSame DEF OwnerIsRight
    <2>3. IsRecorded(r)' = IsRecorded(r)
      BY <2>1, <2>2 DEF IsRecorded
    <2>4. Ended(r)' => Ended(r)
      BY <1>7, <2>1 DEF Announce, Capture, Reply, Ended
    <2>5. at[r] \in {"announce", "capture", "reply"}
          /\ at'[r] \in {"capture", "reply", "done"}
      BY <1>7 DEF Announce, Capture, Reply
    <2>6. answered'[r] # "none" => at'[r] = "done" /\ answered'[r] = result'[r]
      BY <1>7, <2>1 DEF Announce, Capture, Reply, RequestInv
    <2>7. at'[r] \in {"reply", "done"} /\ result'[r] = "image" => stored'[r] # "none"
      BY <1>7, <2>1 DEF Announce, Capture, Reply,
         HasImage, RequestInv
    <2>. QED  BY <2>1, <2>2, <2>3, <2>4, <2>5, <2>6, <2>7 DEF RequestInv
  <1>. QED  BY <1>1, <1>2, <1>3, <1>4, <1>5, <1>6, <1>7 DEF RequestStep

(* The steps that change the lists, the results and the upstreams. *)
LEMMA WhatChanges ==
    ASSUME [ProxyNext]_proxyVars
    PROVE  /\ \/ listed' = listed
              \/ \E r \in Requests : ListTools(r)
           /\ \/ result' = result
              \/ \E r \in Requests :
                   \/ ListTools(r) \/ Dispatch(r)
                   \/ RunNative(r) \/ UpstreamAnswers(r)
                   \/ CallFails(r)
           /\ phase' = "serving" => phase = "serving" /\ ups \subseteq ups'
  <1>. USE DEF connVars, requestVars, upVars, envVars
  <1>1. CASE UNCHANGED proxyVars
    BY <1>1 DEF proxyVars
  <1>2. ASSUME NEW a \in Agents,
               \/ Connect(a) \/ EndInput(a) \/ BridgeDies(a)
               \/ ConnStep(a)
        PROVE  UNCHANGED <<listed, result, phase, ups>>
    BY <1>2 DEF Connect, EndInput, BridgeDies, ConnStep,
       HalfClose, BridgeExits, InputEnds, ClosePeer
  <1>3. ASSUME NEW r \in Requests,
               \/ SendRequest(r) \/ Accept(r) \/ Record(r)
               \/ NoteAnnounced(r) \/ Announce(r) \/ Capture(r) \/ Reply(r)
        PROVE  UNCHANGED <<listed, result, phase, ups>>
    BY <1>3 DEF SendRequest, Accept, Record, NoteAnnounced, Announce,
       Capture, Reply
  <1>4. ASSUME NEW r \in Requests,
               \/ Dispatch(r) \/ RunNative(r)
               \/ UpstreamAnswers(r) \/ CallFails(r)
        PROVE  UNCHANGED <<listed, phase, ups>>
    BY <1>4 DEF Dispatch, RunNative, UpstreamAnswers,
       CallFails
  <1>5. ASSUME NEW r \in Requests, ListTools(r)
        PROVE  UNCHANGED <<phase, ups>>
    BY <1>5 DEF ListTools
  <1>6. ASSUME NEW u \in Upstreams,
               \/ AddUpstream(u) \/ ServerFails(u)
               \/ CloseUpstream(u)
        PROVE  UNCHANGED <<listed, result, phase>> /\ ups \subseteq ups'
    BY <1>6 DEF AddUpstream, ServerFails, CloseUpstream
  <1>7. CASE AppStalls \/ AppResumes
    BY <1>7 DEF AppStalls, AppResumes
  <1>8. CASE Stop \/ CloseUpstreams \/ Exit
    BY <1>8 DEF Stop, CloseUpstreams, Exit
  <1>. QED
    BY <1>1, <1>2, <1>3, <1>4, <1>5, <1>6, <1>7, <1>8
       DEF ProxyNext, RequestStep, MainStep

LEMMA ProxyInvStep ==
    ASSUME ProxyInv, [ProxyNext]_proxyVars
    PROVE  ProxyInv'
  <1>0. ProxyTypeOK /\ ListedStays /\ \A r \in Requests : RequestInv(r)
    BY DEF ProxyInv
  <1>1. ProxyTypeOK'
    BY <1>0, ProxyTypeStep
  <1>2. ASSUME NEW r \in Requests PROVE RequestInv(r)'
    <2>1. CASE UNCHANGED requestVars
      BY <1>0, <2>1, RequestSame DEF requestVars
    <2>2. ASSUME NEW q \in Requests,
                 \/ SendRequest(q) \/ UpstreamAnswers(q)
                 \/ RequestStep(q)
          PROVE  RequestInv(r)'
      <3>1. CASE q = r
        BY <1>0, <2>2, <3>1, ProxyRequestStep
      <3>2. CASE q # r
        <4>1. /\ at'[r] = at[r] /\ owner'[r] = owner[r] /\ result'[r] = result[r]
              /\ logged'[r] = logged[r] /\ stored'[r] = stored[r]
              /\ answered'[r] = answered[r]
          BY <1>0, <2>2, <3>2 DEF ProxyTypeOK, SendRequest,
             UpstreamAnswers, RequestStep, Accept,
             ListTools, Dispatch, RunNative,
             NoteAnnounced, CallFails, Record, Announce, Capture,
             Reply, Goto
        <4>. QED  BY <1>0, <4>1, RequestSame
      <3>. QED  BY <3>1, <3>2
    <2>3. CASE Exit
      <3>1. UNCHANGED <<owner, result, logged, stored, answered>>
        BY <2>3 DEF Exit
      <3>2. CASE at[r] \in {"idle", "done"}
        <4>1. at'[r] = at[r]
          BY <2>3, <3>2 DEF Exit
        <4>. QED  BY <1>0, <3>1, <4>1, RequestSame
      <3>3. CASE at[r] \notin {"idle", "done"}
        <4>1. at'[r] = "lost"
          BY <2>3, <3>3 DEF Exit
        <4>. QED  BY <1>0, <3>1, <3>3, <4>1, LogSame DEF RequestInv, Ended
      <3>. QED  BY <3>2, <3>3
    <2>4. \/ UNCHANGED requestVars
          \/ Exit
          \/ \E q \in Requests : \/ SendRequest(q) \/ UpstreamAnswers(q)
                                 \/ RequestStep(q)
      BY DEF ProxyNext, proxyVars, ConnStep, MainStep,
         Connect, EndInput, BridgeDies, HalfClose,
         BridgeExits, InputEnds, ClosePeer,
         AddUpstream, ServerFails, AppStalls,
         AppResumes, Stop, CloseUpstreams,
         CloseUpstream
    <2>. QED  BY <2>1, <2>2, <2>3, <2>4
  <1>3. ListedStays'
    <2>. SUFFICES ASSUME phase' = "serving", NEW a \in Agents
                  PROVE  listed'[a] \subseteq AllTools'
      BY DEF ListedStays
    <2>1. phase = "serving" /\ ups \subseteq ups'
      BY WhatChanges
    <2>2. AllTools \subseteq AllTools'
      BY <2>1 DEF AllTools
    <2>3. listed'[a] \subseteq listed[a] \cup AllTools
      <3>1. CASE listed' = listed
        BY <3>1
      <3>2. ASSUME NEW r \in Requests, ListTools(r)
            PROVE  listed'[a] \subseteq listed[a] \cup AllTools
        BY <1>0, <3>2 DEF ListTools, ProxyTypeOK
      <3>. QED  BY <3>1, <3>2, WhatChanges
    <2>. QED  BY <1>0, <2>1, <2>2, <2>3 DEF ListedStays
  <1>. QED  BY <1>1, <1>2, <1>3 DEF ProxyInv

(* What is answered is recorded, and what is unknown was not listed. *)
LEMMA ProxyInvRecords ==
    ASSUME ProxyInv
    PROVE  AnswerIsRecorded
  <1>. SUFFICES ASSUME NEW r \in Requests
                PROVE  /\ \A i, j \in CallsLogged(r) : i = j
                       /\ Routed(r) =>
                            /\ \E i \in CallsLogged(r) : logged[r][i] =
                                 [session |-> "agent", upstream |-> owner[r],
                                  error |-> answered[r] = "error"]
                            /\ OwnerIsRight(r)
                       /\ answered[r] = "image" => stored[r] # "none"
    BY DEF AnswerIsRecorded, OwnerIsRight
  <1>1. RequestInv(r)
    BY DEF ProxyInv
  <1>2. Routed(r) => Ended(r) /\ answered[r] = result[r]
    BY <1>1 DEF RequestInv, Ended, Routed
  <1>. QED  BY <1>1, <1>2 DEF RequestInv, IsRecorded

LEMMA ProxyInvLists ==
    ASSUME ProxyInv, [ProxyNext]_proxyVars
    PROVE  ListedIsKnown
  <1>. SUFFICES ASSUME NEW r \in Requests, result[r] # "unknown",
                       result'[r] = "unknown", phase = "serving"
                PROVE  Asks[r] \notin listed[AgentOf[r]]
    BY DEF ListedIsKnown
  <1>1. Asks[r] \notin Native /\ Owners(Asks[r]) = {}
    <2>1. result \in [Requests -> {"none", "ok", "image", "error", "unknown",
                                  "panic"}]
      BY DEF ProxyInv, ProxyTypeOK
    <2>2. PICK q \in Requests :
            \/ ListTools(q) \/ Dispatch(q) \/ RunNative(q)
            \/ UpstreamAnswers(q) \/ CallFails(q)
      BY WhatChanges
    <2>3. CASE Dispatch(q)
      BY <2>1, <2>3 DEF Dispatch
    <2>4. CASE \/ ListTools(q) \/ RunNative(q)
               \/ UpstreamAnswers(q) \/ CallFails(q)
      <3>1. \E res \in {"ok", "image", "error", "panic"} :
                result' = [result EXCEPT ![q] = res]
        BY <2>4 DEF ListTools, RunNative, UpstreamAnswers,
           CallFails
      <3>. QED  BY <2>1, <3>1
    <2>. QED  BY <2>2, <2>3, <2>4
  <1>2. Asks[r] \notin AllTools
    BY <1>1 DEF AllTools, Owners
  <1>3. AgentOf[r] \in Agents
    BY ProxyAssumption
  <1>. QED  BY <1>2, <1>3 DEF ProxyInv, ListedStays

(* Every variable keeps its type; in particular every event recorded for a  *)
(* request is one readers of the log know (finishLog, proxy_route.go).      *)
THEOREM ProxyTypes == ProxySpec => []ProxyTypeOK
  <1>1. ProxyInit => ProxyInv
    BY ProxyInvInit
  <1>2. ProxyInv /\ [ProxyNext]_proxyVars => ProxyInv'
    BY ProxyInvStep
  <1>3. ProxyInv => ProxyTypeOK
    BY DEF ProxyInv
  <1>. QED  BY <1>1, <1>2, <1>3, PTL DEF ProxySpec

(* However requests, upstreams and shutdown interleave, an agent is         *)
(* answered only for a call that was logged once, with its outcome and      *)
(* under the owner that advertises the tool, its image handed on first; and *)
(* a tool it was told of is known while the sidecar serves.                 *)
THEOREM ProxyCallsAreRouted == ProxySpec => CallsAreRouted
  <1>1. ProxyInit => ProxyInv
    BY ProxyInvInit
  <1>2. ProxyInv /\ [ProxyNext]_proxyVars => ProxyInv' /\ ListedIsKnown
    BY ProxyInvStep, ProxyInvLists
  <1>3. ProxyInv => AnswerIsRecorded
    BY ProxyInvRecords
  <1>. QED  BY <1>1, <1>2, <1>3, PTL DEF ProxySpec, CallsAreRouted
=============================================================================
