------------------------- MODULE PtySessionsProofs --------------------------
(***************************************************************************)
(* What holds of terminal sessions for any number of sessions, of kill     *)
(* requests and of chunks of output.                                       *)
(***************************************************************************)
EXTENDS PtySessions, SequenceTheorems, TLAPS

Replied(s) == \E i \in 1..Len(sent[s]) : sent[s][i] = Line("reply")

(* Chunks read and announced: the one in hand is not. *)
Emitted(s) == IF pump[s] = "emit" THEN read[s] - 1 ELSE read[s]

(* The pump and the child are started by the spawn request, once. *)
PumpIsStarted(s) ==
    /\ spawn[s] = "idle" => /\ pump[s] = "none"
                            /\ child[s] = "none"
                            /\ read[s] = 0
    /\ spawn[s] \in {"started", "inserted"} => pump[s] # "none"
    /\ pump[s] = "emit" => read[s] > 0

(* A session that was inserted stays until its pump removes it. *)
InsertedIsListed(s) ==
    /\ Replied(s) => spawn[s] = "done"
    /\ Replied(s) \/ spawn[s] = "inserted" => s \in sessions \/ pump[s] = "gone"

ExitIsLast(s) == Announced(s) <=> pump[s] \in {"remove", "gone"}

(* The chunks in the stream are the ones read. *)
DataIsRead(s) ==
    /\ \A i \in 1..Len(sent[s]) :
           sent[s][i].kind = "data" => sent[s][i].n \in 1..Emitted(s)
    /\ \A n \in 1..Emitted(s) :
           \E i \in 1..Len(sent[s]) : sent[s][i] = Data(n)

(* Only a kill closes the master; without one the pump reads on until the  *)
(* terminal is empty and nobody can fill it any more.                      *)
PumpReadsOn(s) ==
    s \notin killed =>
        /\ master[s] = "open"
        /\ pump[s] \in {"wait", "exit", "remove", "gone"} => Drained(s)

(* StreamIsOutput, for one session. *)
OutputSoFar(s) ==
    \A i \in 1..Len(sent[s]) :
        /\ sent[s][i].kind = "data" =>
             /\ sent[s][i].n \in 1..produced[s]
             /\ \A n \in 1..sent[s][i].n - 1 : \E j \in 1..i - 1 :
                    sent[s][j] = Data(n)
             /\ \A j \in 1..i - 1 :
                    sent[s][j].kind = "data" => sent[s][j].n < sent[s][i].n
        /\ sent[s][i].kind = "exit" =>
             \A j \in i + 1..Len(sent[s]) : ~FromPump(sent[s][j])

SessionInv(s) ==
    /\ PumpIsStarted(s)
    /\ InsertedIsListed(s)
    /\ ExitIsLast(s)
    /\ DataIsRead(s)
    /\ PumpReadsOn(s)
    /\ OutputSoFar(s)

KillerInv == \A k \in Killers : kpc[k] = "close" => current[k] \in killed

PtyInv == TypeOK /\ KillerInv /\ \A s \in Sessions : SessionInv(s)

-----------------------------------------------------------------------------
(* Lemmas *)

(* Queueing a line leaves the lines before it where they are. *)
LEMMA QueueAppends ==
    ASSUME sent \in [Sessions -> Seq(Lines)],
           NEW s \in Sessions, NEW line \in Lines, Queue(s, line)
    PROVE  /\ sent' \in [Sessions -> Seq(Lines)]
           /\ \A r \in Sessions \ {s} : sent'[r] = sent[r]
           /\ Len(sent[s]) \in Nat
           /\ Len(sent'[s]) = Len(sent[s]) + 1
           /\ sent'[s][Len(sent[s]) + 1] = line
           /\ \A i \in 1..Len(sent[s]) : sent'[s][i] = sent[s][i]
  <1>1. sent'[s] = Append(sent[s], line)
    BY DEF Queue
  <1>2. sent[s] \in Seq(Lines)
    OBVIOUS
  <1>. QED  BY <1>1, <1>2 DEF Queue

(* An exit line is Line("exit"). *)
LEMMA ExitLine ==
    ASSUME NEW q \in Seq(Lines), NEW i \in 1..Len(q), q[i].kind = "exit"
    PROVE  q[i] = Line("exit")
  <1>1. q[i] \in Lines
    OBVIOUS
  <1>. QED  BY <1>1 DEF Lines, Line

-----------------------------------------------------------------------------
LEMMA PtyInit == Init /\ PtyAssumption => PtyInv
  <1>. SUFFICES ASSUME Init, PtyAssumption PROVE PtyInv
    OBVIOUS
  <1>1. TypeOK /\ KillerInv
    BY DEF Init, PtyAssumption, TypeOK, KillerInv
  <1>2. ASSUME NEW s \in Sessions PROVE SessionInv(s)
    <2>1. Len(sent[s]) = 0
      BY DEF Init
    <2>. QED
      BY <2>1 DEF Init, SessionInv, PumpIsStarted, InsertedIsListed, Replied,
         ExitIsLast, Announced, DataIsRead, Emitted, PumpReadsOn, OutputSoFar
  <1>. QED  BY <1>1, <1>2 DEF PtyInv

LEMMA TypesStay == PtyInv /\ PtyAssumption /\ [Next]_vars => TypeOK'
  <1>. SUFFICES ASSUME PtyInv, PtyAssumption, [Next]_vars PROVE TypeOK'
    OBVIOUS
  <1>. USE DEF PtyInv, TypeOK, PtyAssumption
  <1>0. CASE UNCHANGED vars
    BY <1>0 DEF vars, managerVars, sessionVars, childVars, killVars, viewVars
  <1>a. /\ Line("error") \in Lines /\ Line("reply") \in Lines
        /\ Line("exit") \in Lines
        /\ \A n \in 1..MaxChunks : Data(n) \in Lines
    BY DEF Line, Data, Lines
  <1>1. ASSUME NEW s \in Sessions, Start(s) PROVE TypeOK'
    BY <1>1 DEF Start, SpawnGoto, killVars, viewVars
  <1>2. ASSUME NEW s \in Sessions, StartFails(s) PROVE TypeOK'
    <2>1. sent' \in [Sessions -> Seq(Lines)]
      BY <1>2, <1>a, QueueAppends DEF StartFails
    <2>. QED  BY <1>2, <2>1 DEF StartFails, SpawnGoto, sessionVars, childVars,
                                killVars, viewVars
  <1>3. ASSUME NEW s \in Sessions, SpawnStep(s) PROVE TypeOK'
    <2>1. CASE Insert(s)
      BY <2>1 DEF Insert, SpawnGoto, sessionVars, childVars, killVars, viewVars
    <2>2. CASE Reply(s)
      <3>1. sent' \in [Sessions -> Seq(Lines)]
        BY <2>2, <1>a, QueueAppends DEF Reply
      <3>. QED  BY <2>2, <3>1 DEF Reply, SpawnGoto, sessionVars, childVars,
                                  killVars, viewVars
    <2>. QED  BY <1>3, <2>1, <2>2 DEF SpawnStep
  <1>4. ASSUME NEW s \in Sessions, Write(s) PROVE TypeOK'
    BY <1>4 DEF Write, managerVars, sessionVars, killVars, viewVars
  <1>5. ASSUME NEW s \in Sessions, Exit(s) \/ JobEnds(s) \/ Recycle(s)
        PROVE  TypeOK'
    <2>. USE DEF managerVars, sessionVars, killVars, viewVars
    <2>1. CASE Exit(s)
      BY <2>1 DEF Exit
    <2>2. CASE JobEnds(s)
      BY <2>2 DEF JobEnds
    <2>3. CASE Recycle(s)
      BY <2>3 DEF Recycle
    <2>. QED  BY <1>5, <2>1, <2>2, <2>3
  <1>6. ASSUME NEW s \in Sessions, PumpStep(s) PROVE TypeOK'
    <2>1. CASE ReadChunk(s)
      BY <2>1 DEF ReadChunk, PumpGoto, managerVars, killVars, viewVars
    <2>2. CASE EmitData(s)
      <3>1. sent' \in [Sessions -> Seq(Lines)]
        <4>1. read[s] \in 1..MaxChunks
          BY <2>2 DEF EmitData, PumpGoto, SessionInv, PumpIsStarted
        <4>. QED  BY <2>2, <1>a, <4>1, QueueAppends DEF EmitData, Notify
      <3>. QED  BY <2>2, <3>1 DEF EmitData, PumpGoto, managerVars, childVars,
                                  killVars, viewVars
    <2>3. CASE ReadEnds(s)
      BY <2>3 DEF ReadEnds, PumpGoto, managerVars, childVars, killVars, viewVars
    <2>4. CASE Wait(s)
      BY <2>4 DEF Wait, PumpGoto, managerVars, killVars, viewVars
    <2>5. CASE EmitExit(s)
      <3>1. sent' \in [Sessions -> Seq(Lines)]
        BY <2>5, <1>a, QueueAppends DEF EmitExit, Notify
      <3>. QED  BY <2>5, <3>1 DEF EmitExit, PumpGoto, managerVars, childVars,
                                  killVars, viewVars
    <2>6. CASE Remove(s)
      BY <2>6 DEF Remove, PumpGoto, childVars, killVars, viewVars
    <2>. QED  BY <1>6, <2>1, <2>2, <2>3, <2>4, <2>5, <2>6 DEF PumpStep
  <1>7. ASSUME NEW s \in Sessions, ViewStep(s) PROVE TypeOK'
    <2>1. CASE Receive(s)
      <3>. DEFINE line == sent[s][got[s] + 1]
      <3>0. /\ sent[s] \in Seq(Lines)
            /\ got[s] \in Nat
        OBVIOUS
      <3>1. /\ got[s] + 1 \in 1..Len(sent[s])
            /\ line \in Lines
        BY <2>1, <3>0 DEF Receive
      <3>2. line.kind = "data" => line.n \in 1..MaxChunks
        BY <3>1 DEF SessionInv, DataIsRead, Emitted, Lines
      <3>3. shown' \in [Sessions -> Seq(1..MaxChunks)]
        <4>1. line.kind = "data" =>
                  Append(shown[s], line.n) \in Seq(1..MaxChunks)
          BY <3>2
        <4>. QED  BY <2>1, <4>1 DEF Receive
      <3>4. got' \in [Sessions -> Nat]
        BY <2>1, <3>0 DEF Receive
      <3>5. /\ view' \in [Sessions -> {"waiting", "replied", "bound", "closed"}]
            /\ ended' \subseteq Sessions
        BY <2>1 DEF Receive
      <3>. QED  BY <2>1, <3>3, <3>4, <3>5 DEF Receive, managerVars, sessionVars,
                   childVars,
                                  killVars
    <2>2. CASE Bind(s)
      BY <2>2 DEF Bind, managerVars, sessionVars, childVars, killVars
    <2>. QED  BY <1>7, <2>1, <2>2 DEF ViewStep
  <1>8. ASSUME NEW s \in Sessions, CloseTab(s) PROVE TypeOK'
    BY <1>8 DEF CloseTab, managerVars, sessionVars, childVars, killVars
  <1>9. ASSUME NEW k \in Killers, KillRequest(k) \/ KillAll(k) PROVE TypeOK'
    <2>. USE DEF managerVars, sessionVars, childVars, viewVars
    <2>1. CASE KillRequest(k)
      <3>1. PICK s \in asked : /\ asked' = asked \ {s}
                               /\ todo' = [todo EXCEPT ![k] = {s} \cap sessions]
        BY <2>1 DEF KillRequest
      <3>. QED  BY <2>1, <3>1 DEF KillRequest
    <2>2. CASE KillAll(k)
      BY <2>2 DEF KillAll
    <2>. QED  BY <1>9, <2>1, <2>2
  <1>10. ASSUME NEW k \in Killers, KillStep(k) PROVE TypeOK'
    <2>1. CASE CloseMaster(k)
      BY <2>1 DEF CloseMaster, managerVars, childVars, viewVars
    <2>2. ASSUME NEW s \in Sessions, Signal(k, s) PROVE TypeOK'
      BY <2>2 DEF Signal, managerVars, viewVars
    <2>3. ASSUME NEW s \in Sessions, AlreadyKilled(k, s) PROVE TypeOK'
      BY <2>3 DEF AlreadyKilled, managerVars, sessionVars, childVars, viewVars
    <2>. QED  BY <1>10, <2>1, <2>2, <2>3 DEF KillStep
  <1>11. ASSUME ClientStalls \/ ClientResumes PROVE TypeOK'
    BY <1>11 DEF ClientStalls, ClientResumes, managerVars, sessionVars,
       childVars, killVars
  <1>. QED
    BY <1>0, <1>1, <1>2, <1>3, <1>4, <1>5, <1>6, <1>7, <1>8, <1>9, <1>10,
       <1>11
    DEF Next

(* What a step leaves of a session it does not touch. *)
Same(s) ==
    /\ spawn'[s] = spawn[s]
    /\ pump'[s] = pump[s]
    /\ master'[s] = master[s]
    /\ child'[s] = child[s]
    /\ produced'[s] = produced[s]
    /\ read'[s] = read[s]
    /\ sent'[s] = sent[s]
    /\ s \in sessions' <=> s \in sessions
    /\ s \in killed' <=> s \in killed
    /\ s \in held' <=> s \in held

LEMMA Untouched ==
    ASSUME NEW s, SessionInv(s), Same(s)
    PROVE  SessionInv(s)'
  <1>. USE DEF SessionInv, Same
  <1>1. PumpIsStarted(s)' /\ InsertedIsListed(s)' /\ ExitIsLast(s)'
    BY DEF PumpIsStarted, InsertedIsListed, Replied, ExitIsLast, Announced
  <1>2. PumpReadsOn(s)'
    BY DEF PumpReadsOn, Drained
  <1>3. DataIsRead(s)'
    BY DEF DataIsRead, Emitted
  <1>4. OutputSoFar(s)'
    BY DEF OutputSoFar
  <1>. QED  BY <1>1, <1>2, <1>3, <1>4

(* What a step that queues nothing keeps of the stream of a session. *)
LEMMA NothingQueued ==
    ASSUME PtyInv, NEW s \in Sessions, produced'[s] \in Nat,
           sent'[s] = sent[s], produced'[s] >= produced[s], Emitted(s)' = Emitted(s)
    PROVE  /\ DataIsRead(s)'
           /\ OutputSoFar(s)'
           /\ Replied(s)' <=> Replied(s)
           /\ Announced(s)' <=> Announced(s)
  <1>1. DataIsRead(s)'
    BY DEF PtyInv, SessionInv, DataIsRead
  <1>2. OutputSoFar(s)'
    <2>1. \A n \in 1..produced[s] : n \in 1..produced'[s]
      BY DEF PtyInv, TypeOK
    <2>. QED  BY <2>1 DEF PtyInv, SessionInv, OutputSoFar
  <1>. QED  BY <1>1, <1>2 DEF Replied, Announced

(* What queueing something else than data and exit keeps. *)
LEMMA AnswerQueued ==
    ASSUME PtyInv, NEW s \in Sessions, produced'[s] = produced[s],
           NEW line \in Lines, line.kind \in {"reply", "error"}, Queue(s, line),
           Emitted(s)' = Emitted(s)
    PROVE  /\ DataIsRead(s)'
           /\ OutputSoFar(s)'
           /\ Announced(s)' <=> Announced(s)
           /\ Replied(s)' => Replied(s) \/ line.kind = "reply"
  <1>. USE DEF PtyInv, SessionInv
  <1>1. /\ Len(sent[s]) \in Nat
        /\ Len(sent'[s]) = Len(sent[s]) + 1
        /\ sent'[s][Len(sent[s]) + 1] = line
        /\ \A i \in 1..Len(sent[s]) : sent'[s][i] = sent[s][i]
    BY QueueAppends DEF TypeOK
  <1>2. \A i \in 1..Len(sent'[s]) : i \in 1..Len(sent[s]) \/ i = Len(sent[s]) + 1
    BY <1>1
  <1>3. DataIsRead(s)'
    BY <1>1, <1>2, SMTT(30) DEF DataIsRead
  <1>4. OutputSoFar(s)'
    <2>1. ASSUME NEW i \in 1..Len(sent[s]), sent[s][i].kind = "exit",
                 NEW j \in i + 1..Len(sent'[s])
          PROVE  ~FromPump(sent'[s][j])
      <3>1. j \in Nat /\ i < j
        BY <1>1
      <3>2. CASE j = Len(sent[s]) + 1
        BY <1>1, <3>2 DEF FromPump
      <3>3. CASE j \in 1..Len(sent[s])
        <4>1. ~FromPump(sent[s][j])
          BY <1>1, <2>1, <3>1, <3>3 DEF OutputSoFar
        <4>. QED  BY <1>1, <3>3, <4>1
      <3>. QED  BY <1>1, <3>1, <3>2, <3>3
    <2>2. ASSUME NEW i \in 1..Len(sent[s]), sent[s][i].kind = "data"
          PROVE  /\ sent[s][i].n \in 1..produced[s]
                 /\ \A n \in 1..sent[s][i].n - 1 : \E j \in 1..i - 1 :
                        sent'[s][j] = Data(n)
                 /\ \A j \in 1..i - 1 :
                        sent'[s][j].kind = "data" => sent'[s][j].n < sent[s][i].n
      <3>1. \A j \in 1..i - 1 : j \in 1..Len(sent[s])
        BY <1>1
      <3>2. /\ sent[s][i].n \in 1..produced[s]
            /\ \A n \in 1..sent[s][i].n - 1 : \E j \in 1..i - 1 :
                   sent[s][j] = Data(n)
            /\ \A j \in 1..i - 1 :
                   sent[s][j].kind = "data" => sent[s][j].n < sent[s][i].n
        BY <2>2 DEF OutputSoFar
      <3>3. \A j \in 1..i - 1 : sent'[s][j] = sent[s][j]
        BY <1>1, <3>1
      <3>. QED  BY <3>2, <3>3
    <2>. QED  BY <1>1, <1>2, <2>1, <2>2 DEF OutputSoFar
  <1>5. Announced(s)' <=> Announced(s)
    <2>1. line # Line("exit")
      BY DEF Line
    <2>. QED  BY <1>1, <1>2, <2>1 DEF Announced
  <1>6. Replied(s)' => Replied(s) \/ line.kind = "reply"
    BY <1>1, <1>2, SMTT(30) DEF Replied, Line
  <1>. QED  BY <1>3, <1>4, <1>5, <1>6

-----------------------------------------------------------------------------
(* The steps of one session *)

LEMMA SpawnKeeps ==
    ASSUME PtyInv, TypeOK', NEW s \in Sessions,
           Start(s) \/ StartFails(s) \/ SpawnStep(s)
    PROVE  SessionInv(s)'
  <1>. USE DEF PtyInv, SessionInv, TypeOK, childVars, sessionVars, SpawnGoto
  <1>1. CASE Start(s)
    <2>1. Emitted(s)' = Emitted(s)
      BY <1>1 DEF Start, Emitted, PumpIsStarted
    <2>2. /\ DataIsRead(s)' /\ OutputSoFar(s)'
          /\ Replied(s)' <=> Replied(s)
          /\ Announced(s)' <=> Announced(s)
      BY <1>1, <2>1, NothingQueued DEF Start
    <2>3. PumpIsStarted(s)'
      BY <1>1 DEF Start, PumpIsStarted
    <2>4. InsertedIsListed(s)' /\ ExitIsLast(s)'
      BY <1>1, <2>2 DEF Start, PumpIsStarted, InsertedIsListed, ExitIsLast
    <2>5. PumpReadsOn(s)'
      BY <1>1 DEF Start, PumpReadsOn
    <2>. QED  BY <2>2, <2>3, <2>4, <2>5
  <1>2. CASE StartFails(s)
    <2>1. Line("error") \in Lines
      BY DEF Line, Lines
    <2>a. /\ Line("error").kind = "error"
          /\ Queue(s, Line("error"))
          /\ produced'[s] = produced[s]
          /\ Emitted(s)' = Emitted(s)
      BY <1>2 DEF StartFails, Line, Emitted
    <2>2. /\ DataIsRead(s)' /\ OutputSoFar(s)'
          /\ Announced(s)' <=> Announced(s)
          /\ Replied(s)' => Replied(s)
      BY <2>1, <2>a, AnswerQueued
    <2>3. PumpIsStarted(s)' /\ PumpReadsOn(s)'
      BY <1>2 DEF StartFails, PumpIsStarted, PumpReadsOn, Drained
    <2>4. InsertedIsListed(s)' /\ ExitIsLast(s)'
      BY <1>2, <2>2 DEF StartFails, InsertedIsListed, ExitIsLast
    <2>. QED  BY <2>2, <2>3, <2>4
  <1>3. CASE Insert(s)
    <2>1. /\ DataIsRead(s)' /\ OutputSoFar(s)'
          /\ Replied(s)' <=> Replied(s)
          /\ Announced(s)' <=> Announced(s)
      BY <1>3, NothingQueued DEF Insert, Emitted
    <2>2. PumpIsStarted(s)' /\ PumpReadsOn(s)'
      BY <1>3 DEF Insert, PumpIsStarted, PumpReadsOn, Drained
    <2>3. InsertedIsListed(s)' /\ ExitIsLast(s)'
      BY <1>3, <2>1 DEF Insert, InsertedIsListed, ExitIsLast
    <2>. QED  BY <2>1, <2>2, <2>3
  <1>4. CASE Reply(s)
    <2>1. Line("reply") \in Lines
      BY DEF Line, Lines
    <2>2. /\ DataIsRead(s)' /\ OutputSoFar(s)'
          /\ Announced(s)' <=> Announced(s)
      BY <1>4, <2>1, AnswerQueued DEF Reply, Line, Emitted
    <2>3. PumpIsStarted(s)' /\ PumpReadsOn(s)'
      BY <1>4 DEF Reply, PumpIsStarted, PumpReadsOn, Drained
    <2>4. InsertedIsListed(s)' /\ ExitIsLast(s)'
      BY <1>4, <2>2 DEF Reply, InsertedIsListed, ExitIsLast
    <2>. QED  BY <2>2, <2>3, <2>4
  <1>. QED  BY <1>1, <1>2, <1>3, <1>4 DEF SpawnStep

LEMMA ChildKeeps ==
    ASSUME PtyInv, TypeOK', NEW s \in Sessions,
           Write(s) \/ Exit(s) \/ JobEnds(s) \/ Recycle(s)
    PROVE  SessionInv(s)'
  <1>. USE DEF PtyInv, SessionInv, TypeOK, managerVars, sessionVars
  <1>0. /\ spawn' = spawn /\ pump' = pump /\ read' = read
        /\ sent' = sent /\ sessions' = sessions
        /\ killed' = killed /\ master' = master
        /\ child'[s] = child[s] \/ child[s] = "running"
        /\ child'[s] = "none" <=> child[s] = "none"
    BY DEF Write, Exit, JobEnds, Recycle
  <1>1. produced'[s] >= produced[s] /\ produced'[s] \in Nat
    BY DEF Write, Exit, JobEnds, Recycle
  <1>2. /\ DataIsRead(s)' /\ OutputSoFar(s)'
        /\ Replied(s)' <=> Replied(s)
        /\ Announced(s)' <=> Announced(s)
    BY <1>0, <1>1, NothingQueued DEF Emitted
  <1>3. /\ PumpIsStarted(s)' /\ InsertedIsListed(s)' /\ ExitIsLast(s)'
    BY <1>0, <1>2 DEF PumpIsStarted, InsertedIsListed, ExitIsLast
  <1>4. PumpReadsOn(s)'
    <2>1. Drained(s) => Drained(s)'
      BY DEF Drained, Write, Exit, JobEnds, Recycle
    <2>. QED  BY <1>0, <2>1 DEF PumpReadsOn
  <1>. QED  BY <1>2, <1>3, <1>4

LEMMA EmitDataKeeps ==
    ASSUME PtyInv, TypeOK', NEW s \in Sessions, EmitData(s)
    PROVE  SessionInv(s)'
  <1>. DEFINE len == Len(sent[s])
  <1>0. SessionInv(s) /\ TypeOK
    BY DEF PtyInv
  <1>1. /\ pump[s] = "emit" /\ pump'[s] = "read"
        /\ read' = read /\ produced' = produced /\ child' = child
        /\ held' = held /\ killed' = killed /\ master' = master
        /\ spawn' = spawn /\ sessions' = sessions
    BY <1>0 DEF EmitData, PumpGoto, managerVars, childVars, TypeOK
  <1>2. read[s] \in 1..MaxChunks /\ read[s] <= produced[s]
        /\ produced[s] \in Nat
    BY <1>0, <1>1 DEF TypeOK, SessionInv, PumpIsStarted
  <1>3. Data(read[s]) \in Lines
    BY <1>2 DEF Data, Lines
  <1>4. /\ len \in Nat
        /\ Len(sent'[s]) = len + 1
        /\ sent'[s][len + 1] = Data(read[s])
        /\ \A i \in 1..len : sent'[s][i] = sent[s][i]
    BY <1>0, <1>3, QueueAppends DEF EmitData, Notify, TypeOK
  <1>5. \A i \in 1..len + 1 : i \in 1..len \/ i = len + 1
    BY <1>4
  <1>6. Emitted(s) = read[s] - 1 /\ Emitted(s)' = read[s]
    BY <1>1 DEF Emitted
  <1>7. ~Announced(s)
    BY <1>0, <1>1 DEF SessionInv, ExitIsLast
  <1>8. /\ Replied(s)' <=> Replied(s)
        /\ ~Announced(s)'
    <2>1. Data(read[s]) # Line("reply") /\ Data(read[s]) # Line("exit")
      BY DEF Data, Line
    <2>. QED  BY <1>4, <1>5, <1>7, <2>1, SMTT(30) DEF Replied, Announced
  <1>9. DataIsRead(s)'
    <2>1. ASSUME NEW i \in 1..len + 1, sent'[s][i].kind = "data"
          PROVE  sent'[s][i].n \in 1..read[s]
      <3>1. CASE i = len + 1
        BY <1>2, <1>4, <3>1 DEF Data
      <3>2. CASE i \in 1..len
        <4>1. sent'[s][i] = sent[s][i]
          BY <1>4, <3>2
        <4>2. sent[s][i].n \in 1..read[s] - 1
          BY <1>0, <1>6, <2>1, <3>2, <4>1 DEF SessionInv, DataIsRead
        <4>. QED  BY <1>2, <4>1, <4>2
      <3>. QED  BY <1>5, <3>1, <3>2
    <2>2. ASSUME NEW n \in 1..read[s]
          PROVE  \E i \in 1..len + 1 : sent'[s][i] = Data(n)
      <3>1. CASE n = read[s]
        BY <1>4, <3>1
      <3>2. CASE n # read[s]
        <4>1. n \in 1..read[s] - 1
          BY <1>2, <3>2
        <4>2. PICK i \in 1..len : sent[s][i] = Data(n)
          BY <1>0, <1>6, <4>1 DEF SessionInv, DataIsRead
        <4>. QED  BY <1>4, <4>2
      <3>. QED  BY <3>1, <3>2
    <2>. QED  BY <1>4, <1>6, <2>1, <2>2 DEF DataIsRead
  <1>10. OutputSoFar(s)'
    <2>1. ASSUME NEW i \in 1..len, sent[s][i].kind = "data"
          PROVE  /\ sent[s][i].n \in 1..produced[s]
                 /\ \A n \in 1..sent[s][i].n - 1 : \E j \in 1..i - 1 :
                        sent'[s][j] = Data(n)
                 /\ \A j \in 1..i - 1 :
                        sent'[s][j].kind = "data" => sent'[s][j].n < sent[s][i].n
      <3>1. \A j \in 1..i - 1 : sent'[s][j] = sent[s][j]
        BY <1>4
      <3>. QED  BY <1>0, <2>1, <3>1 DEF SessionInv, OutputSoFar
    <2>2. /\ \A n \in 1..read[s] - 1 : \E j \in 1..len : sent'[s][j] = Data(n)
          /\ \A j \in 1..len :
                 sent'[s][j].kind = "data" => sent'[s][j].n < read[s]
      <3>1. \A n \in 1..read[s] - 1 : \E j \in 1..len : sent[s][j] = Data(n)
        BY <1>0, <1>6 DEF SessionInv, DataIsRead
      <3>2. \A j \in 1..len :
                sent[s][j].kind = "data" => sent[s][j].n \in 1..read[s] - 1
        BY <1>0, <1>6 DEF SessionInv, DataIsRead
      <3>3. \A j \in 1..len :
                sent[s][j].kind = "data" => sent[s][j].n < read[s]
        BY <1>2, <3>2
      <3>. QED  BY <1>4, <3>1, <3>3
    <2>3. \A i \in 1..len : sent[s][i].kind # "exit"
      BY <1>0, <1>4, <1>7, ExitLine DEF TypeOK, Announced
    <2>4. ASSUME NEW i \in 1..len + 1, sent'[s][i].kind = "data"
          PROVE  /\ sent'[s][i].n \in 1..produced[s]
                 /\ \A n \in 1..sent'[s][i].n - 1 : \E j \in 1..i - 1 :
                        sent'[s][j] = Data(n)
                 /\ \A j \in 1..i - 1 :
                        sent'[s][j].kind = "data" => sent'[s][j].n < sent'[s][i].n
      <3>1. CASE i \in 1..len
        BY <1>4, <2>1, <2>4, <3>1
      <3>2. CASE i = len + 1
        <4>1. sent'[s][i].n = read[s] /\ i - 1 = len
          BY <1>4, <3>2 DEF Data
        <4>. QED  BY <1>2, <2>2, <4>1
      <3>. QED  BY <1>5, <3>1, <3>2
    <2>5. \A i \in 1..len + 1 : sent'[s][i].kind # "exit"
      BY <1>4, <1>5, <2>3 DEF Data
    <2>. QED  BY <1>1, <1>4, <2>4, <2>5 DEF OutputSoFar
  <1>11. PumpIsStarted(s)' /\ InsertedIsListed(s)' /\ ExitIsLast(s)'
    BY <1>0, <1>1, <1>8 DEF SessionInv, PumpIsStarted, InsertedIsListed,
                            ExitIsLast
  <1>12. PumpReadsOn(s)'
    BY <1>0, <1>1 DEF SessionInv, PumpReadsOn
  <1>. QED  BY <1>9, <1>10, <1>11, <1>12 DEF SessionInv

LEMMA EmitExitKeeps ==
    ASSUME PtyInv, TypeOK', NEW s \in Sessions, EmitExit(s)
    PROVE  SessionInv(s)'
  <1>. DEFINE len == Len(sent[s])
  <1>0. SessionInv(s) /\ TypeOK
    BY DEF PtyInv
  <1>1. /\ pump[s] = "exit" /\ pump'[s] = "remove"
        /\ read' = read /\ produced' = produced /\ child' = child
        /\ held' = held /\ killed' = killed /\ master' = master
        /\ spawn' = spawn /\ sessions' = sessions
    BY <1>0 DEF EmitExit, PumpGoto, managerVars, childVars, TypeOK
  <1>2. Line("exit") \in Lines
    BY DEF Line, Lines
  <1>3. /\ len \in Nat
        /\ Len(sent'[s]) = len + 1
        /\ sent'[s][len + 1] = Line("exit")
        /\ \A i \in 1..len : sent'[s][i] = sent[s][i]
    BY <1>0, <1>2, QueueAppends DEF EmitExit, Notify, TypeOK
  <1>4. \A i \in 1..len + 1 : i \in 1..len \/ i = len + 1
    BY <1>3
  <1>5. Emitted(s) = read[s] /\ Emitted(s)' = read[s]
    BY <1>1 DEF Emitted
  <1>6. ~Announced(s) /\ Announced(s)'
    BY <1>0, <1>1, <1>3 DEF SessionInv, ExitIsLast, Announced
  <1>7. Replied(s)' <=> Replied(s)
    <2>1. Line("exit") # Line("reply")
      BY DEF Line
    <2>. QED  BY <1>3, <1>4, <2>1 DEF Replied
  <1>8. DataIsRead(s)'
    <2>1. ASSUME NEW i \in 1..len + 1, sent'[s][i].kind = "data"
          PROVE  sent'[s][i].n \in 1..read[s]
      <3>1. i \in 1..len
        BY <1>3, <1>4, <2>1 DEF Line
      <3>. QED  BY <1>0, <1>3, <1>5, <2>1, <3>1 DEF SessionInv, DataIsRead
    <2>2. ASSUME NEW n \in 1..read[s]
          PROVE  \E i \in 1..len + 1 : sent'[s][i] = Data(n)
      <3>1. PICK i \in 1..len : sent[s][i] = Data(n)
        BY <1>0, <1>5 DEF SessionInv, DataIsRead
      <3>2. i \in 1..len + 1
        BY <1>3
      <3>. QED  BY <1>3, <3>1, <3>2
    <2>. QED  BY <1>3, <1>5, <2>1, <2>2 DEF DataIsRead
  <1>9. OutputSoFar(s)'
    <2>1. ASSUME NEW i \in 1..len, sent[s][i].kind = "data"
          PROVE  /\ sent[s][i].n \in 1..produced[s]
                 /\ \A n \in 1..sent[s][i].n - 1 : \E j \in 1..i - 1 :
                        sent'[s][j] = Data(n)
                 /\ \A j \in 1..i - 1 :
                        sent'[s][j].kind = "data" => sent'[s][j].n < sent[s][i].n
      <3>1. \A j \in 1..i - 1 : sent'[s][j] = sent[s][j]
        BY <1>3
      <3>. QED  BY <1>0, <2>1, <3>1 DEF SessionInv, OutputSoFar
    <2>2. \A i \in 1..len : sent[s][i].kind # "exit"
      BY <1>0, <1>3, <1>6, ExitLine DEF TypeOK, Announced
    <2>3. ASSUME NEW i \in 1..len + 1, sent'[s][i].kind = "data"
          PROVE  /\ sent'[s][i].n \in 1..produced[s]
                 /\ \A n \in 1..sent'[s][i].n - 1 : \E j \in 1..i - 1 :
                        sent'[s][j] = Data(n)
                 /\ \A j \in 1..i - 1 :
                        sent'[s][j].kind = "data" => sent'[s][j].n < sent'[s][i].n
      <3>1. i \in 1..len
        BY <1>3, <1>4, <2>3 DEF Line
      <3>. QED  BY <1>3, <2>1, <2>3, <3>1
    <2>4. ASSUME NEW i \in 1..len + 1, sent'[s][i].kind = "exit"
          PROVE  i = len + 1
      BY <1>3, <1>4, <2>2, <2>4
    <2>5. ASSUME NEW i \in 1..len + 1, sent'[s][i].kind = "exit"
          PROVE  \A j \in i + 1..len + 1 : ~FromPump(sent'[s][j])
      BY <1>3, <2>4, <2>5
    <2>. QED  BY <1>1, <1>3, <2>3, <2>5 DEF OutputSoFar
  <1>10. PumpIsStarted(s)' /\ InsertedIsListed(s)' /\ ExitIsLast(s)'
    BY <1>0, <1>1, <1>6, <1>7 DEF SessionInv, PumpIsStarted, InsertedIsListed,
                                  ExitIsLast
  <1>11. PumpReadsOn(s)'
    BY <1>0, <1>1 DEF SessionInv, PumpReadsOn, Drained
  <1>. QED  BY <1>8, <1>9, <1>10, <1>11 DEF SessionInv

LEMMA PumpKeeps ==
    ASSUME PtyInv, TypeOK', NEW s \in Sessions, PumpStep(s)
    PROVE  SessionInv(s)'
  <1>. USE DEF PtyInv, SessionInv, TypeOK, managerVars, childVars, PumpGoto
  <1>1. CASE ReadChunk(s)
    <2>1. Emitted(s)' = Emitted(s)
      BY <1>1 DEF ReadChunk, Emitted
    <2>2. /\ DataIsRead(s)' /\ OutputSoFar(s)'
          /\ Replied(s)' <=> Replied(s)
          /\ Announced(s)' <=> Announced(s)
      BY <1>1, <2>1, NothingQueued DEF ReadChunk
    <2>3. PumpIsStarted(s)'
      BY <1>1 DEF ReadChunk, PumpIsStarted
    <2>4. InsertedIsListed(s)' /\ ExitIsLast(s)'
      BY <1>1, <2>2 DEF ReadChunk, InsertedIsListed, ExitIsLast
    <2>5. PumpReadsOn(s)'
      BY <1>1 DEF ReadChunk, PumpReadsOn
    <2>. QED  BY <2>2, <2>3, <2>4, <2>5
  <1>2. CASE EmitData(s)
    BY <1>2, EmitDataKeeps
  <1>3. CASE ReadEnds(s)
    <2>1. /\ DataIsRead(s)' /\ OutputSoFar(s)'
          /\ Replied(s)' <=> Replied(s)
          /\ Announced(s)' <=> Announced(s)
      <3>1. /\ sent'[s] = sent[s] /\ produced'[s] = produced[s]
            /\ Emitted(s)' = Emitted(s)
        BY <1>3 DEF ReadEnds, Emitted
      <3>. QED  BY <3>1, NothingQueued
    <2>2. PumpIsStarted(s)' /\ InsertedIsListed(s)' /\ ExitIsLast(s)'
      BY <1>3, <2>1 DEF ReadEnds, PumpIsStarted, InsertedIsListed, ExitIsLast
    <2>3. PumpReadsOn(s)'
      BY <1>3 DEF ReadEnds, PumpReadsOn, Drained
    <2>. QED  BY <2>1, <2>2, <2>3
  <1>4. CASE Wait(s)
    <2>1. /\ DataIsRead(s)' /\ OutputSoFar(s)'
          /\ Replied(s)' <=> Replied(s)
          /\ Announced(s)' <=> Announced(s)
      <3>1. /\ sent'[s] = sent[s] /\ produced'[s] = produced[s]
            /\ Emitted(s)' = Emitted(s)
        BY <1>4 DEF Wait, PumpGoto, Emitted, TypeOK, PtyInv
      <3>. QED  BY <3>1, NothingQueued
    <2>2. PumpIsStarted(s)' /\ InsertedIsListed(s)' /\ ExitIsLast(s)'
      BY <1>4, <2>1 DEF Wait, PumpIsStarted, InsertedIsListed, ExitIsLast
    <2>3. PumpReadsOn(s)'
      BY <1>4 DEF Wait, PumpReadsOn, Drained
    <2>. QED  BY <2>1, <2>2, <2>3
  <1>5. CASE EmitExit(s)
    BY <1>5, EmitExitKeeps
  <1>6. CASE Remove(s)
    <2>1. /\ DataIsRead(s)' /\ OutputSoFar(s)'
          /\ Replied(s)' <=> Replied(s)
          /\ Announced(s)' <=> Announced(s)
      <3>1. /\ sent'[s] = sent[s] /\ produced'[s] = produced[s]
            /\ Emitted(s)' = Emitted(s)
        BY <1>6 DEF Remove, Emitted
      <3>. QED  BY <3>1, NothingQueued
    <2>2. PumpIsStarted(s)' /\ InsertedIsListed(s)' /\ ExitIsLast(s)'
      BY <1>6, <2>1 DEF Remove, PumpIsStarted, InsertedIsListed, ExitIsLast
    <2>3. PumpReadsOn(s)'
      BY <1>6 DEF Remove, PumpReadsOn, Drained
    <2>. QED  BY <2>1, <2>2, <2>3
  <1>. QED  BY <1>1, <1>2, <1>3, <1>4, <1>5, <1>6 DEF PumpStep


LEMMA KillKeeps ==
    ASSUME PtyInv, TypeOK', NEW k \in Killers, NEW s \in Sessions,
           CloseMaster(k) \/ Signal(k, s)
    PROVE  /\ KillerInv'
           /\ \A r \in Sessions : SessionInv(r)'
  <1>. USE DEF PtyInv, TypeOK, managerVars, childVars
  <1>1. CASE CloseMaster(k)
    <2>1. KillerInv'
      BY <1>1 DEF CloseMaster, KillerInv
    <2>2. ASSUME NEW r \in Sessions PROVE SessionInv(r)'
      <3>1. CASE r = current[k]
        <4>1. r \in killed /\ killed' = killed
          BY <1>1, <3>1 DEF CloseMaster, KillerInv
        <4>2. /\ DataIsRead(r)' /\ OutputSoFar(r)'
              /\ Replied(r)' <=> Replied(r)
              /\ Announced(r)' <=> Announced(r)
          <5>1. /\ sent'[r] = sent[r] /\ produced'[r] = produced[r]
                /\ Emitted(r)' = Emitted(r)
            BY <1>1 DEF CloseMaster, Emitted
          <5>2. produced'[r] \in Nat /\ produced'[r] >= produced[r]
            BY <5>1
          <5>. HIDE DEF PtyInv, TypeOK
          <5>. QED  BY <5>1, <5>2, NothingQueued
        <4>3. PumpIsStarted(r)' /\ InsertedIsListed(r)' /\ ExitIsLast(r)'
          BY <1>1, <4>2 DEF CloseMaster, SessionInv, PumpIsStarted,
                            InsertedIsListed, ExitIsLast
        <4>. QED  BY <4>1, <4>2, <4>3 DEF SessionInv, PumpReadsOn
      <3>2. CASE r # current[k]
        BY <1>1, <3>2, Untouched DEF CloseMaster, Same
      <3>. QED  BY <3>1, <3>2
    <2>. QED  BY <2>1, <2>2
  <1>2. CASE Signal(k, s)
    <2>1. KillerInv'
      BY <1>2 DEF Signal, KillerInv
    <2>2. ASSUME NEW r \in Sessions PROVE SessionInv(r)'
      <3>1. CASE r = s
        <4>1. /\ DataIsRead(r)' /\ OutputSoFar(r)'
              /\ Replied(r)' <=> Replied(r)
              /\ Announced(r)' <=> Announced(r)
          <5>1. /\ sent'[r] = sent[r] /\ produced'[r] = produced[r]
                /\ Emitted(r)' = Emitted(r)
            BY <1>2 DEF Signal, Emitted
          <5>2. produced'[r] \in Nat /\ produced'[r] >= produced[r]
            BY <5>1
          <5>. HIDE DEF PtyInv, TypeOK
          <5>. QED  BY <5>1, <5>2, NothingQueued
        <4>2. PumpIsStarted(r)' /\ InsertedIsListed(r)' /\ ExitIsLast(r)'
          BY <1>2, <4>1 DEF Signal, SessionInv, PumpIsStarted,
                            InsertedIsListed, ExitIsLast
        <4>3. PumpReadsOn(r)'
          BY <1>2, <3>1 DEF Signal, PumpReadsOn
        <4>. QED  BY <4>1, <4>2, <4>3 DEF SessionInv
      <3>2. CASE r # s
        <4>1. Same(r)
          BY <1>2, <3>2 DEF Signal, Same
        <4>. QED  BY <4>1, Untouched
      <3>. QED  BY <3>1, <3>2
    <2>. QED  BY <2>1, <2>2
  <1>. QED  BY <1>1, <1>2

LEMMA PtyStep == PtyInv /\ PtyAssumption /\ [Next]_vars => PtyInv'
  <1>. SUFFICES ASSUME PtyInv, PtyAssumption, [Next]_vars PROVE PtyInv'
    OBVIOUS
  <1>t. TypeOK'
    BY TypesStay
  <1>. DEFINE Rest == KillerInv /\ \A r \in Sessions : SessionInv(r)
  <1>i. TypeOK /\ KillerInv /\ \A r \in Sessions : SessionInv(r)
    BY DEF PtyInv
  <1>1. ASSUME NEW s \in Sessions, Start(s) \/ StartFails(s) \/ SpawnStep(s)
        PROVE  Rest'
    <2>1. ASSUME NEW r \in Sessions, r # s PROVE Same(r)
      BY <1>1, <1>i, <2>1 DEF Start, StartFails, SpawnStep, Insert, Reply,
         SpawnGoto, sessionVars, childVars, Queue, TypeOK, Same
    <2>2. KillerInv'
      BY <1>1, <1>i DEF Start, StartFails, SpawnStep, Insert, Reply, sessionVars,
                  killVars, KillerInv
    <2>. QED  BY <1>1, <1>i, <1>t, <2>1, <2>2, SpawnKeeps, Untouched
  <1>2. ASSUME NEW s \in Sessions, Write(s) \/ Exit(s) \/ JobEnds(s) \/ Recycle(s)
        PROVE  Rest'
    <2>1. ASSUME NEW r \in Sessions, r # s PROVE Same(r)
      BY <1>2, <1>i, <2>1 DEF Write, Exit, JobEnds, Recycle, managerVars,
         sessionVars, TypeOK, Same
    <2>2. KillerInv'
      BY <1>2, <1>i DEF Write, Exit, JobEnds, Recycle, sessionVars, killVars,
         KillerInv
    <2>. QED  BY <1>2, <1>i, <1>t, <2>1, <2>2, ChildKeeps, Untouched
  <1>3. ASSUME NEW s \in Sessions, PumpStep(s) PROVE Rest'
    <2>1. ASSUME NEW r \in Sessions, r # s PROVE Same(r)
      BY <1>3, <1>i, <2>1 DEF PumpStep, ReadChunk, EmitData, ReadEnds, Wait,
         EmitExit, Remove, PumpGoto, managerVars, childVars, Notify, Queue, TypeOK,
         Same
    <2>2. KillerInv'
      BY <1>3, <1>i DEF PumpStep, ReadChunk, EmitData, ReadEnds, Wait, EmitExit,
         Remove, killVars, KillerInv
    <2>. QED  BY <1>3, <1>i, <1>t, <2>1, <2>2, PumpKeeps, Untouched
  <1>4. ASSUME NEW k \in Killers, KillStep(k) PROVE Rest'
    <2>1. ASSUME NEW s \in Sessions, AlreadyKilled(k, s) PROVE Rest'
      <3>1. \A r \in Sessions : Same(r)
        BY <2>1 DEF AlreadyKilled, Same, managerVars, sessionVars, childVars
      <3>2. KillerInv'
        BY <2>1, <1>i DEF AlreadyKilled, KillerInv, sessionVars
      <3>. QED  BY <1>i, <3>1, <3>2, Untouched
    <2>2. CASE CloseMaster(k)
      <3>1. current[k] \in Sessions
        BY <1>i, <2>2 DEF CloseMaster, TypeOK
      <3>. QED  BY <1>t, <2>2, <3>1, KillKeeps
    <2>3. ASSUME NEW s \in Sessions, Signal(k, s) PROVE Rest'
      BY <1>t, <2>3, KillKeeps
    <2>. QED  BY <1>4, <2>1, <2>2, <2>3 DEF KillStep
  <1>5. ASSUME \/ UNCHANGED vars
               \/ \E s \in Sessions : ViewStep(s) \/ CloseTab(s)
               \/ \E k \in Killers : KillRequest(k) \/ KillAll(k)
               \/ ClientStalls \/ ClientResumes
        PROVE  Rest'
    <2>1. \A r \in Sessions : Same(r)
      BY <1>5 DEF ViewStep, Receive, Bind, CloseTab, KillRequest, KillAll,
         ClientStalls, ClientResumes, vars, managerVars, sessionVars, childVars,
         Same
    <2>2. KillerInv'
      BY <1>5, <1>i DEF ViewStep, Receive, Bind, CloseTab, KillRequest, KillAll,
         ClientStalls, ClientResumes, vars, sessionVars, killVars, KillerInv,
         TypeOK
    <2>. QED  BY <1>i, <2>1, <2>2, Untouched
  <1>. QED
    BY <1>t, <1>1, <1>2, <1>3, <1>4, <1>5 DEF Next, PtyInv

-----------------------------------------------------------------------------
(* Theorems *)

LEMMA PtyInvariant == Spec => []PtyInv
  <1>1. Init => PtyInv
    BY PtyInit, PtyAssumption
  <1>2. PtyInv /\ [Next]_vars => PtyInv'
    BY PtyStep, PtyAssumption
  <1>. QED  BY <1>1, <1>2, PTL DEF Spec

(* Every variable stays in its type, and the pump never reads more than was *)
(* written.                                                                 *)
THEOREM PtyTypes == Spec => []TypeOK
  <1>1. PtyInv => TypeOK
    BY DEF PtyInv
  <1>. QED  BY <1>1, PtyInvariant, PTL

(* A terminal is fed the output of its child, chunk by chunk, then one      *)
(* pty.exit; and all of the output, unless the session was killed           *)
(* (readPump, session.go:60-93).                                            *)
THEOREM PtyStreamIsComplete == Spec => []StreamIsComplete
  <1>1. PtyInv => StreamIsOutput
    BY DEF PtyInv, SessionInv, OutputSoFar, StreamIsOutput
  <1>2. PtyInv => ExitIsComplete
    <2>. SUFFICES ASSUME PtyInv, NEW s \in Sessions, Announced(s), s \notin killed,
                         NEW n \in 1..produced[s]
                  PROVE  \E i \in 1..Len(sent[s]) : sent[s][i] = Data(n)
      BY DEF ExitIsComplete
    <2>1. pump[s] \in {"remove", "gone"} /\ read[s] = produced[s]
      BY DEF PtyInv, SessionInv, ExitIsLast, PumpReadsOn, Drained
    <2>2. n \in 1..Emitted(s)
      BY <2>1 DEF Emitted
    <2>. QED  BY <2>2 DEF PtyInv, SessionInv, DataIsRead
  <1>3. PtyInv => StreamIsComplete
    BY <1>1, <1>2 DEF StreamIsComplete
  <1>. QED  BY <1>3, PtyInvariant, PTL

(* Whoever knows the id of a session that has not announced its end finds   *)
(* it in the manager (Manager.get, manager.go:47-83).                       *)
THEOREM PtyLiveIsListed == Spec => []LiveIsListed
  <1>1. PtyInv => LiveIsListed
    BY DEF PtyInv, SessionInv, InsertedIsListed, Replied, ExitIsLast, LiveIsListed
  <1>. QED  BY <1>1, PtyInvariant, PTL
=============================================================================
