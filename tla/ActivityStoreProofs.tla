------------------------- MODULE ActivityStoreProofs ------------------------
(***************************************************************************)
(* The activity store implements EventLog for any number of calls,         *)
(* sessions, subscribers and restarts, any ring size and any writes that   *)
(* fail; and Replay is right on any log that is in order.                  *)
(***************************************************************************)
EXTENDS ActivityStore, FiniteSetTheorems, SequenceTheorems, WellFoundedInduction,
        TLAPS

(* The calls that have taken a number, in this run or an earlier one. *)
Numbered == {c \in Callers : pc[c] \notin {"idle", "called"}}

(* Each takes one, so that numbers stay within their type. *)
NumbersAreTaken == seq <= Cardinality(Numbered)

StoreInv == TypeOK /\ NumbersAreTaken

(* The ring r has the newest of what the history h has after its first.     *)
IsEnd(r, h, old) ==
    /\ Len(r) = IF RingSize < Len(h) - old THEN RingSize ELSE Len(h) - old
    /\ \A j \in 1..Len(r) : r[j] = h[Len(h) - Len(r) + j]

(* The events of this run are the last of the history, and the ring has the *)
(* newest of them.                                                          *)
RingInv(s) ==
    LET h == history[s]
    IN \E old \in 0..Len(h) :
        /\ OfThisRun(s) = old + 1 .. Len(h)
        /\ IsEnd(ring[s], h, old)
        /\ \A i \in 1..Len(h) : h[i].run <= run

(* The file is what is left of the history without some events; a torn line *)
(* makes room for the one that will be lost behind it.                      *)
IsRest(log, all, kept) ==
    /\ Cardinality(kept) = Len(log)
    /\ \A i \in kept : all[i] = log[Cardinality({j \in kept : j <= i})]

FileInv(s) ==
    /\ \E kept \in SUBSET DOMAIN history[s] :
          IsRest(file[s].lines, history[s], kept)
    /\ Len(history[s]) - Len(file[s].lines) + (IF file[s].torn THEN 1 ELSE 0)
            <= 2 * fails

(* A call that runs alone began after all that its session's log has. *)
Open(s) == {c \in Callers : pc[c] = "called" /\ SessionOf[c] = s}

OrderInv(s) ==
    LET log == file[s].lines
    IN /\ Ordered(log)
       /\ \A c, d \in Open(s) : c = d
       /\ \A c \in Open(s) : event[c].ts <= now
       /\ \A i \in DOMAIN log : /\ log[i].ts <= now
                                /\ \A c \in Open(s) : log[i].ts <= event[c].ts

LogInv == \A s \in Sessions : /\ RingInv(s) /\ FileInv(s)
                              /\ s \in overlapped \/ OrderInv(s)

-----------------------------------------------------------------------------
(* Lemmas *)

(* Trim is what EventLog calls the newest events, and keeps the type.      *)
LEMMA TrimIsNewest ==
    ASSUME StoreAssumption, NEW S, NEW s \in Seq(S)
    PROVE  /\ Trim(s) = Log!Newest(s, RingSize)
           /\ Trim(s) \in Seq(S)
  <1>1. Len(s) \in Nat /\ RingSize \in Nat \ {0}
    BY DEF StoreAssumption
  <1>2. Trim(s) = Log!Newest(s, RingSize)
    BY <1>1 DEF Trim, Log!Newest
  <1>3. CASE Len(s) > RingSize
    <2>1. \A i \in Len(s) - RingSize + 1 .. Len(s) : s[i] \in S
      BY <1>1, <1>3, ElementOfSeq
    <2>2. SubSeq(s, Len(s) - RingSize + 1, Len(s)) \in Seq(S)
      BY <1>1, <2>1, SubSeqProperties
    <2>. QED  BY <1>2, <1>3, <2>2 DEF Trim
  <1>4. CASE ~(Len(s) > RingSize)
    BY <1>2, <1>4 DEF Trim
  <1>. QED  BY <1>2, <1>3, <1>4

(* A call that stores its event joins the numbered ones. *)
LEMMA NumberedGrows ==
    ASSUME StoreAssumption, TypeOK, NEW c \in Callers, pc[c] = "called",
           pc' = [pc EXCEPT ![c] = "publish"]
    PROVE  /\ Cardinality(Numbered') = Cardinality(Numbered) + 1
           /\ Cardinality(Numbered') <= Cardinality(Callers)
           /\ Cardinality(Numbered) \in Nat
           /\ Cardinality(Callers) \in Nat
  <1>1. IsFiniteSet(Callers) /\ IsFiniteSet(Numbered)
    BY FS_Subset DEF StoreAssumption, Numbered
  <1>2. Numbered' = Numbered \cup {c} /\ c \notin Numbered
    BY DEF Numbered, TypeOK
  <1>3. Numbered' \subseteq Callers
    BY DEF Numbered
  <1>. QED  BY <1>1, <1>2, <1>3, FS_AddElement, FS_Subset, FS_CardinalityType

(* Other steps do not lose a numbered call. *)
LEMMA NumberedStays ==
    ASSUME StoreAssumption, NumbersAreTaken, seq \in Nat,
           seq' = seq \/ seq' = 0, Numbered \subseteq Numbered'
    PROVE  NumbersAreTaken'
  <1>1. IsFiniteSet(Numbered') /\ IsFiniteSet(Numbered)
    BY FS_Subset DEF StoreAssumption, Numbered
  <1>2. /\ Cardinality(Numbered) <= Cardinality(Numbered')
        /\ Cardinality(Numbered) \in Nat
        /\ Cardinality(Numbered') \in Nat
    BY <1>1, FS_Subset, FS_CardinalityType
  <1>. QED  BY <1>2 DEF NumbersAreTaken

(* An event with another time is an event. *)
LEMMA EventAt ==
    ASSUME NEW x \in Events, NEW t \in 0..MaxTime
    PROVE  [x EXCEPT !.ts = t] \in Events
  BY DEF Events

(* A channel with room for another event, or with one to receive. *)
LEMMA ChannelRoom ==
    ASSUME NEW room \in Nat, NEW n \in 0..room
    PROVE  /\ n < room => n + 1 \in 0..room
           /\ n > 0 => n - 1 \in 0..room
  OBVIOUS

-----------------------------------------------------------------------------
LEMMA StoreInit ==
    ASSUME StoreAssumption, Init
    PROVE  StoreInv /\ Log!Init
  <1>1. Cardinality(Callers) \in Nat /\ Cardinality(Numbered) \in Nat
    BY FS_Subset, FS_CardinalityType DEF StoreAssumption, Numbered
  <1>2. \A c \in Callers : NoEvent(c) \in Events
    BY <1>1 DEF NoEvent, Events, StoreAssumption
  <1>3. NumbersAreTaken
    BY <1>1 DEF Init, NumbersAreTaken
  <1>4. TypeOK
    BY <1>1, <1>2 DEF Init, TypeOK, EmptyFile, StoreAssumption
  <1>5. Log!Init
    BY DEF Init, Log!Init, EmptyFile
  <1>. QED  BY <1>3, <1>4, <1>5 DEF StoreInv

(* What the log is for EventLog. *)
Lines == [s \in Sessions |-> file[s].lines]

LEMMA RecordIsStep ==
    ASSUME NEW s \in Sessions, NEW e \in Events,
           \/ Lines' = [Lines EXCEPT ![s] = Append(@, e)]
           \/ Lines' = Lines,
           ring' = [ring EXCEPT ![s] = Log!Newest(Append(@, e), RingSize)]
    PROVE  Log!Next
  <1>1. Log!Record(s, e)
    BY DEF Log!Record, Lines
  <1>. QED  BY <1>1 DEF Log!Next

(* The critical section records the event. *)
LEMMA StoreRecords ==
    ASSUME StoreAssumption, StoreInv, NEW c \in Callers, Store(c)
    PROVE  StoreInv' /\ Log!Next
  <1>. DEFINE s == SessionOf[c]
              e == [event[c] EXCEPT !.run = run, !.seq = seq + 1]
  <1>0. TypeOK /\ NumbersAreTaken /\ s \in Sessions
    BY DEF StoreInv, StoreAssumption
  <1>1. /\ pc[c] = "called"
        /\ pc' = [pc EXCEPT ![c] = "publish"]
        /\ seq' = seq + 1
        /\ event' = [event EXCEPT ![c] = e]
        /\ ring' = [ring EXCEPT ![s] = Trim(Append(@, e))]
        /\ history' = [history EXCEPT ![s] = Append(@, e)]
        /\ Persist(s, e)
        /\ todo' = [todo EXCEPT ![c] = {u \in Subs : subs[u] = "open"}]
        /\ UNCHANGED <<run, subs, chan, now, overlapped>>
    BY DEF Store, subVars
  <1>2. /\ Cardinality(Numbered') = Cardinality(Numbered) + 1
        /\ Cardinality(Numbered') <= Cardinality(Callers)
        /\ Cardinality(Numbered) \in Nat
        /\ Cardinality(Callers) \in Nat
    BY <1>0, <1>1, NumberedGrows
  <1>3. seq \in Nat /\ seq + 1 \in 0..Cardinality(Callers) /\ NumbersAreTaken'
    <2>1. seq \in Nat /\ seq <= Cardinality(Numbered)
      BY <1>0 DEF TypeOK, NumbersAreTaken
    <2>2. seq + 1 <= Cardinality(Numbered') /\ seq' = seq + 1
      BY <1>1, <1>2, <2>1
    <2>3. seq + 1 \in 0..Cardinality(Callers)
      BY <1>2, <2>1, <2>2
    <2>. QED  BY <2>1, <2>2, <2>3 DEF NumbersAreTaken
  <1>4. e \in Events
    <2>1. event[c] \in Events /\ run \in 1..MaxRuns
      BY <1>0 DEF TypeOK
    <2>. QED  BY <1>3, <2>1 DEF Events
  <1>5. ring[s] \in Seq(Events) /\ Append(ring[s], e) \in Seq(Events)
    BY <1>0, <1>4 DEF TypeOK
  <1>6. /\ Trim(Append(ring[s], e)) = Log!Newest(Append(ring[s], e), RingSize)
        /\ Trim(Append(ring[s], e)) \in Seq(Events)
    BY <1>5, TrimIsNewest
  <1>7. /\ file' \in [Sessions -> [lines : Seq(Events), torn : BOOLEAN]]
        /\ fails' \in 0..MaxFails
        /\ \/ Lines' = [Lines EXCEPT ![s] = Append(@, e)]
           \/ Lines' = Lines
    <2>1. file[s] \in [lines : Seq(Events), torn : BOOLEAN]
      BY <1>0 DEF TypeOK
    <2>2. Append(file[s].lines, e) \in Seq(Events)
      BY <1>4, <2>1
    <2>3. CASE file' = [file EXCEPT ![s] = Written(@, e)] /\ UNCHANGED fails
      <3>1. CASE file[s].torn
        BY <1>0, <2>1, <2>3, <3>1 DEF Written, TypeOK, Lines
      <3>2. CASE ~file[s].torn
        BY <1>0, <2>1, <2>2, <2>3, <3>2 DEF Written, TypeOK, Lines
      <3>. QED  BY <3>1, <3>2
    <2>4. CASE /\ fails < MaxFails
               /\ fails' = fails + 1
               /\ \/ UNCHANGED file
                  \/ file' = [file EXCEPT ![s].torn = TRUE]
      <3>1. fails' \in 0..MaxFails
        BY <1>0, <2>4 DEF TypeOK, StoreAssumption
      <3>2. CASE UNCHANGED file
        BY <1>0, <3>1, <3>2 DEF TypeOK, Lines
      <3>3. CASE file' = [file EXCEPT ![s].torn = TRUE]
        <4>1. file' \in [Sessions -> [lines : Seq(Events), torn : BOOLEAN]]
          BY <1>0, <2>1, <3>3 DEF TypeOK
        <4>2. \A r \in Sessions : file'[r].lines = file[r].lines
          BY <1>0, <2>1, <3>3 DEF TypeOK
        <4>. QED  BY <3>1, <4>1, <4>2 DEF Lines
      <3>. QED  BY <2>4, <3>2, <3>3
    <2>. QED  BY <1>1, <2>3, <2>4 DEF Persist
  <1>8. TypeOK'
    <2>1. ring' \in [Sessions -> Seq(Events)]
      BY <1>0, <1>1, <1>6 DEF TypeOK
    <2>2. history' \in [Sessions -> Seq(Events)]
      BY <1>0, <1>1, <1>4 DEF TypeOK
    <2>3. event' \in [Callers -> Events]
      BY <1>0, <1>1, <1>4 DEF TypeOK
    <2>4. /\ pc' \in [Callers -> {"idle", "called", "publish", "done",
                                 "panicked", "lost"}]
          /\ todo' \in [Callers -> SUBSET Subs]
      BY <1>0, <1>1 DEF TypeOK
    <2>. QED
      BY <1>0, <1>1, <1>3, <1>7, <2>1, <2>2, <2>3, <2>4 DEF TypeOK, Events
  <1>9. ring' = [ring EXCEPT ![s] = Log!Newest(Append(@, e), RingSize)]
    BY <1>1, <1>6
  <1>10. Log!Next
    <2>. HIDE DEF s, e
    <2>. QED  BY <1>0, <1>4, <1>7, <1>9, RecordIsStep
  <1>. QED  BY <1>3, <1>8, <1>10 DEF StoreInv

(* A restart forgets what is at hand and keeps the log. *)
LEMMA RestartForgets ==
    ASSUME StoreAssumption, StoreInv, Restart
    PROVE  StoreInv' /\ Log!Next
  <1>0. TypeOK /\ NumbersAreTaken
    BY DEF StoreInv
  <1>1. Numbered \subseteq Numbered'
    BY <1>0 DEF Restart, Numbered, TypeOK
  <1>2. NumbersAreTaken'
    BY <1>0, <1>1, NumberedStays DEF Restart, TypeOK
  <1>3. TypeOK'
    <2>1. pc' \in [Callers -> {"idle", "called", "publish", "done",
                              "panicked", "lost"}]
      BY <1>0 DEF Restart, TypeOK
    <2>2. run' \in 1..MaxRuns /\ seq' \in 0..Cardinality(Callers)
      <3>1. Cardinality(Callers) \in Nat
        BY FS_CardinalityType DEF StoreAssumption
      <3>2. run \in 1..MaxRuns /\ MaxRuns \in Nat
        BY <1>0 DEF TypeOK, StoreAssumption
      <3>. QED  BY <3>1, <3>2 DEF Restart
    <2>3. /\ subs' \in [Subs -> {"none", "open", "closed"}]
          /\ chan' \in [Subs -> 0..SubRoom]
          /\ ring' \in [Sessions -> Seq(Events)]
          /\ todo' \in [Callers -> SUBSET Subs]
      BY DEF Restart, StoreAssumption
    <2>. QED
      BY <1>0, <2>1, <2>2, <2>3 DEF Restart, TypeOK, Events
  <1>4. Log!Restart
    BY DEF Restart, Log!Restart
  <1>. QED  BY <1>2, <1>3, <1>4 DEF StoreInv, Log!Next

(* The other steps leave both the log and the ring alone. *)
LEMMA OthersStutter ==
    ASSUME StoreAssumption, StoreInv,
           \/ UNCHANGED vars
           \/ Tick
           \/ \E u \in Subs : Subscribe(u) \/ Receive(u) \/ Unsubscribe(u)
           \/ \E c \in Callers :
                 \/ Begin(c) \/ Return(c)
                 \/ \E u \in Subs : Publish(c, u) \/ PublishPanics(c, u)
    PROVE  StoreInv' /\ UNCHANGED Log!vars
  <1>0. TypeOK /\ NumbersAreTaken
    BY DEF StoreInv
  <1>1. UNCHANGED storeVars
    BY DEF vars, Tick, Subscribe, Receive, Unsubscribe, Begin, Return, Publish,
           PublishPanics
  <1>2. Numbered \subseteq Numbered'
    BY <1>0 DEF vars, callVars, Tick, Subscribe, Receive, Unsubscribe, Begin,
           Return, Publish, PublishPanics, Numbered, TypeOK
  <1>3. NumbersAreTaken'
    BY <1>0, <1>1, <1>2, NumberedStays DEF storeVars, TypeOK
  <1>4. TypeOK'
    <2>. USE <1>0, <1>1 DEF TypeOK, storeVars, subVars, callVars, Events
    <2>1. CASE UNCHANGED vars
      BY <2>1 DEF vars
    <2>2. CASE Tick
      <3>1. now' \in 0..MaxTime
        BY <2>2 DEF Tick, StoreAssumption
      <3>. QED  BY <2>2, <3>1 DEF Tick
    <2>3. ASSUME NEW u \in Subs, Subscribe(u) \/ Receive(u) \/ Unsubscribe(u)
          PROVE  TypeOK'
      <3>1. /\ subs' \in [Subs -> {"none", "open", "closed"}]
            /\ UNCHANGED callVars
        BY <2>3 DEF Subscribe, Receive, Unsubscribe
      <3>2. chan[u] \in 0..SubRoom /\ SubRoom \in Nat
        BY DEF StoreAssumption
      <3>3. chan' \in [Subs -> 0..SubRoom]
        <4>1. chan[u] > 0 => chan[u] - 1 \in 0..SubRoom
          BY <3>2, ChannelRoom
        <4>. QED  BY <2>3, <4>1 DEF Subscribe, Receive, Unsubscribe
      <3>. QED  BY <3>1, <3>3
    <2>4. ASSUME NEW c \in Callers, Begin(c) PROVE TypeOK'
      <3>1. event' \in [Callers -> Events]
        <4>. HIDE DEF Events
        <4>1. event[c] \in Events /\ now \in 0..MaxTime
          OBVIOUS
        <4>2. [event[c] EXCEPT !.ts = now] \in Events
          BY <4>1, EventAt
        <4>. QED  BY <2>4, <4>2 DEF Begin
      <3>2. overlapped' \subseteq Sessions
        BY <2>4 DEF Begin, StoreAssumption
      <3>. QED  BY <2>4, <3>1, <3>2 DEF Begin
    <2>5. ASSUME NEW c \in Callers, Return(c) PROVE TypeOK'
      BY <2>5 DEF Return
    <2>6. ASSUME NEW c \in Callers, NEW u \in Subs, Publish(c, u) PROVE TypeOK'
      <3>1. chan[u] \in 0..SubRoom /\ SubRoom \in Nat
        BY DEF StoreAssumption
      <3>2. chan' \in [Subs -> 0..SubRoom]
        <4>1. chan[u] < SubRoom => chan[u] + 1 \in 0..SubRoom
          BY <3>1, ChannelRoom
        <4>2. CASE chan[u] < SubRoom
          <5>1. chan' = [chan EXCEPT ![u] = chan[u] + 1]
            BY <2>6, <4>2 DEF Publish
          <5>. QED  BY <4>1, <4>2, <5>1
        <4>3. CASE ~(chan[u] < SubRoom)
          BY <2>6, <4>3 DEF Publish
        <4>. QED  BY <4>2, <4>3
      <3>3. todo' \in [Callers -> SUBSET Subs]
        BY <2>6 DEF Publish
      <3>. QED  BY <2>6, <3>2, <3>3 DEF Publish
    <2>7. ASSUME NEW c \in Callers, NEW u \in Subs, PublishPanics(c, u)
          PROVE  TypeOK'
      BY <2>7 DEF PublishPanics
    <2>. QED  BY <2>1, <2>2, <2>3, <2>4, <2>5, <2>6, <2>7
  <1>. QED  BY <1>1, <1>3, <1>4 DEF StoreInv, storeVars, Log!vars

LEMMA StoreStep ==
    ASSUME StoreAssumption, StoreInv, [Next]_vars
    PROVE  StoreInv' /\ [Log!Next]_(Log!vars)
  BY StoreRecords, RestartForgets, OthersStutter DEF Next, CallerStep

-----------------------------------------------------------------------------
(* Rings, files and their order *)

LEMMA TrimElements ==
    ASSUME StoreAssumption, NEW S, NEW q \in Seq(S)
    PROVE  /\ Len(Trim(q)) = IF RingSize < Len(q) THEN RingSize ELSE Len(q)
           /\ \A j \in 1..Len(Trim(q)) : Trim(q)[j] = q[Len(q) - Len(Trim(q)) + j]
  <1>1. Len(q) \in Nat /\ RingSize \in Nat \ {0}
    BY DEF StoreAssumption
  <1>2. CASE Len(q) > RingSize
    <2>. DEFINE m == Len(q) - RingSize + 1
    <2>1. \A i \in m..Len(q) : q[i] \in S
      BY <1>1, <1>2, ElementOfSeq
    <2>2. /\ Len(SubSeq(q, m, Len(q))) = IF m <= Len(q) THEN Len(q) - m + 1 ELSE 0
          /\ \A i \in 1 .. Len(q) - m + 1 : SubSeq(q, m, Len(q))[i] = q[m + i - 1]
      BY <1>1, <1>2, <2>1, SubSeqProperties
    <2>. QED  BY <1>1, <1>2, <2>2 DEF Trim
  <1>3. CASE ~(Len(q) > RingSize)
    BY <1>1, <1>3 DEF Trim
  <1>. QED  BY <1>1, <1>2, <1>3

IsMore(longer, q, e) ==
    /\ Len(longer) = Len(q) + 1
    /\ longer[Len(q) + 1] = e
    /\ \A i \in 1..Len(q) : longer[i] = q[i]

(* The ring r stays the end of the history h when both get an event. *)
LEMMA EndMoves ==
    ASSUME StoreAssumption, NEW h, NEW r, NEW e, NEW all, NEW more, NEW ring2,
           Len(h) \in Nat, Len(r) \in Nat, NEW old \in 0..Len(h),
           IsEnd(r, h, old), IsMore(all, h, e), IsMore(more, r, e),
           IsEnd(ring2, more, 0)
    PROVE  IsEnd(ring2, all, old)
  <1>1. PICK n \in Nat, m \in Nat, z \in Nat \ {0} :
          n = Len(h) /\ m = Len(r) /\ z = RingSize
    BY DEF StoreAssumption
  <1>2. /\ old \in 0..n
        /\ m = IF z < n - old THEN z ELSE n - old
        /\ \A j \in 1..m : r[j] = h[n - m + j]
    BY <1>1 DEF IsEnd
  <1>3. Len(all) = n + 1 /\ all[n + 1] = e /\ \A i \in 1..n : all[i] = h[i]
    BY <1>1 DEF IsMore
  <1>4. Len(more) = m + 1 /\ more[m + 1] = e /\ \A i \in 1..m : more[i] = r[i]
    BY <1>1 DEF IsMore
  <1>5. PICK k \in Nat : /\ k = Len(ring2)
                         /\ k = IF z < m + 1 THEN z ELSE m + 1
                         /\ \A j \in 1..k : ring2[j] = more[m + 1 - k + j]
    <2>1. /\ Len(ring2) = IF z < (m + 1) - 0 THEN z ELSE (m + 1) - 0
          /\ \A j \in 1..Len(ring2) :
                ring2[j] = more[(m + 1) - Len(ring2) + j]
      BY <1>1, <1>4, Zenon DEF IsEnd
    <2>2. PICK k \in Nat : k = IF z < m + 1 THEN z ELSE m + 1
      OBVIOUS
    <2>3. Len(ring2) = k
      BY <2>1, <2>2
    <2>. QED  BY <2>1, <2>2, <2>3
  <1>6. k \in 1..m + 1 /\ m <= n
    BY <1>2, <1>5
  <1>7. \A j \in 1..m + 1 : more[j] = all[n - m + j]
    <2>. TAKE j \in 1..m + 1
    <2>1. CASE j = m + 1
      BY <1>3, <1>4, <2>1
    <2>2. CASE j \in 1..m
      <3>1. n - m + j \in 1..n
        BY <1>6, <2>2
      <3>. QED  BY <1>2, <1>3, <1>4, <2>2, <3>1
    <2>. QED  BY <2>1, <2>2
  <1>8. \A j \in 1..k : ring2[j] = all[n + 1 - k + j]
    <2>. TAKE j \in 1..k
    <2>. DEFINE i == m + 1 - k + j
    <2>1. i \in 1..m + 1 /\ n - m + i = n + 1 - k + j
      BY <1>6
    <2>2. more[i] = all[n - m + i]
      BY <1>7, <2>1
    <2>. QED  BY <1>5, <2>1, <2>2
  <1>9. k = IF z < n + 1 - old THEN z ELSE n + 1 - old
    BY <1>2, <1>5
  <1>10. Len(ring2) = IF RingSize < Len(all) - old THEN RingSize
                      ELSE Len(all) - old
    BY <1>1, <1>3, <1>5, <1>9
  <1>11. \A j \in 1..Len(ring2) : ring2[j] = all[Len(all) - Len(ring2) + j]
    <2>1. Len(all) - Len(ring2) = n + 1 - k
      BY <1>3, <1>5
    <2>. QED  BY <1>5, <1>8, <2>1, Zenon
  <1>. QED  BY <1>10, <1>11 DEF IsEnd

LEMMA IsMoreAppend ==
    ASSUME NEW S, NEW q \in Seq(S), NEW e \in S
    PROVE  IsMore(Append(q, e), q, e) /\ Append(q, e) \in Seq(S)
  BY DEF IsMore

LEMMA RingGrows ==
    ASSUME StoreAssumption, NEW S, NEW h \in Seq(S), NEW r \in Seq(S), NEW e \in S,
           NEW old \in 0..Len(h), IsEnd(r, h, old)
    PROVE  IsEnd(Trim(Append(r, e)), Append(h, e), old)
  <1>1. IsMore(Append(h, e), h, e) /\ IsMore(Append(r, e), r, e)
    BY IsMoreAppend
  <1>2. PICK more \in Seq(S) : more = Append(r, e)
    BY IsMoreAppend
  <1>3. IsEnd(Trim(more), more, 0)
    BY TrimElements DEF IsEnd
  <1>4. Len(h) \in Nat /\ Len(r) \in Nat
    OBVIOUS
  <1>. QED  BY <1>1, <1>2, <1>3, <1>4, EndMoves

(* One more event in the history and in the file, or in the history only. *)
LEMMA RestGrows ==
    ASSUME NEW S, NEW log \in Seq(S), NEW all \in Seq(S), NEW e \in S,
           NEW kept \in SUBSET (DOMAIN all), IsRest(log, all, kept)
    PROVE  /\ IsRest(log, Append(all, e), kept)
           /\ IsRest(Append(log, e), Append(all, e), kept \cup {Len(all) + 1})
  <1>. DEFINE n == Len(all) + 1
              more == kept \cup {n}
  <1>1. /\ Len(all) \in Nat /\ Len(log) \in Nat
        /\ DOMAIN all = 1..Len(all)
        /\ \A i \in 1..Len(all) : Append(all, e)[i] = all[i]
        /\ Append(all, e)[n] = e
        /\ Len(Append(log, e)) = Len(log) + 1
        /\ \A i \in 1..Len(log) : Append(log, e)[i] = log[i]
        /\ Append(log, e)[Len(log) + 1] = e
    OBVIOUS
  <1>2. IsFiniteSet(kept) /\ n \notin kept /\ kept \subseteq Nat /\ n \in Nat
    <2>1. kept \subseteq 1..Len(all)
      BY <1>1
    <2>2. IsFiniteSet(1..Len(all))
      BY <1>1, FS_Interval
    <2>3. IsFiniteSet(kept)
      BY <2>1, <2>2, FS_Subset
    <2>. QED  BY <1>1, <2>1, <2>3
  <1>3. Cardinality(more) = Len(log) + 1
    BY <1>2, FS_AddElement DEF IsRest
  <1>4. \A i \in kept : Cardinality({j \in kept : j <= i}) \in 1..Len(log)
    <2>. TAKE i \in kept
    <2>. DEFINE low == {j \in kept : j <= i}
    <2>1. /\ IsFiniteSet(low)
          /\ Cardinality(low) \in Nat
          /\ Cardinality(low) <= Len(log)
      BY <1>2, FS_Subset, FS_CardinalityType DEF IsRest
    <2>2. Cardinality(low) # 0
      <3>1. i \in low
        BY <1>2
      <3>. QED  BY <2>1, <3>1, FS_EmptySet
    <2>. HIDE DEF low
    <2>3. Cardinality(low) \in 1..Len(log)
      BY <1>1, <2>1, <2>2
    <2>. QED  BY <2>3 DEF low
  <1>5. IsRest(log, Append(all, e), kept)
    BY <1>1 DEF IsRest
  <1>6. \A i \in kept : {j \in more : j <= i} = {j \in kept : j <= i}
    BY <1>1, <1>2
  <1>7. {j \in more : j <= n} = more
    BY <1>1, <1>2
  <1>8. \A i \in more : Append(all, e)[i] =
                          Append(log, e)[Cardinality({j \in more : j <= i})]
    <2>. TAKE i \in more
    <2>1. CASE i = n
      BY <1>1, <1>3, <1>7, <2>1
    <2>2. CASE i \in kept
      BY <1>1, <1>4, <1>6, <2>2 DEF IsRest
    <2>. QED  BY <2>1, <2>2
  <1>. QED  BY <1>1, <1>3, <1>5, <1>8 DEF IsRest

(* What other steps do to a session. *)
LEMMA RingSame ==
    ASSUME NEW s, RingInv(s), run' = run,
           ring'[s] = ring[s], history'[s] = history[s]
    PROVE  RingInv(s)'
  BY DEF RingInv, OfThisRun, IsEnd

LEMMA FileSame ==
    ASSUME TypeOK, NEW s \in Sessions, FileInv(s), fails' \in Nat, fails <= fails',
           file'[s] = file[s], history'[s] = history[s]
    PROVE  FileInv(s)'
  <1>1. PICK n \in Nat, m \in Nat, a \in Nat, b \in Nat :
            /\ n = Len(history[s]) /\ m = Len(file[s].lines)
            /\ a = fails /\ b = fails'
    BY DEF TypeOK
  <1>2. (\E kept \in SUBSET DOMAIN history[s] :
            IsRest(file[s].lines, history[s], kept))'
    BY DEF FileInv, IsRest
  <1>3. PICK torn \in {0, 1} : torn = IF file[s].torn THEN 1 ELSE 0
    OBVIOUS
  <1>4. n - m + torn <= 2 * a
    BY <1>1, <1>3, Zenon DEF FileInv
  <1>5. a <= b
    BY <1>1
  <1>6. n - m + torn <= 2 * b
    BY <1>4, <1>5
  <1>7. (Len(history[s]) - Len(file[s].lines) + (IF file[s].torn THEN 1 ELSE 0)
            <= 2 * fails)'
    BY <1>1, <1>3, <1>6, Zenon
  <1>. QED  BY <1>2, <1>7 DEF FileInv

LEMMA OrderSame ==
    ASSUME TypeOK, NEW s \in Sessions, OrderInv(s), now' \in Nat, now <= now',
           file'[s] = file[s], Open(s)' \subseteq Open(s),
           \A c \in Open(s)' : event'[c] = event[c]
    PROVE  OrderInv(s)'
  <1>1. /\ now \in Nat
        /\ \A c \in Open(s) : event[c].ts \in Nat
        /\ \A i \in DOMAIN file[s].lines : file[s].lines[i].ts \in Nat
    <2>1. file[s].lines \in Seq(Events)
      BY DEF TypeOK
    <2>2. \A i \in DOMAIN file[s].lines : file[s].lines[i] \in Events
      BY <2>1
    <2>3. \A c \in Open(s) : event[c] \in Events
      BY DEF TypeOK, Open
    <2>4. now \in Nat
      BY DEF TypeOK
    <2>. QED  BY <2>2, <2>3, <2>4 DEF Events
  <1>2. /\ Ordered(file[s].lines)'
        /\ \A c, d \in Open(s)' : c = d
    BY DEF OrderInv, Ordered
  <1>3. \A c \in Open(s)' : event'[c].ts <= now'
    BY <1>1 DEF OrderInv
  <1>4. \A i \in DOMAIN file'[s].lines :
            /\ file'[s].lines[i].ts <= now'
            /\ \A c \in Open(s)' : file'[s].lines[i].ts <= event'[c].ts
    BY <1>1 DEF OrderInv
  <1>. QED  BY <1>2, <1>3, <1>4 DEF OrderInv

LEMMA LogInit ==
    ASSUME StoreAssumption, Init
    PROVE  LogInv
  <1>. SUFFICES ASSUME NEW s \in Sessions
                PROVE  RingInv(s) /\ FileInv(s) /\ OrderInv(s)
    BY DEF LogInv
  <1>1. /\ history[s] = <<>> /\ ring[s] = <<>> /\ file[s] = EmptyFile
        /\ Open(s) = {} /\ fails = 0
    BY DEF Init, Open
  <1>2. RingInv(s)
    <2>1. 0 \in 0..Len(history[s]) /\ OfThisRun(s) = 0 + 1 .. Len(history[s])
      BY <1>1 DEF OfThisRun
    <2>2. IsEnd(ring[s], history[s], 0)
      BY <1>1 DEF IsEnd, StoreAssumption
    <2>. QED  BY <1>1, <2>1, <2>2 DEF RingInv
  <1>3. FileInv(s)
    <2>1. IsRest(file[s].lines, history[s], {})
      BY <1>1, FS_EmptySet DEF IsRest, EmptyFile
    <2>. QED  BY <1>1, <2>1 DEF FileInv, EmptyFile
  <1>4. OrderInv(s)
    BY <1>1 DEF OrderInv, Ordered, EmptyFile
  <1>. QED  BY <1>2, <1>3, <1>4

LEMMA LogBegin ==
    ASSUME StoreAssumption, TypeOK, LogInv, NEW c \in Callers, Begin(c)
    PROVE  LogInv'
  <1>. SUFFICES ASSUME NEW s \in Sessions
                PROVE  /\ RingInv(s)' /\ FileInv(s)'
                       /\ s \in overlapped' \/ OrderInv(s)'
    BY DEF LogInv
  <1>1. /\ pc[c] = "idle"
        /\ pc' = [pc EXCEPT ![c] = "called"]
        /\ event' = [event EXCEPT ![c].ts = now]
        /\ UNCHANGED <<run, ring, file, fails, history, now>>
        /\ overlapped \subseteq overlapped'
    BY DEF Begin, storeVars
  <1>2. fails \in Nat /\ now \in Nat
    BY DEF TypeOK
  <1>3. RingInv(s)' /\ FileInv(s)'
    BY <1>1, <1>2, RingSame, FileSame DEF LogInv
  <1>4. ASSUME s \notin overlapped' PROVE OrderInv(s)'
    <2>1. OrderInv(s)
      BY <1>1, <1>4 DEF LogInv
    <2>2. CASE SessionOf[c] # s
      <3>1. Open(s)' = Open(s) /\ \A d \in Open(s)' : event'[d] = event[d]
        BY <1>1, <2>2 DEF Open, TypeOK
      <3>. QED  BY <1>1, <1>2, <2>1, <3>1, OrderSame
    <2>3. CASE SessionOf[c] = s
      <3>1. Open(s) = {}
        BY <1>4, <2>3 DEF Begin, Open
      <3>2. Open(s)' = {c}
        BY <1>1, <2>3, <3>1 DEF Open, TypeOK
      <3>3. event'[c].ts = now
        BY <1>1 DEF TypeOK, Events
      <3>. QED  BY <1>1, <1>2, <2>1, <3>2, <3>3 DEF OrderInv, Ordered
    <2>. QED  BY <2>2, <2>3
  <1>. QED  BY <1>3, <1>4

LEMMA LogRestart ==
    ASSUME StoreAssumption, TypeOK, LogInv, Restart
    PROVE  LogInv'
  <1>. SUFFICES ASSUME NEW s \in Sessions
                PROVE  /\ RingInv(s)' /\ FileInv(s)'
                       /\ s \in overlapped' \/ OrderInv(s)'
    BY DEF LogInv
  <1>1. /\ run' = run + 1 /\ run \in Nat
        /\ ring'[s] = <<>>
        /\ UNCHANGED <<file, fails, history, now, event, overlapped>>
        /\ fails \in Nat /\ now \in Nat
    BY DEF Restart, TypeOK, StoreAssumption
  <1>2. FileInv(s)'
    BY <1>1, FileSame DEF LogInv
  <1>3. RingInv(s)'
    <2>1. PICK h \in Seq(Events), n \in Nat : h = history[s] /\ n = Len(h)
      BY DEF TypeOK
    <2>2. \A i \in 1..n : h[i].run \in Nat /\ h[i].run <= run
      <3>1. \A i \in 1..n : h[i] \in Events
        BY <2>1
      <3>2. \A i \in 1..n : h[i].run \in Nat
        BY <3>1 DEF Events
      <3>3. \A i \in 1..n : h[i].run <= run
        BY <2>1 DEF LogInv, RingInv
      <3>. QED  BY <3>2, <3>3
    <2>3. /\ n \in 0..n
          /\ {i \in DOMAIN h : h[i].run = run'} = n + 1 .. n
          /\ \A i \in 1..n : h[i].run <= run'
      BY <1>1, <2>1, <2>2
    <2>4. IsEnd(<<>>, h, n)
      BY <2>1 DEF IsEnd, StoreAssumption
    <2>5. IsEnd(ring[s], history[s], n)'
      BY <1>1, <2>1, <2>4 DEF IsEnd
    <2>6. OfThisRun(s)' = n + 1 .. n
      BY <1>1, <2>1, <2>3 DEF OfThisRun
    <2>. QED  BY <1>1, <2>1, <2>3, <2>5, <2>6 DEF RingInv
  <1>4. Open(s)' = {}
    BY DEF Restart, Open
  <1>5. s \notin overlapped => OrderInv(s)'
    BY <1>1, <1>4, OrderSame DEF LogInv
  <1>. QED  BY <1>1, <1>2, <1>3, <1>5

(* Other steps leave the log alone, and what runs. *)
LEMMA LogOthers ==
    ASSUME StoreAssumption, TypeOK, LogInv,
           UNCHANGED <<run, ring, file, fails, history, event, overlapped>>,
           now' \in Nat, now <= now',
           \A c \in Callers : pc'[c] = "called" => pc[c] = "called"
    PROVE  LogInv'
  <1>. SUFFICES ASSUME NEW s \in Sessions
                PROVE  /\ RingInv(s)' /\ FileInv(s)'
                       /\ s \in overlapped' \/ OrderInv(s)'
    BY DEF LogInv
  <1>1. fails \in Nat
    BY DEF TypeOK
  <1>2. RingInv(s)' /\ FileInv(s)'
    BY <1>1, RingSame, FileSame DEF LogInv
  <1>3. Open(s)' \subseteq Open(s)
    BY DEF Open
  <1>4. s \notin overlapped => OrderInv(s)'
    BY <1>3, OrderSame DEF LogInv
  <1>. QED  BY <1>2, <1>4

(* The event of the critical section becomes the last of its session.      *)
LEMMA RingOfStore ==
    ASSUME StoreAssumption, NEW s, NEW h \in Seq(Events), NEW r \in Seq(Events),
           NEW e \in Events, h = history[s], r = ring[s], RingInv(s),
           run \in Nat, run' = run, e.run = run,
           ring'[s] = Trim(Append(r, e)), history'[s] = Append(h, e)
    PROVE  RingInv(s)'
  <1>1. PICK old \in 0..Len(h) :
            /\ OfThisRun(s) = old + 1 .. Len(h)
            /\ IsEnd(r, h, old)
            /\ \A i \in 1..Len(h) : h[i].run <= run
    BY DEF RingInv
  <1>2. PICK all \in Seq(Events), n \in Nat :
            /\ all = Append(h, e) /\ n = Len(h) /\ Len(all) = n + 1
            /\ DOMAIN all = 1..n + 1 /\ DOMAIN h = 1..n
            /\ all[n + 1] = e /\ \A i \in 1..n : all[i] = h[i]
    <2>1. Append(h, e) \in Seq(Events) /\ IsMore(Append(h, e), h, e)
      BY IsMoreAppend
    <2>2. Len(h) \in Nat /\ DOMAIN h = 1..Len(h)
      OBVIOUS
    <2>3. DOMAIN Append(h, e) = 1..Len(h) + 1
      BY <2>1, <2>2 DEF IsMore
    <2>. QED  BY <2>1, <2>2, <2>3 DEF IsMore
  <1>3. IsEnd(Trim(Append(r, e)), all, old)
    BY <1>1, <1>2, RingGrows
  <1>4. IsEnd(ring[s], history[s], old)'
    BY <1>2, <1>3 DEF IsEnd
  <1>5. {i \in DOMAIN all : all[i].run = run} = old + 1 .. n + 1
    <2>1. {i \in 1..n : h[i].run = run} = old + 1 .. n
      BY <1>1, <1>2 DEF OfThisRun
    <2>2. \A i \in 1..n + 1 : all[i].run = run <=> i \in old + 1 .. n + 1
      <3>. TAKE i \in 1..n + 1
      <3>1. CASE i = n + 1
        BY <1>1, <1>2, <3>1
      <3>2. CASE i \in 1..n
        <4>1. all[i].run = run <=> i \in old + 1 .. n
          BY <1>2, <2>1, <3>2
        <4>. QED  BY <1>1, <1>2, <3>2, <4>1
      <3>. QED  BY <3>1, <3>2
    <2>. QED  BY <1>1, <1>2, <2>2
  <1>6. OfThisRun(s)' = old + 1 .. n + 1
    BY <1>2, <1>5 DEF OfThisRun
  <1>7. \A i \in 1..n + 1 : all[i].run <= run
    BY <1>1, <1>2
  <1>8. old \in 0..n + 1
    BY <1>1, <1>2
  <1>. QED  BY <1>2, <1>4, <1>6, <1>7, <1>8 DEF RingInv

(* It is written, or lost with the torn line before it, or it is not        *)
(* written, or torn: a failure pays for at most two events.                 *)
LEMMA FileMade ==
    ASSUME NEW s, NEW all, NEW log, NEW torn, NEW kept \in SUBSET DOMAIN all,
           history'[s] = all, file'[s].lines = log,
           torn = IF file'[s].torn THEN 1 ELSE 0,
           IsRest(log, all, kept), Len(all) - Len(log) + torn <= 2 * fails'
    PROVE  FileInv(s)'
  BY Zenon DEF FileInv, IsRest

LEMMA FileOfStore ==
    ASSUME StoreAssumption, TypeOK, NEW s \in Sessions, NEW e \in Events,
           FileInv(s), Persist(s, e),
           history'[s] = Append(history[s], e)
    PROVE  FileInv(s)'
  <1>1. PICK h \in Seq(Events), log \in Seq(Events), all \in Seq(Events),
             n \in Nat, m \in Nat, a \in Nat :
            /\ h = history[s] /\ log = file[s].lines /\ a = fails
            /\ all = Append(h, e) /\ n = Len(h) /\ m = Len(log)
            /\ Len(all) = n + 1 /\ DOMAIN h \subseteq DOMAIN all
            /\ n + 1 \in DOMAIN all
    <2>1. history[s] \in Seq(Events) /\ file[s].lines \in Seq(Events) /\ fails \in Nat
      BY DEF TypeOK
    <2>2. /\ Append(history[s], e) \in Seq(Events)
          /\ Len(Append(history[s], e)) = Len(history[s]) + 1
      BY <2>1
    <2>3. /\ Len(history[s]) \in Nat /\ Len(file[s].lines) \in Nat
          /\ DOMAIN history[s] \subseteq DOMAIN Append(history[s], e)
          /\ Len(history[s]) + 1 \in DOMAIN Append(history[s], e)
      BY <2>1, <2>2
    <2>. QED  BY <2>1, <2>2, <2>3, Zenon
  <1>2. PICK kept \in SUBSET DOMAIN h : IsRest(log, h, kept)
    BY <1>1 DEF FileInv
  <1>3. /\ IsRest(log, all, kept)
        /\ IsRest(Append(log, e), all, kept \cup {n + 1})
    BY <1>1, <1>2, RestGrows
  <1>4. PICK torn \in {0, 1} : torn = IF file[s].torn THEN 1 ELSE 0
    OBVIOUS
  <1>5. n - m + torn <= 2 * a
    BY <1>1, <1>4, Zenon DEF FileInv
  <1>6. file[s] \in [lines : Seq(Events), torn : BOOLEAN]
    BY DEF TypeOK
  <1>7. CASE file' = [file EXCEPT ![s] = Written(@, e)] /\ UNCHANGED fails
    <2>1. CASE file[s].torn
      <3>1. /\ file'[s].lines = log /\ file'[s].torn = FALSE
            /\ history'[s] = all /\ fails' = a
        BY <1>1, <1>6, <1>7, <2>1 DEF Written, TypeOK
      <3>2. n + 1 - m + 0 <= 2 * a
        BY <1>4, <1>5, <2>1
      <3>3. kept \in SUBSET DOMAIN all /\ 0 = IF file'[s].torn THEN 1 ELSE 0
        BY <1>1, <1>2, <3>1
      <3>4. Len(all) - Len(log) + 0 <= 2 * fails'
        <4>1. Len(all) = n + 1 /\ Len(log) = m /\ fails' = a
          BY <1>1, <3>1
        <4>. QED  BY ONLY <3>2, <4>1
      <3>. QED  BY ONLY <1>3, <3>1, <3>3, <3>4, FileMade
    <2>2. CASE ~file[s].torn
      <3>1. /\ file'[s].lines = Append(log, e) /\ file'[s].torn = FALSE
            /\ history'[s] = all /\ fails' = a
        BY <1>1, <1>6, <1>7, <2>2 DEF Written, TypeOK
      <3>2. Len(Append(log, e)) = m + 1
        BY <1>1
      <3>3. (n + 1) - (m + 1) + 0 <= 2 * a
        BY <1>4, <1>5, <2>2
      <3>4. Len(all) - Len(Append(log, e)) + 0 <= 2 * fails'
        BY <1>1, <3>1, <3>2, <3>3
      <3>5. kept \cup {n + 1} \in SUBSET DOMAIN all
        BY <1>1, <1>2
      <3>6. 0 = IF file'[s].torn THEN 1 ELSE 0
        BY <3>1
      <3>. QED  BY ONLY <1>3, <3>1, <3>4, <3>5, <3>6, FileMade
    <2>. QED  BY <2>1, <2>2
  <1>8. CASE /\ fails' = fails + 1
             /\ \/ UNCHANGED file
                \/ file' = [file EXCEPT ![s].torn = TRUE]
    <2>1. /\ file'[s].lines = log
          /\ history'[s] = all /\ fails' = a + 1
      <3>1. CASE UNCHANGED file
        BY <1>1, <1>8, <3>1
      <3>2. CASE file' = [file EXCEPT ![s].torn = TRUE]
        <4>1. file'[s] = [file[s] EXCEPT !.torn = TRUE]
          BY <3>2 DEF TypeOK
        <4>. QED  BY <1>1, <1>6, <1>8, <4>1
      <3>. QED  BY <1>8, <3>1, <3>2
    <2>2. PICK torn2 \in {0, 1} : torn2 = IF file'[s].torn THEN 1 ELSE 0
      OBVIOUS
    <2>3. n + 1 - m + torn2 <= 2 * (a + 1)
      BY <1>4, <1>5
    <2>4. Len(all) - Len(log) + torn2 <= 2 * fails'
      <3>1. Len(all) = n + 1 /\ Len(log) = m /\ fails' = a + 1
        BY <1>1, <2>1
      <3>. QED  BY ONLY <2>3, <3>1
    <2>5. kept \in SUBSET DOMAIN all
      BY <1>1, <1>2
    <2>. QED  BY ONLY <1>3, <2>1, <2>2, <2>4, <2>5, FileMade
  <1>. QED  BY <1>7, <1>8 DEF Persist

(* A call that ran alone ends in the order it began.                        *)
LEMMA OrderOfStore ==
    ASSUME StoreAssumption, TypeOK, NEW c \in Callers, NEW s \in Sessions,
           NEW e \in Events, s = SessionOf[c], pc[c] = "called",
           pc' = [pc EXCEPT ![c] = "publish"], now' = now,
           e.ts = event[c].ts, OrderInv(s), Persist(s, e)
    PROVE  OrderInv(s)'
  <1>1. PICK log \in Seq(Events), m \in Nat :
            log = file[s].lines /\ m = Len(log) /\ DOMAIN log = 1..m
    BY DEF TypeOK
  <1>2. c \in Open(s)
    BY DEF Open
  <1>3. Open(s)' = {}
    BY <1>2 DEF Open, OrderInv, TypeOK
  <1>4. file'[s].lines \in {log, Append(log, e)}
    <2>1. file[s].lines = log /\ file[s] \in [lines : Seq(Events), torn : BOOLEAN]
      BY <1>1 DEF TypeOK
    <2>2. Written(file[s], e).lines \in {log, Append(log, e)}
      BY ONLY <2>1 DEF Written
    <2>3. s \in DOMAIN file
      BY DEF TypeOK
    <2>4. CASE file' = [file EXCEPT ![s] = Written(@, e)]
      BY ONLY <2>2, <2>3, <2>4
    <2>5. CASE file' = file
      BY ONLY <2>1, <2>5
    <2>6. CASE file' = [file EXCEPT ![s].torn = TRUE]
      BY ONLY <2>1, <2>3, <2>6
    <2>. QED  BY <2>4, <2>5, <2>6 DEF Persist
  <1>5. /\ \A i \in 1..m : log[i].ts <= now /\ log[i].ts <= e.ts
        /\ e.ts <= now
        /\ Ordered(log)
    BY <1>1, <1>2 DEF OrderInv
  <1>6. ASSUME NEW more \in {log, Append(log, e)}
        PROVE  Ordered(more) /\ \A i \in DOMAIN more : more[i].ts <= now
    <2>1. CASE more = log
      BY <1>1, <1>5, <2>1
    <2>2. CASE more = Append(log, e)
      <3>1. /\ DOMAIN more = 1..m + 1 /\ more[m + 1] = e
            /\ \A i \in 1..m : more[i] = log[i]
        BY <1>1, <2>2
      <3>2. \A i \in 1..m + 1 : more[i].ts <= now
        BY <1>5, <3>1
      <3>3. ASSUME NEW i \in 1..m + 1, NEW j \in 1..m + 1, i < j
            PROVE  more[i].ts <= more[j].ts
        <4>1. i \in 1..m
          BY <3>3
        <4>2. CASE j = m + 1
          BY <1>5, <3>1, <4>1, <4>2
        <4>3. CASE j \in 1..m
          BY <1>1, <1>5, <3>1, <3>3, <4>1, <4>3 DEF Ordered
        <4>. QED  BY <4>2, <4>3
      <3>. QED  BY <3>1, <3>2, <3>3 DEF Ordered
    <2>. QED  BY <2>1, <2>2
  <1>7. Ordered(file'[s].lines) /\ \A i \in DOMAIN file'[s].lines :
                                       file'[s].lines[i].ts <= now
    BY <1>4, <1>6
  <1>. QED  BY <1>3, <1>7 DEF OrderInv, Ordered

LEMMA LogStore ==
    ASSUME StoreAssumption, TypeOK, TypeOK', LogInv, NEW c \in Callers, Store(c)
    PROVE  LogInv'
  <1>. DEFINE s == SessionOf[c]
              e == [event[c] EXCEPT !.run = run, !.seq = seq + 1]
  <1>1. /\ pc[c] = "called"
        /\ pc' = [pc EXCEPT ![c] = "publish"]
        /\ event' = [event EXCEPT ![c] = e]
        /\ ring' = [ring EXCEPT ![s] = Trim(Append(@, e))]
        /\ history' = [history EXCEPT ![s] = Append(@, e)]
        /\ Persist(s, e)
        /\ run' = run /\ now' = now /\ overlapped' = overlapped
    BY DEF Store
  <1>2. s \in Sessions /\ run \in Nat /\ now \in Nat /\ fails \in Nat
        /\ event[c] \in Events
    BY DEF TypeOK, StoreAssumption
  <1>3. e \in Events /\ e.run = run /\ e.ts = event[c].ts
    <2>1. event'[c] \in Events /\ event'[c] = e
      BY <1>1 DEF TypeOK
    <2>. QED  BY <1>2, <2>1 DEF Events
  <1>4. /\ ring[s] \in Seq(Events) /\ history[s] \in Seq(Events)
        /\ ring'[s] = Trim(Append(ring[s], e))
        /\ history'[s] = Append(history[s], e)
    BY <1>1, <1>2 DEF TypeOK
  <1>5. /\ fails' \in Nat /\ fails <= fails'
        /\ \A r \in Sessions \ {s} : file'[r] = file[r]
    <2>1. file \in [Sessions -> [lines : Seq(Events), torn : BOOLEAN]]
      BY DEF TypeOK
    <2>2. fails' = fails \/ fails' = fails + 1
      BY <1>1 DEF Persist
    <2>. HIDE DEF e, s
    <2>3. \A r \in Sessions \ {s} : file'[r] = file[r]
      BY <1>1, <1>2, <2>1 DEF Persist
    <2>. QED  BY <1>2, <2>2, <2>3
  <1>. HIDE DEF e, s
  <1>6. RingInv(s)'
    BY <1>1, <1>2, <1>3, <1>4, RingOfStore DEF LogInv
  <1>7. FileInv(s)'
    BY <1>1, <1>2, <1>3, <1>4, FileOfStore DEF LogInv
  <1>8. s \in overlapped \/ OrderInv(s)'
    BY <1>1, <1>2, <1>3, OrderOfStore DEF LogInv, s
  <1>9. ASSUME NEW r \in Sessions, r # s
        PROVE  RingInv(r)' /\ FileInv(r)' /\ (r \in overlapped \/ OrderInv(r)')
    <2>1. ring'[r] = ring[r] /\ history'[r] = history[r] /\ file'[r] = file[r]
      BY <1>1, <1>5, <1>9 DEF TypeOK
    <2>2. Open(r)' = Open(r) /\ \A d \in Open(r)' : event'[d] = event[d]
      BY <1>1, <1>9 DEF Open, s, TypeOK
    <2>3. RingInv(r)' /\ FileInv(r)'
      BY <1>1, <1>5, <2>1, RingSame, FileSame DEF LogInv
    <2>4. r \notin overlapped => OrderInv(r)'
      BY <1>1, <1>2, <2>1, <2>2, OrderSame DEF LogInv
    <2>. QED  BY <2>3, <2>4
  <1>. QED  BY <1>1, <1>6, <1>7, <1>8, <1>9 DEF LogInv

LEMMA LogStep ==
    ASSUME StoreAssumption, TypeOK, TypeOK', LogInv, [Next]_vars
    PROVE  LogInv'
  <1>0. now \in Nat
    BY DEF TypeOK
  <1>1. CASE UNCHANGED vars
    BY <1>0, <1>1, LogOthers DEF vars, storeVars, callVars
  <1>2. CASE Tick
    BY <1>0, <1>2, LogOthers DEF Tick, storeVars
  <1>3. CASE Restart
    BY <1>3, LogRestart
  <1>4. ASSUME NEW u \in Subs, Subscribe(u) \/ Receive(u) \/ Unsubscribe(u)
        PROVE  LogInv'
    BY <1>0, <1>4, LogOthers DEF Subscribe, Receive, Unsubscribe, storeVars, callVars
  <1>5. ASSUME NEW c \in Callers, Begin(c) PROVE LogInv'
    BY <1>5, LogBegin
  <1>6. ASSUME NEW c \in Callers, Store(c) PROVE LogInv'
    BY <1>6, LogStore
  <1>7. ASSUME NEW c \in Callers, Return(c) PROVE LogInv'
    <2>1. \A d \in Callers : pc'[d] = "called" => pc[d] = "called"
      BY <1>7 DEF Return, TypeOK
    <2>. QED  BY <1>0, <1>7, <2>1, LogOthers DEF Return, storeVars
  <1>8. ASSUME NEW c \in Callers, NEW u \in Subs, Publish(c, u) PROVE LogInv'
    BY <1>0, <1>8, LogOthers DEF Publish, storeVars
  <1>9. ASSUME NEW c \in Callers, NEW u \in Subs, PublishPanics(c, u) PROVE LogInv'
    <2>1. \A d \in Callers : pc'[d] = "called" => pc[d] = "called"
      BY <1>9 DEF PublishPanics, TypeOK
    <2>. QED  BY <1>0, <1>9, <2>1, LogOthers DEF PublishPanics, storeVars
  <1>. QED  BY <1>1, <1>2, <1>3, <1>4, <1>5, <1>6, <1>7, <1>8, <1>9
           DEF Next, CallerStep

(* The newest m of a sequence, as many as there are. *)
LEMMA NewestOf ==
    ASSUME NEW S, NEW q \in Seq(S), NEW m \in 0..Len(q), NEW new,
           new = SubSeq(q, Len(q) - m + 1, Len(q))
    PROVE  /\ new \in Seq(S)
           /\ Len(new) = m
           /\ \A j \in 1..m : new[j] = q[Len(q) - m + j]
  <1>1. PICK n \in Nat, a \in Int : n = Len(q) /\ a = n - m + 1 /\ m \in 0..n
    OBVIOUS
  <1>2. \A i \in a..n : q[i] \in S
    BY <1>1, ElementOfSeq
  <1>3. /\ SubSeq(q, a, n) \in Seq(S)
        /\ Len(SubSeq(q, a, n)) = IF a <= n THEN n - a + 1 ELSE 0
        /\ \A i \in 1 .. n - a + 1 : SubSeq(q, a, n)[i] = q[a + i - 1]
    BY <1>1, <1>2, SubSeqProperties
  <1>4. new = SubSeq(q, a, n)
    BY <1>1
  <1>5. Len(new) = m
    BY <1>1, <1>3, <1>4
  <1>6. ASSUME NEW j \in 1..m PROVE new[j] = q[Len(q) - m + j]
    <2>1. j \in 1 .. n - a + 1 /\ a + j - 1 = Len(q) - m + j
      BY <1>1
    <2>2. SubSeq(q, a, n)[j] = q[a + j - 1]
      BY <1>3, <2>1
    <2>. QED  BY <1>4, <2>1, <2>2
  <1>. QED  BY <1>3, <1>4, <1>5, <1>6

LEMMA MinOfThree ==
    ASSUME NEW a \in Nat, NEW b \in Nat, NEW c \in Nat
    PROVE  /\ Min({a, b, c}) \in {a, b, c}
           /\ Min({a, b, c}) <= a /\ Min({a, b, c}) <= b /\ Min({a, b, c}) <= c
  <1>1. \E x \in {a, b, c} : \A y \in {a, b, c} : x <= y
    <2>1. CASE a <= b /\ a <= c
      BY <2>1
    <2>2. CASE b <= a /\ b <= c
      BY <2>2
    <2>3. CASE c <= a /\ c <= b
      BY <2>3
    <2>. QED  BY <2>1, <2>2, <2>3
  <1>2. PICK x : /\ x = CHOOSE z \in {a, b, c} : \A y \in {a, b, c} : z <= y
                 /\ x \in {a, b, c} /\ \A y \in {a, b, c} : x <= y
    BY <1>1
  <1>. QED  BY <1>2 DEF Min

(* Whatever is asked for is the end of the ring, which is that of history.  *)
LEMMA RingIsNewest ==
    ASSUME StoreAssumption, TypeOK, LogInv
    PROVE  RecentIsNewest
  <1>. SUFFICES ASSUME NEW s \in Sessions, NEW n \in 1..RingSize + 1
                PROVE  LET last == Len(history[s])
                           first == last + 1 -
                             Min({n, RingSize, Cardinality(OfThisRun(s))})
                       IN /\ Recent(s, n) = SubSeq(history[s], first, last)
                          /\ first..last \subseteq OfThisRun(s)
    BY DEF RecentIsNewest
  <1>1. PICK h \in Seq(Events), r \in Seq(Events), z \in Nat \ {0}, old \in Nat :
            /\ h = history[s] /\ r = ring[s] /\ z = RingSize
            /\ old \in 0..Len(h)
            /\ OfThisRun(s) = old + 1 .. Len(h)
            /\ IsEnd(r, h, old)
    <2>1. history[s] \in Seq(Events) /\ ring[s] \in Seq(Events) /\ RingSize \in Nat \ {0}
      BY DEF TypeOK, StoreAssumption
    <2>2. PICK old \in 0..Len(history[s]) :
            /\ OfThisRun(s) = old + 1 .. Len(history[s])
            /\ IsEnd(ring[s], history[s], old)
      BY DEF LogInv, RingInv
    <2>3. old \in Nat
      BY ONLY LenProperties, <2>1, <2>2
    <2>. USE <2>1, <2>3
    <2>. WITNESS history[s] \in Seq(Events), ring[s] \in Seq(Events),
                 RingSize \in Nat \ {0}, old \in Nat
    <2>. QED  BY ONLY <2>2
  <1>2. PICK k \in Nat, l \in Nat : k = Len(r) /\ l = Len(h)
    OBVIOUS
  <1>3. /\ old \in 0..l
        /\ k = IF z < l - old THEN z ELSE l - old
        /\ \A j \in 1..k : r[j] = h[l - k + j]
    BY <1>1, <1>2 DEF IsEnd
  <1>4. Cardinality(OfThisRun(s)) = l - old
    <2>1. PICK first \in Int : first = old + 1
      BY <1>3
    <2>2. Cardinality(first..l) = IF first > l THEN 0 ELSE l - first + 1
      BY FS_Interval, l \in Int
    <2>3. OfThisRun(s) = first..l
      BY <1>1, <1>2, <2>1
    <2>. QED  BY <1>3, <2>1, <2>2, <2>3
  <1>5. PICK m \in Nat : /\ m = Min({n, RingSize, Cardinality(OfThisRun(s))})
                         /\ m = IF k > n THEN n ELSE k
    <2>1. n \in Nat /\ l - old \in Nat
      BY <1>1, <1>3
    <2>2. PICK m : m = Min({n, z, l - old})
      OBVIOUS
    <2>3. m \in {n, z, l - old} /\ m <= n /\ m <= z /\ m <= l - old
      BY <2>1, <2>2, MinOfThree
    <2>4. m \in Nat /\ m = IF k > n THEN n ELSE k
      BY <1>3, <2>1, <2>3
    <2>. QED  BY <1>1, <1>4, <2>2, <2>4
  <1>6. m \in 0..k /\ m \in 0..l /\ n \in Nat \ {0} /\ m <= l - old
    <2>1. n \in Nat \ {0}
      BY <1>1
    <2>. QED  BY <1>3, <1>5, <2>1
  <1>7. PICK a \in Seq(Events) : /\ a = Recent(s, n)
                                 /\ Len(a) = m
                                 /\ \A j \in 1..m : a[j] = r[k - m + j]
    <2>1. CASE k > n
      <3>1. Recent(s, n) = SubSeq(r, Len(r) - m + 1, Len(r))
        <4>1. m = n /\ n > 0 /\ Len(ring[s]) > n
          BY <1>1, <1>2, <1>5, <1>6, <2>1
        <4>. QED  BY <1>1, <4>1 DEF Recent
      <3>2. PICK a : a = SubSeq(r, Len(r) - m + 1, Len(r))
        OBVIOUS
      <3>3. /\ a \in Seq(Events)
            /\ Len(a) = m
            /\ \A j \in 1..m : a[j] = r[Len(r) - m + j]
        BY <1>2, <1>6, <3>2, NewestOf
      <3>. QED  BY <1>2, <3>1, <3>2, <3>3
    <2>2. CASE ~(k > n)
      <3>1. Recent(s, n) = r /\ m = k
        BY <1>1, <1>2, <1>5, <2>2 DEF Recent
      <3>. QED  BY <1>2, <3>1
    <2>. QED  BY <2>1, <2>2
  <1>8. PICK b \in Seq(Events) : /\ b = SubSeq(h, l - m + 1, l)
                                 /\ Len(b) = m
                                 /\ \A j \in 1..m : b[j] = h[l - m + j]
    <2>1. PICK b : b = SubSeq(h, Len(h) - m + 1, Len(h))
      OBVIOUS
    <2>2. /\ b \in Seq(Events)
          /\ Len(b) = m
          /\ \A j \in 1..m : b[j] = h[Len(h) - m + j]
      BY <1>2, <1>6, <2>1, NewestOf
    <2>. QED  BY <1>2, <2>1, <2>2
  <1>9. a = b
    <2>1. ASSUME NEW j \in 1..m PROVE a[j] = b[j]
      <3>1. k - m + j \in 1..k /\ l - k + (k - m + j) = l - m + j
        BY <1>6
      <3>2. r[k - m + j] = h[l - k + (k - m + j)]
        BY <1>3, <3>1
      <3>. QED  BY <1>7, <1>8, <3>1, <3>2
    <2>. QED  BY <1>7, <1>8, <2>1, SeqEqual
  <1>10. l + 1 - m = l - m + 1 /\ l + 1 - m .. l \subseteq old + 1 .. l
    BY <1>3, <1>6
  <1>11. Recent(s, n) = SubSeq(h, l + 1 - m, l)
    BY <1>7, <1>8, <1>9, <1>10
  <1>12. l + 1 - m .. l \subseteq OfThisRun(s)
    BY <1>1, <1>2, <1>10
  <1>. QED  BY <1>1, <1>2, <1>5, <1>11, <1>12

LEMMA LogInvImplies ==
    ASSUME StoreAssumption, TypeOK, LogInv
    PROVE  LogIsFaithful
  <1>1. RecentIsNewest
    BY RingIsNewest
  <1>2. LogMissesFailures
    <2>. SUFFICES ASSUME NEW s \in Sessions
                  PROVE  /\ \E kept \in SUBSET DOMAIN history[s] :
                               IsRest(file[s].lines, history[s], kept)
                         /\ Len(history[s]) - Len(file[s].lines) <= 2 * fails
      BY DEF LogMissesFailures, IsRest
    <2>1. FileInv(s)
      BY DEF LogInv
    <2>2. PICK n \in Nat, m \in Nat, a \in Nat :
            n = Len(history[s]) /\ m = Len(file[s].lines) /\ a = fails
      BY DEF TypeOK
    <2>3. PICK torn \in {0, 1} : torn = IF file[s].torn THEN 1 ELSE 0
      OBVIOUS
    <2>4. n - m + torn <= 2 * a
      BY <2>1, <2>2, <2>3, Zenon DEF FileInv
    <2>5. n - m <= 2 * a
      BY <2>4
    <2>. QED  BY <2>1, <2>2, <2>5 DEF FileInv
  <1>3. SerialIsOrdered
    BY DEF LogInv, OrderInv, SerialIsOrdered
  <1>. QED  BY <1>1, <1>2, <1>3 DEF LogIsFaithful

-----------------------------------------------------------------------------
(* Replay: numbers and computations step by step *)

LEMMA NatOrder == IsWellFoundedOn({p \in Nat \X Nat : p[1] < p[2]}, Nat)
  BY NatLessThanWellFounded DEF OpToRel

LEMMA Least ==
    ASSUME NEW T, T \subseteq Nat, T # {}
    PROVE  \E m \in T : \A k \in T : m <= k
  <1>. DEFINE R == {p \in Nat \X Nat : p[1] < p[2]}
  <1>1. IsWellFoundedOn(R, Nat)
    BY NatOrder
  <1>2. PICK m \in T : \A k \in T : <<k, m>> \notin R
    <2>. HIDE DEF R
    <2>. QED BY <1>1, WFMin
  <1>3. ASSUME NEW k \in T PROVE m <= k
    <2>1. m \in Nat /\ k \in Nat /\ (k < m => <<k, m>> \in R)
      OBVIOUS
    <2>. QED  BY <1>2, <2>1
  <1>. QED  BY <1>3

LEMMA Induction ==
    ASSUME NEW T, 0 \in T, \A n \in Nat : n \in T => n + 1 \in T
    PROVE  Nat \subseteq T
  <1>. SUFFICES ASSUME Nat \ T # {} PROVE FALSE
    OBVIOUS
  <1>1. PICK m \in Nat \ T : \A k \in Nat \ T : m <= k
    BY Least
  <1>2. m # 0 /\ m - 1 \in Nat /\ m - 1 \in T
    BY <1>1
  <1>. QED  BY <1>1, <1>2

(* A function that is computed step by step. *)
CanRun(D, start, F, n) ==
    \E f \in [0..n -> D] : f[0] = start /\ \A k \in 1..n : f[k] = F[<<f[k - 1], k>>]

LEMMA Iteration ==
    ASSUME NEW D, NEW start \in D, NEW F \in [D \X Nat -> D], NEW n \in Nat
    PROVE  CanRun(D, start, F, n)
  <1>. DEFINE Good(f, m) == f[0] = start /\ \A k \in 1..m : f[k] = F[<<f[k-1], k>>]
              T == {m \in Nat : \E f \in [0..m -> D] : Good(f, m)}
  <1>1. 0 \in T
    <2>1. [i \in 0..0 |-> start] \in [0..0 -> D] /\ Good([i \in 0..0 |-> start], 0)
      OBVIOUS
    <2>. QED BY <2>1
  <1>2. ASSUME NEW m \in Nat, m \in T PROVE m + 1 \in T
    <2>1. PICK f \in [0..m -> D] : Good(f, m)
      BY <1>2
    <2>. DEFINE g == [i \in 0..m + 1 |-> IF i = m + 1 THEN F[<<f[m], m + 1>>] ELSE f[i]]
    <2>2. F[<<f[m], m + 1>>] \in D
      OBVIOUS
    <2>3. g \in [0..m + 1 -> D]
      BY <2>2
    <2>4. Good(g, m + 1)
      <3>1. g[0] = start
        BY <2>1
      <3>2. ASSUME NEW k \in 1..m + 1 PROVE g[k] = F[<<g[k-1], k>>]
        <4>1. CASE k = m + 1
          <5>1. g[k] = F[<<f[m], m + 1>>] /\ g[k - 1] = f[m]
            BY <4>1
          <5>. HIDE DEF g
          <5>. QED  BY <4>1, <5>1
        <4>2. CASE k \in 1..m
          BY <2>1, <4>2
        <4>. QED BY <4>1, <4>2
      <3>. QED BY <3>1, <3>2
    <2>. HIDE DEF Good, g
    <2>. QED BY <2>3, <2>4
  <1>. HIDE DEF T
  <1>3. Nat \subseteq T
    BY <1>1, <1>2, Induction
  <1>. QED  BY <1>3 DEF T, CanRun

-----------------------------------------------------------------------------
(* Which moment an event falls in *)

LEMMA QuotientIs ==
    ASSUME NEW d \in Nat, NEW b \in Nat \ {0}, NEW q, q = Quotient(d, b)
    PROVE  q \in Nat /\ q * b <= d /\ d < (q + 1) * b
  <1>1. q = d \div b
    BY DEF Quotient
  <1>. QED  BY <1>1

LEMMA QuotientIsOne ==
    ASSUME NEW d \in Int, NEW b \in Nat \ {0}, NEW k \in Int, NEW q \in Int,
           k * b <= d, d < (k + 1) * b, q * b <= d, d < (q + 1) * b
    PROVE  k = q
  <1>1. ASSUME NEW x \in Int, NEW y \in Int, x < y PROVE (x + 1) * b <= y * b
    <2>1. PICK z \in Nat : y = x + 1 + z
      BY <1>1
    <2>2. y * b = (x + 1) * b + z * b /\ z * b >= 0
      BY <2>1
    <2>. QED  BY <2>2
  <1>2. ~(k < q)
    <2>. SUFFICES ASSUME k < q PROVE FALSE
      OBVIOUS
    <2>1. (k + 1) * b <= q * b
      BY <1>1
    <2>. QED  BY <2>1
  <1>3. ~(q < k)
    <2>. SUFFICES ASSUME q < k PROVE FALSE
      OBVIOUS
    <2>1. (q + 1) * b <= k * b
      BY <1>1
    <2>. QED  BY <2>1
  <1>. QED  BY <1>2, <1>3

LEMMA LogIs ==
    ASSUME NEW evs, IsLog(evs)
    PROVE  /\ Len(evs) \in Nat /\ DOMAIN evs = 1..Len(evs)
           /\ \A i \in 1..Len(evs) : evs[i].ts \in Int /\ evs[i].risk \in Nat
  BY LenProperties DEF IsLog

(* Which moment an event falls in. *)
At(evs, seconds, i) == Key(evs, evs[i], seconds)

LEMMA KeyIs ==
    ASSUME NEW evs, IsLog(evs), Ordered(evs), NEW seconds \in Int,
           NEW i \in 1..Len(evs), NEW b, b = Bucket(seconds)
    PROVE  /\ At(evs, seconds, i) \in Nat
           /\ \A k \in Int : At(evs, seconds, i) = k <=>
                  Start(evs) + k * b <= evs[i].ts /\ evs[i].ts < Start(evs) + (k + 1) * b
  <1>1. b \in Nat \ {0}
    BY DEF Bucket
  <1>2. PICK s, t : s = Start(evs) /\ t = evs[i].ts
    OBVIOUS
  <1>3. s \in Int /\ t \in Int /\ s <= t
    <2>1. 1 \in 1..Len(evs) /\ Len(evs) \in Nat
      BY LogIs
    <2>2. s = evs[1].ts
      BY <1>2 DEF Start
    <2>3. evs[1].ts <= evs[i].ts
      <3>1. CASE i = 1
        BY <2>1, <3>1, LogIs
      <3>2. CASE 1 < i
        BY <2>1, <3>2, LogIs DEF Ordered
      <3>. QED  BY <3>1, <3>2
    <2>. QED  BY <1>2, <2>1, <2>2, <2>3, LogIs
  <1>4. PICK d, q : d = t - s /\ q = Quotient(d, b)
    OBVIOUS
  <1>5. At(evs, seconds, i) = q
    BY <1>2, <1>4 DEF At, Key
  <1>6. d \in Nat
    BY <1>3, <1>4
  <1>7. q \in Nat /\ q * b <= d /\ d < (q + 1) * b
    BY ONLY <1>1, <1>4, <1>6, QuotientIs
  <1>8. ASSUME NEW k \in Int
        PROVE  q = k <=> s + k * b <= t /\ t < s + (k + 1) * b
    <2>1. PICK u, v : u = k * b /\ v = (k + 1) * b
      OBVIOUS
    <2>2. u \in Int /\ v \in Int
      BY <1>1, <2>1
    <2>3. (s + u <= t /\ t < s + v) <=> (u <= d /\ d < v)
      BY ONLY <1>3, <1>4, <2>2
    <2>4. q = k => u <= d /\ d < v
      BY <1>7, <2>1
    <2>5. u <= d /\ d < v => q = k
      BY ONLY <1>1, <1>6, <1>7, <2>1, k \in Int, QuotientIsOne
    <2>. QED  BY <2>1, <2>3, <2>4, <2>5
  <1>. QED  BY <1>2, <1>5, <1>7, <1>8

-----------------------------------------------------------------------------
(* The moments of a log *)

(* The places of the first n events that fall in moment k. *)
Falling(evs, seconds, n, k) == {i \in 1..n : At(evs, seconds, i) = k}

(* What a moment says of the events at these places. *)
IsMoment(evs, m, places) ==
    /\ m.count = Cardinality(places)
    /\ m.risk \in Nat
    /\ \A i \in places : evs[i].risk <= m.risk
    /\ m.risk = 0 \/ \E i \in places : evs[i].risk = m.risk

AreMoments(evs, seconds, n, ms) ==
    /\ DOMAIN ms = {At(evs, seconds, i) : i \in 1..n}
    /\ \A k \in DOMAIN ms : IsMoment(evs, ms[k], Falling(evs, seconds, n, k))

LEMMA CountIs ==
    ASSUME NEW evs, IsLog(evs), NEW i \in 1..Len(evs),
           NEW places, places \subseteq 1..Len(evs), i \notin places,
           NEW m, IsMoment(evs, m, places)
    PROVE  IsMoment(evs, Count(m, evs[i]), places \cup {i})
  <1>0. IsFiniteSet(places)
    <2>1. IsFiniteSet(1..Len(evs))
      BY LogIs, FS_Interval
    <2>. QED  BY ONLY <2>1, places \subseteq 1..Len(evs), FS_Subset
  <1>1. PICK c, r, x : c = m.count /\ r = m.risk /\ x = evs[i].risk
    OBVIOUS
  <1>2. /\ c = Cardinality(places) /\ c \in Nat /\ r \in Nat /\ x \in Nat
        /\ \A j \in places : evs[j].risk <= r
        /\ r = 0 \/ \E j \in places : evs[j].risk = r
    BY <1>0, <1>1, FS_CardinalityType, LogIs DEF IsMoment
  <1>3. PICK n : n = Count(m, evs[i])
    OBVIOUS
  <1>4. n.count = c + 1 /\ n.risk = IF x > r THEN x ELSE r
    BY <1>1, <1>3 DEF Count
  <1>5. Cardinality(places \cup {i}) = c + 1
    BY <1>0, <1>2, FS_AddElement
  <1>6. n.risk \in Nat /\ r <= n.risk /\ x <= n.risk /\ (n.risk = r \/ n.risk = x)
    BY <1>2, <1>4
  <1>7. \A j \in places \cup {i} : evs[j].risk <= n.risk
    <2>1. ASSUME NEW j \in places PROVE evs[j].risk <= n.risk
      <3>1. PICK y, z : y = evs[j].risk /\ z = n.risk
        OBVIOUS
      <3>2. y <= r /\ r <= z /\ r \in Nat /\ z \in Nat
        BY <1>2, <1>6, <3>1
      <3>3. y \in Nat
        BY <3>1, LogIs
      <3>. QED  BY <3>1, <3>2, <3>3
    <2>. QED  BY <1>1, <1>6, <2>1
  <1>8. n.risk = 0 \/ \E j \in places \cup {i} : evs[j].risk = n.risk
    BY <1>1, <1>2, <1>6
  <1>. QED  BY <1>3, <1>4, <1>5, <1>6, <1>7, <1>8 DEF IsMoment

(* One more event. *)
LEMMA GroupedAre ==
    ASSUME NEW evs, IsLog(evs), NEW seconds, NEW n \in 1..Len(evs),
           NEW ms, AreMoments(evs, seconds, n - 1, ms),
           NEW new, new = Grouped(evs, seconds, ms, evs[n])
    PROVE  AreMoments(evs, seconds, n, new)
  <1>0. n \in Nat /\ n - 1 \in Nat /\ Len(evs) \in Nat
    BY LogIs
  <1>1. PICK key, m : /\ key = At(evs, seconds, n)
                      /\ m = IF key \in DOMAIN ms THEN ms[key] ELSE NoMoment
    OBVIOUS
  <1>2. new = [j \in DOMAIN ms \cup {key} |-> IF j = key THEN Count(m, evs[n]) ELSE ms[j]]
    BY <1>1 DEF Grouped, At
  <1>3. DOMAIN new = {At(evs, seconds, i) : i \in 1..n}
    <2>1. 1..n = (1..n - 1) \cup {n}
      BY <1>0
    <2>. QED  BY <1>1, <1>2, <2>1 DEF AreMoments
  <1>4. \A k : Falling(evs, seconds, n, k)
                  = IF k = key THEN Falling(evs, seconds, n - 1, k) \cup {n}
                    ELSE Falling(evs, seconds, n - 1, k)
    <2>1. 1..n = (1..n - 1) \cup {n} /\ n \notin 1..n - 1
      BY <1>0
    <2>. QED  BY <1>1, <2>1 DEF Falling
  <1>5. IsMoment(evs, m, Falling(evs, seconds, n - 1, key))
    <2>1. CASE key \in DOMAIN ms
      BY <1>1, <2>1 DEF AreMoments
    <2>2. CASE key \notin DOMAIN ms
      <3>1. Falling(evs, seconds, n - 1, key) = {}
        BY <2>2 DEF AreMoments, Falling
      <3>2. m = NoMoment
        BY <1>1, <2>2
      <3>3. IsMoment(evs, NoMoment, {})
        BY FS_EmptySet DEF NoMoment, IsMoment
      <3>. QED  BY <3>1, <3>2, <3>3
    <2>. QED  BY <2>1, <2>2
  <1>6. IsMoment(evs, Count(m, evs[n]), Falling(evs, seconds, n - 1, key) \cup {n})
    <2>1. Falling(evs, seconds, n - 1, key) \subseteq 1..Len(evs)
      BY <1>0 DEF Falling
    <2>2. n \notin Falling(evs, seconds, n - 1, key)
      BY <1>0 DEF Falling
    <2>. QED  BY <1>5, <2>1, <2>2, CountIs
  <1>7. ASSUME NEW k \in DOMAIN new
        PROVE  IsMoment(evs, new[k], Falling(evs, seconds, n, k))
    <2>1. CASE k = key
      BY <1>2, <1>4, <1>6, <2>1
    <2>2. CASE k # key
      <3>1. k \in DOMAIN ms /\ new[k] = ms[k]
        BY <1>2, <1>7, <2>2
      <3>2. Falling(evs, seconds, n, k) = Falling(evs, seconds, n - 1, k)
        BY <1>4, <2>2
      <3>. QED  BY <3>1, <3>2 DEF AreMoments
    <2>. QED  BY <2>1, <2>2
  <1>. QED  BY <1>3, <1>7 DEF AreMoments

Kinds(evs) == {evs[i].kind : i \in 1..Len(evs)} \cup {"none"}
MomentsOf(evs) == [count : Nat, kind : Kinds(evs), risk : Nat]
Tables(evs, seconds) ==
    UNION {[S -> MomentsOf(evs)] : S \in SUBSET {At(evs, seconds, i) : i \in 1..Len(evs)}}

LEMMA GroupedType ==
    ASSUME NEW evs, IsLog(evs), NEW seconds, NEW n \in 1..Len(evs),
           NEW ms \in Tables(evs, seconds)
    PROVE  Grouped(evs, seconds, ms, evs[n]) \in Tables(evs, seconds)
  <1>1. PICK S \in SUBSET {At(evs, seconds, i) : i \in 1..Len(evs)} : ms \in [S -> MomentsOf(evs)]
    BY DEF Tables
  <1>2. PICK key, m : /\ key = At(evs, seconds, n)
                      /\ m = IF key \in DOMAIN ms THEN ms[key] ELSE NoMoment
    OBVIOUS
  <1>3. m \in MomentsOf(evs)
    <2>1. NoMoment \in MomentsOf(evs)
      BY DEF NoMoment, MomentsOf, Kinds
    <2>. QED  BY <1>1, <1>2, <2>1
  <1>4. Count(m, evs[n]) \in MomentsOf(evs)
    <2>1. evs[n].kind \in Kinds(evs) /\ evs[n].risk \in Nat
      BY LogIs DEF Kinds
    <2>. QED  BY <1>3, <2>1 DEF Count, MomentsOf
  <1>5. PICK c : c = Count(m, evs[n])
    OBVIOUS
  <1>6. Grouped(evs, seconds, ms, evs[n]) = [j \in S \cup {key} |-> IF j = key THEN c ELSE ms[j]]
    BY <1>1, <1>2, <1>5 DEF Grouped, At
  <1>7. [j \in S \cup {key} |-> IF j = key THEN c ELSE ms[j]] \in [S \cup {key} -> MomentsOf(evs)]
    BY <1>1, <1>4, <1>5
  <1>8. S \cup {key} \in SUBSET {At(evs, seconds, i) : i \in 1..Len(evs)}
    BY <1>1, <1>2
  <1>. QED  BY <1>6, <1>7, <1>8 DEF Tables

LEMMA BucketsAre ==
    ASSUME NEW evs, IsLog(evs), NEW seconds, NEW n \in 0..Len(evs)
    PROVE  AreMoments(evs, seconds, n, Buckets(evs, seconds)[n])
  <1>0. PICK N : N = Len(evs) /\ N \in Nat
    BY LogIs
  <1>. DEFINE D == Tables(evs, seconds)
              zero == [k \in {} |-> NoMoment]
              Good(f) == f = [k \in 0..Len(evs) |->
                                IF k = 0 THEN zero ELSE Grouped(evs, seconds, f[k - 1], evs[k])]
  <1>1. zero \in D
    <2>1. zero \in [{} -> MomentsOf(evs)]
      OBVIOUS
    <2>. HIDE DEF zero
    <2>2. {} \in SUBSET {At(evs, seconds, i) : i \in 1..Len(evs)}
      OBVIOUS
    <2>. QED  BY <2>1, <2>2 DEF Tables
  <1>2. ASSUME NEW s \in D, NEW k \in 1..N PROVE Grouped(evs, seconds, s, evs[k]) \in D
    BY <1>0, GroupedType
  <1>3. AreMoments(evs, seconds, 0, zero)
    <2>1. DOMAIN zero = {}
      OBVIOUS
    <2>2. {At(evs, seconds, i) : i \in 1..0} = {}
      OBVIOUS
    <2>. QED  BY <2>1, <2>2 DEF AreMoments
  <1>. HIDE DEF D, zero
  <1>4. PICK f : Good(f)
    <2>. DEFINE F == [p \in D \X Nat |-> IF p[2] \in 1..N THEN Grouped(evs, seconds, p[1], evs[p[2]])
                                         ELSE p[1]]
    <2>1. F \in [D \X Nat -> D]
      BY <1>2
    <2>2. PICK f \in [0..N -> D] : f[0] = zero /\ \A k \in 1..N : f[k] = F[<<f[k - 1], k>>]
      <3>1. CanRun(D, zero, F, N)
        <4>. HIDE DEF F
        <4>. QED  BY <1>0, <1>1, <2>1, Iteration
      <3>. HIDE DEF F
      <3>. QED  BY <3>1 DEF CanRun
    <2>3. ASSUME NEW k \in 1..N PROVE f[k] = Grouped(evs, seconds, f[k - 1], evs[k])
      <3>1. f[k - 1] \in D /\ k \in Nat
        BY <1>0
      <3>2. F[<<f[k - 1], k>>] = Grouped(evs, seconds, f[k - 1], evs[k])
        BY <3>1
      <3>. HIDE DEF F
      <3>. QED  BY <2>2, <3>2
    <2>4. f = [k \in 0..N |-> IF k = 0 THEN zero ELSE Grouped(evs, seconds, f[k - 1], evs[k])]
      BY <2>2, <2>3
    <2>. QED  BY <1>0, <2>4
  <1>5. PICK b : b = Buckets(evs, seconds)
    OBVIOUS
  <1>6. Good(b)
    <2>1. b = CHOOSE h : Good(h)
      BY <1>5 DEF Buckets, zero
    <2>. HIDE DEF Good
    <2>. QED  BY <1>4, <2>1
  <1>7. b[0] = zero /\ \A k \in 1..N : b[k] = Grouped(evs, seconds, b[k - 1], evs[k])
    BY <1>0, <1>6
  <1>. DEFINE T == {k \in Nat : k <= N => AreMoments(evs, seconds, k, b[k])}
  <1>8. 0 \in T
    BY <1>3, <1>7
  <1>9. ASSUME NEW k \in Nat, k \in T PROVE k + 1 \in T
    <2>. SUFFICES ASSUME k + 1 <= N PROVE AreMoments(evs, seconds, k + 1, b[k + 1])
      OBVIOUS
    <2>1. PICK l : l = k + 1
      OBVIOUS
    <2>2. l \in 1..Len(evs) /\ l - 1 = k
      BY <1>0, <2>1
    <2>3. AreMoments(evs, seconds, l - 1, b[l - 1])
      BY <1>0, <1>9, <2>2
    <2>4. b[l] = Grouped(evs, seconds, b[l - 1], evs[l])
      BY <1>0, <1>7, <2>2
    <2>5. AreMoments(evs, seconds, l, b[l])
      BY <2>2, <2>3, <2>4, GroupedAre
    <2>. QED  BY <2>1, <2>5
  <1>. HIDE DEF T
  <1>10. Nat \subseteq T
    BY <1>8, <1>9, Induction
  <1>. QED  BY <1>0, <1>5, <1>10 DEF T

(* The highest of what is at these places. *)
LEMMA MaxIs ==
    ASSUME NEW S, NEW m \in Nat, m \in S, \A x \in S : x \in Nat /\ x <= m
    PROVE  Max(S) = m
  <1>1. Max(S) = CHOOSE x \in S : \A y \in S : x >= y
    BY DEF Max
  <1>2. m \in S /\ \A y \in S : m >= y
    OBVIOUS
  <1>3. PICK x : x = Max(S)
    OBVIOUS
  <1>4. x \in S /\ \A y \in S : x >= y
    BY <1>1, <1>2, <1>3
  <1>5. x \in Nat /\ x <= m /\ x >= m
    BY <1>4
  <1>. QED  BY <1>3, <1>5

(* The timeline of a log in order is right at any width: each event counts  *)
(* in the one moment it falls in, with its risk, and no moment is empty     *)
(* (Timeline, replay.go:35-70).                                             *)
THEOREM TimelineOf ==
    ASSUME NEW evs, IsLog(evs), Ordered(evs), NEW seconds \in Int
    PROVE  MomentsAre(evs, seconds, Moments(evs, seconds))
  <1>0. PICK N, b, ms : N = Len(evs) /\ b = Bucket(seconds) /\ ms = Moments(evs, seconds)
    OBVIOUS
  <1>1. N \in Nat /\ DOMAIN evs = 1..N
    BY <1>0, LogIs
  <1>2. AreMoments(evs, seconds, N, ms)
    BY <1>0, <1>1, BucketsAre DEF Moments
  <1>. DEFINE In(k) == {i \in DOMAIN evs :
                          /\ Start(evs) + k * b <= evs[i].ts
                          /\ evs[i].ts < Start(evs) + (k + 1) * b}
  <1>3. \A i \in 1..N : At(evs, seconds, i) \in Nat
    BY <1>0, KeyIs
  <1>4. \A k \in Int : In(k) = Falling(evs, seconds, N, k)
    <2>. SUFFICES ASSUME NEW k \in Int PROVE In(k) = Falling(evs, seconds, N, k)
      OBVIOUS
    <2>1. \A i \in 1..N : At(evs, seconds, i) = k <=>
                Start(evs) + k * b <= evs[i].ts /\ evs[i].ts < Start(evs) + (k + 1) * b
      BY <1>0, KeyIs
    <2>. QED  BY <1>1, <2>1 DEF Falling
  <1>. HIDE DEF In
  <1>5. DOMAIN ms = {At(evs, seconds, i) : i \in 1..N}
    BY <1>2 DEF AreMoments
  <1>6. \A i \in DOMAIN evs : \E k \in DOMAIN ms : i \in In(k)
    <2>. SUFFICES ASSUME NEW i \in 1..N PROVE \E k \in DOMAIN ms : i \in In(k)
      BY <1>1
    <2>1. PICK k : k = At(evs, seconds, i)
      OBVIOUS
    <2>2. k \in Int /\ k \in DOMAIN ms
      BY <1>3, <1>5, <2>1
    <2>3. i \in Falling(evs, seconds, N, k)
      BY <2>1 DEF Falling
    <2>. QED  BY <1>4, <2>2, <2>3
  <1>7. ASSUME NEW k \in DOMAIN ms
        PROVE  /\ In(k) # {}
               /\ ms[k].count = Cardinality(In(k))
               /\ ms[k].risk = Max({evs[i].risk : i \in In(k)} \cup {0})
    <2>1. k \in Int /\ In(k) = Falling(evs, seconds, N, k)
      BY <1>3, <1>4, <1>5
    <2>2. In(k) # {}
      BY <1>5, <2>1 DEF Falling
    <2>3. IsMoment(evs, ms[k], In(k))
      BY <1>2, <2>1 DEF AreMoments
    <2>4. PICK r, S : r = ms[k].risk /\ S = {evs[i].risk : i \in In(k)} \cup {0}
      OBVIOUS
    <2>5. r \in Nat /\ r \in S
      BY <2>3, <2>4 DEF IsMoment
    <2>6. \A x \in S : x \in Nat /\ x <= r
      <3>1. \A i \in In(k) : evs[i].risk \in Nat /\ evs[i].risk <= r
        BY <1>0, <2>1, <2>3, <2>4, LogIs DEF IsMoment, Falling
      <3>. QED  BY <2>4, <2>5, <3>1
    <2>7. Max(S) = r
      BY <2>5, <2>6, MaxIs
    <2>. QED  BY <2>2, <2>3, <2>4, <2>7 DEF IsMoment
  <1>. QED  BY <1>0, <1>6, <1>7 DEF MomentsAre, In

-----------------------------------------------------------------------------
(* The snapshot of a log *)

(* The first n events are those up to t. *)
LEMMA ScannedIs ==
    ASSUME NEW evs, IsLog(evs), Ordered(evs), NEW t \in Int, NEW n, n = Scanned(evs, t)
    PROVE  /\ n \in 0..Len(evs)
           /\ \A i \in 1..Len(evs) : evs[i].ts <= t <=> i <= n
  <1>1. PICK N, late : /\ N = Len(evs) /\ N \in Nat /\ DOMAIN evs = 1..N
                       /\ late = {i \in DOMAIN evs : evs[i].ts > t}
    BY LogIs
  <1>2. n = IF late = {} THEN N ELSE Min(late) - 1
    BY <1>1 DEF Scanned
  <1>3. \A i \in 1..N : evs[i].ts \in Int
    BY <1>1, LogIs
  <1>4. CASE late = {}
    <2>1. \A i \in 1..N : evs[i].ts <= t
      BY <1>1, <1>3, <1>4
    <2>. QED  BY <1>1, <1>2, <1>4, <2>1
  <1>5. CASE late # {}
    <2>1. late \subseteq Nat
      BY <1>1
    <2>2. PICK m \in late : \A k \in late : m <= k
      BY <1>5, <2>1, Least
    <2>3. PICK x : x = Min(late)
      OBVIOUS
    <2>4. x \in late /\ \A k \in late : x <= k
      BY <2>2, <2>3 DEF Min
    <2>5. x \in 1..N /\ evs[x].ts > t /\ n = x - 1
      BY <1>1, <1>2, <1>5, <2>3, <2>4
    <2>6. ASSUME NEW i \in 1..N PROVE evs[i].ts <= t <=> i <= n
      <3>1. CASE i < x
        <4>1. i \notin late
          BY <2>4, <2>5, <3>1
        <4>2. evs[i].ts <= t
          BY <1>1, <1>3, <4>1
        <4>. QED  BY <1>1, <2>5, <3>1, <4>2
      <3>2. CASE x <= i
        <4>1. evs[x].ts <= evs[i].ts
          <5>1. CASE x = i
            BY <1>3, <2>5, <5>1
          <5>2. CASE x < i
            BY <1>1, <2>5, <5>2 DEF Ordered
          <5>. QED  BY <2>5, <3>2, <5>1, <5>2
        <4>2. ~(evs[i].ts <= t)
          <5>1. PICK u, v : u = evs[x].ts /\ v = evs[i].ts
            OBVIOUS
          <5>2. u \in Int /\ v \in Int /\ u > t /\ u <= v
            BY <1>3, <2>5, <4>1, <5>1
          <5>. QED  BY <5>1, <5>2
        <4>. QED  BY <1>1, <2>5, <3>2, <4>2
      <3>. QED  BY <1>1, <2>5, <3>1, <3>2
    <2>. QED  BY <1>1, <2>5, <2>6
  <1>. QED  BY <1>4, <1>5

OfKind(evs, n, kind) == {i \in 1..n : evs[i].kind = kind}
RanSince(evs, n, from) == {i \in 1..n : evs[i].kind = "command_run" /\ evs[i].ts >= from}

(* The last of a kind among the first n. *)
IsNewest(evs, n, kind, found) ==
    \/ OfKind(evs, n, kind) = {} /\ found = <<>>
    \/ \E i \in OfKind(evs, n, kind) :
            (\A j \in OfKind(evs, n, kind) : j <= i) /\ found = <<evs[i]>>

HasRun(evs, n, from, commands) ==
    /\ Len(commands) = Cardinality(RanSince(evs, n, from))
    /\ ToSet(commands) = {evs[i] : i \in RanSince(evs, n, from)}

IsSnapshot(evs, n, from, snap) ==
    /\ IsNewest(evs, n, "screenshot", snap.shot)
    /\ IsNewest(evs, n, "tool_call", snap.call)
    /\ HasRun(evs, n, from, snap.commands)

Snapshots(evs) ==
    [shot : Seq(Range(evs)), call : Seq(Range(evs)), commands : Seq(Range(evs))]

LEMMA NewestOne ==
    ASSUME NEW evs, NEW n \in Nat \ {0}, NEW kind, NEW found,
           IsNewest(evs, n - 1, kind, found)
    PROVE  IsNewest(evs, n, kind, IF evs[n].kind = kind THEN <<evs[n]>> ELSE found)
  <1>1. 1..n = (1..n - 1) \cup {n} /\ \A j \in 1..n : j <= n
    OBVIOUS
  <1>2. CASE evs[n].kind = kind
    <2>1. n \in OfKind(evs, n, kind) /\ \A j \in OfKind(evs, n, kind) : j <= n
      BY <1>1, <1>2 DEF OfKind
    <2>. QED  BY <1>2, <2>1 DEF IsNewest
  <1>3. CASE evs[n].kind # kind
    <2>1. OfKind(evs, n, kind) = OfKind(evs, n - 1, kind)
      BY <1>1, <1>3 DEF OfKind
    <2>. QED  BY <1>3, <2>1 DEF IsNewest
  <1>. QED  BY <1>2, <1>3

LEMMA OneMoreRan ==
    ASSUME NEW evs, IsLog(evs), NEW from, NEW n \in 1..Len(evs),
           NEW commands \in Seq(Range(evs)), HasRun(evs, n - 1, from, commands)
    PROVE  HasRun(evs, n, from,
                  IF evs[n].kind = "command_run" /\ evs[n].ts >= from
                  THEN Append(commands, evs[n]) ELSE commands)
  <1>1. n \in Nat /\ 1..n = (1..n - 1) \cup {n} /\ n \notin 1..n - 1
    BY LogIs
  <1>2. PICK R, N : R = RanSince(evs, n - 1, from) /\ N = RanSince(evs, n, from)
    OBVIOUS
  <1>3. CASE evs[n].kind = "command_run" /\ evs[n].ts >= from
    <2>1. N = R \cup {n} /\ n \notin R
      BY <1>1, <1>2, <1>3 DEF RanSince
    <2>2. IsFiniteSet(R)
      <3>1. IsFiniteSet(1..n - 1)
        BY <1>1, FS_Interval
      <3>2. R \subseteq 1..n - 1
        BY <1>2 DEF RanSince
      <3>. QED  BY ONLY <3>1, <3>2, FS_Subset
    <2>3. Cardinality(N) = Cardinality(R) + 1
      BY <2>1, <2>2, FS_AddElement
    <2>4. evs[n] \in Range(evs)
      BY LogIs DEF Range
    <2>5. PICK e, c, k : e = evs[n] /\ c = Append(commands, e) /\ k = Len(commands)
      OBVIOUS
    <2>6. /\ Len(c) = k + 1 /\ k \in Nat /\ c \in Seq(Range(evs))
          /\ c[k + 1] = e
          /\ \A i \in 1..k : c[i] = commands[i]
      BY <2>4, <2>5, AppendProperties, LenProperties
    <2>7. DOMAIN c = 1..k + 1 /\ DOMAIN commands = 1..k
      BY <2>5, <2>6, LenProperties
    <2>8. ToSet(c) = ToSet(commands) \cup {e}
      <3>1. 1..k + 1 = (1..k) \cup {k + 1}
        BY <2>6
      <3>. QED  BY <2>6, <2>7, <3>1 DEF ToSet
    <2>9. {evs[i] : i \in N} = {evs[i] : i \in R} \cup {e}
      BY <2>1, <2>5
    <2>10. HasRun(evs, n, from, c)
      BY <1>2, <2>3, <2>5, <2>6, <2>8, <2>9 DEF HasRun
    <2>. QED  BY <1>3, <2>5, <2>10
  <1>4. CASE ~(evs[n].kind = "command_run" /\ evs[n].ts >= from)
    <2>1. N = R
      BY <1>1, <1>2, <1>4 DEF RanSince
    <2>2. HasRun(evs, n, from, commands)
      BY <1>2, <2>1 DEF HasRun
    <2>. QED  BY <1>4, <2>2
  <1>. QED  BY <1>3, <1>4

LEMMA SeenIs ==
    ASSUME NEW evs, IsLog(evs), NEW from, NEW n \in 1..Len(evs),
           NEW snap \in Snapshots(evs), NEW new, new = Seen(snap, evs[n], from)
    PROVE  /\ new \in Snapshots(evs)
           /\ IsSnapshot(evs, n - 1, from, snap) => IsSnapshot(evs, n, from, new)
  <1>1. n \in Nat \ {0}
    BY LogIs
  <1>2. PICK e : e = evs[n] /\ e \in Range(evs)
    BY LogIs DEF Range
  <1>3. /\ new.shot = IF e.kind = "screenshot" THEN <<e>> ELSE snap.shot
        /\ new.call = IF e.kind = "tool_call" THEN <<e>> ELSE snap.call
        /\ new.commands = IF e.kind = "command_run" /\ e.ts >= from
                          THEN Append(snap.commands, e) ELSE snap.commands
        /\ new = [shot |-> new.shot, call |-> new.call, commands |-> new.commands]
    BY <1>2 DEF Seen
  <1>4. snap.shot \in Seq(Range(evs)) /\ snap.call \in Seq(Range(evs))
        /\ snap.commands \in Seq(Range(evs))
    BY DEF Snapshots
  <1>5. <<e>> \in Seq(Range(evs)) /\ Append(snap.commands, e) \in Seq(Range(evs))
    BY <1>2, <1>4, AppendProperties
  <1>6. new \in Snapshots(evs)
    BY <1>3, <1>4, <1>5 DEF Snapshots
  <1>7. ASSUME IsSnapshot(evs, n - 1, from, snap) PROVE IsSnapshot(evs, n, from, new)
    <2>1. IsNewest(evs, n, "screenshot", new.shot)
      BY <1>1, <1>2, <1>3, <1>7, NewestOne DEF IsSnapshot
    <2>2. IsNewest(evs, n, "tool_call", new.call)
      BY <1>1, <1>2, <1>3, <1>7, NewestOne DEF IsSnapshot
    <2>3. HasRun(evs, n, from, new.commands)
      BY <1>2, <1>3, <1>4, <1>7, OneMoreRan DEF IsSnapshot
    <2>. QED  BY <2>1, <2>2, <2>3 DEF IsSnapshot
  <1>. QED  BY <1>6, <1>7

LEMMA ScanIs ==
    ASSUME NEW evs, IsLog(evs), NEW from, NEW n \in 0..Len(evs)
    PROVE  IsSnapshot(evs, n, from, Scan(evs, from)[n])
  <1>0. PICK N : N = Len(evs) /\ N \in Nat
    BY LogIs
  <1>. DEFINE D == Snapshots(evs)
              Good(f) == f = [k \in 0..Len(evs) |->
                                IF k = 0 THEN NoSnapshot ELSE Seen(f[k - 1], evs[k], from)]
  <1>1. NoSnapshot \in D
    BY DEF Snapshots, NoSnapshot
  <1>2. ASSUME NEW s \in D, NEW k \in 1..N PROVE Seen(s, evs[k], from) \in D
    BY <1>0, SeenIs
  <1>3. IsSnapshot(evs, 0, from, NoSnapshot)
    <2>1. 1..0 = {}
      OBVIOUS
    <2>2. IsNewest(evs, 0, "screenshot", <<>>) /\ IsNewest(evs, 0, "tool_call", <<>>)
      BY <2>1 DEF IsNewest, OfKind
    <2>3. HasRun(evs, 0, from, <<>>)
      <3>1. RanSince(evs, 0, from) = {}
        BY <2>1 DEF RanSince
      <3>2. Len(<<>>) = 0 /\ ToSet(<<>>) = {}
        BY DEF ToSet
      <3>. QED  BY <3>1, <3>2, FS_EmptySet DEF HasRun
    <2>. QED  BY <2>2, <2>3 DEF IsSnapshot, NoSnapshot
  <1>. HIDE DEF D
  <1>4. PICK f \in [0..N -> D] : Good(f)
    <2>. DEFINE F == [p \in D \X Nat |-> IF p[2] \in 1..N THEN Seen(p[1], evs[p[2]], from)
                                         ELSE p[1]]
    <2>1. F \in [D \X Nat -> D]
      BY <1>2
    <2>2. PICK f \in [0..N -> D] : f[0] = NoSnapshot /\ \A k \in 1..N : f[k] = F[<<f[k - 1], k>>]
      <3>1. CanRun(D, NoSnapshot, F, N)
        <4>. HIDE DEF F
        <4>. QED  BY <1>0, <1>1, <2>1, Iteration
      <3>. HIDE DEF F
      <3>. QED  BY <3>1 DEF CanRun
    <2>3. ASSUME NEW k \in 1..N PROVE f[k] = Seen(f[k - 1], evs[k], from)
      <3>1. f[k - 1] \in D /\ k \in Nat
        BY <1>0
      <3>2. F[<<f[k - 1], k>>] = Seen(f[k - 1], evs[k], from)
        BY <3>1
      <3>. HIDE DEF F
      <3>. QED  BY <2>2, <3>2
    <2>4. f = [k \in 0..N |-> IF k = 0 THEN NoSnapshot ELSE Seen(f[k - 1], evs[k], from)]
      BY <2>2, <2>3
    <2>. QED  BY <1>0, <2>4
  <1>5. PICK s : s = Scan(evs, from)
    OBVIOUS
  <1>6. Good(s)
    <2>1. s = CHOOSE h : Good(h)
      BY <1>5 DEF Scan
    <2>. HIDE DEF Good
    <2>. QED  BY <1>4, <2>1
  <1>7. s[0] = NoSnapshot /\ \A k \in 1..N : s[k] = Seen(s[k - 1], evs[k], from)
    BY <1>0, <1>6
  <1>. DEFINE T == {k \in Nat : k <= N => s[k] \in D /\ IsSnapshot(evs, k, from, s[k])}
  <1>8. 0 \in T
    BY <1>1, <1>3, <1>7
  <1>9. ASSUME NEW k \in Nat, k \in T PROVE k + 1 \in T
    <2>. SUFFICES ASSUME k + 1 <= N
                  PROVE  s[k + 1] \in D /\ IsSnapshot(evs, k + 1, from, s[k + 1])
      OBVIOUS
    <2>1. PICK l : l = k + 1
      OBVIOUS
    <2>2. l \in 1..Len(evs) /\ l - 1 = k
      BY <1>0, <2>1
    <2>3. s[l - 1] \in D /\ IsSnapshot(evs, l - 1, from, s[l - 1])
      BY <1>0, <1>9, <2>2
    <2>4. s[l] = Seen(s[l - 1], evs[l], from)
      BY <1>0, <1>7, <2>2
    <2>5. s[l] \in D /\ IsSnapshot(evs, l, from, s[l])
      BY <2>2, <2>3, <2>4, SeenIs DEF D
    <2>. QED  BY <2>1, <2>5
  <1>. HIDE DEF T
  <1>10. Nat \subseteq T
    BY <1>8, <1>9, Induction
  <1>. QED  BY <1>0, <1>5, <1>10 DEF T

(* The snapshot of a log in order is right at any time and for any window:  *)
(* the newest screenshot and tool call there are by then, and the commands  *)
(* of the window, no other (At, replay.go:82-118).                          *)
THEOREM SnapshotOf ==
    ASSUME NEW evs, IsLog(evs), Ordered(evs), NEW t \in Int, NEW seconds \in Int
    PROVE  SnapshotIs(evs, t, seconds, Snapshot(evs, t, seconds))
  <1>1. PICK N, n, from, snap :
          /\ N = Len(evs) /\ N \in Nat /\ DOMAIN evs = 1..N
          /\ n = Scanned(evs, t) /\ from = t - Window(seconds)
          /\ snap = Snapshot(evs, t, seconds)
    BY LogIs
  <1>2. n \in 0..N /\ \A i \in 1..N : evs[i].ts <= t <=> i <= n
    BY <1>1, ScannedIs
  <1>3. IsSnapshot(evs, n, from, snap)
    BY <1>1, <1>2, ScanIs DEF Snapshot
  <1>. DEFINE past == {i \in DOMAIN evs : evs[i].ts <= t}
              of(kind) == {i \in past : evs[i].kind = kind}
              newest(kind) == {i \in of(kind) : \A j \in of(kind) : evs[j].ts <= evs[i].ts}
              ran == {i \in past : evs[i].kind = "command_run" /\ evs[i].ts >= t - Window(seconds)}
  <1>4. past = 1..n
    BY <1>1, <1>2
  <1>5. \A i, j \in 1..N : i <= j => evs[i].ts <= evs[j].ts
    <2>. SUFFICES ASSUME NEW i \in 1..N, NEW j \in 1..N, i <= j
                  PROVE  evs[i].ts <= evs[j].ts
      OBVIOUS
    <2>1. CASE i = j
      BY <1>1, <2>1, LogIs
    <2>2. CASE i < j
      BY <1>1, <2>2 DEF Ordered
    <2>. QED  BY <2>1, <2>2
  <1>. HIDE DEF past
  <1>6. ASSUME NEW kind, NEW found, IsNewest(evs, n, kind, found)
        PROVE  IF of(kind) = {} THEN found = <<>> ELSE found = <<evs[Max(newest(kind))]>>
    <2>1. of(kind) = OfKind(evs, n, kind)
      BY <1>4 DEF OfKind
    <2>2. CASE of(kind) = {}
      BY <1>6, <2>1, <2>2 DEF IsNewest
    <2>3. CASE of(kind) # {}
      <3>1. PICK i \in of(kind) : (\A j \in of(kind) : j <= i) /\ found = <<evs[i]>>
        BY <1>6, <2>1, <2>3 DEF IsNewest
      <3>2. \A j \in of(kind) : j \in 1..N
        BY <1>1, <1>2, <1>4
      <3>3. i \in newest(kind)
        BY <1>5, <3>1, <3>2
      <3>4. i \in Nat /\ \A j \in newest(kind) : j \in Nat /\ j <= i
        BY <1>1, <3>1, <3>2
      <3>. HIDE DEF newest
      <3>5. Max(newest(kind)) = i
        BY <3>3, <3>4, MaxIs
      <3>. QED  BY <2>3, <3>1, <3>5
    <2>. QED  BY <2>2, <2>3
  <1>7. ran = RanSince(evs, n, from)
    BY <1>1, <1>4 DEF RanSince
  <1>8. /\ Len(snap.commands) = Cardinality(ran)
        /\ ToSet(snap.commands) = {evs[i] : i \in ran}
    BY <1>3, <1>7 DEF IsSnapshot, HasRun
  <1>9. /\ IF of("screenshot") = {} THEN snap.shot = <<>>
           ELSE snap.shot = <<evs[Max(newest("screenshot"))]>>
        /\ IF of("tool_call") = {} THEN snap.call = <<>>
           ELSE snap.call = <<evs[Max(newest("tool_call"))]>>
    <2>. HIDE DEF of, newest
    <2>. QED  BY <1>3, <1>6 DEF IsSnapshot
  <1>. QED  BY <1>1, <1>8, <1>9 DEF SnapshotIs, past

-----------------------------------------------------------------------------
(* Theorems *)

(* Every variable keeps its type; numbers never exceed the calls that were  *)
(* made.                                                                    *)
THEOREM StoreTypes == Spec => []TypeOK
  <1>1. Init => StoreInv
    BY StoreInit, StoreAssumption
  <1>2. StoreInv /\ [Next]_vars => StoreInv'
    BY StoreStep, StoreAssumption
  <1>3. StoreInv => TypeOK
    BY DEF StoreInv
  <1>. QED  BY <1>1, <1>2, <1>3, PTL DEF Spec

(* The store keeps what EventLog promises: the log only grows at its end    *)
(* and survives restarts, and the ring gets each event in the same step     *)
(* (Append and persistLocked, store.go:39-66, :133-151).                    *)
THEOREM StoreImplementsEventLog == Spec => ImplementsEventLog
  <1>1. Init => StoreInv /\ Log!Init
    BY StoreInit, StoreAssumption
  <1>2. StoreInv /\ [Next]_vars => StoreInv' /\ [Log!Next]_(Log!vars)
    BY StoreStep, StoreAssumption
  <1>. QED  BY <1>1, <1>2, PTL DEF Spec, ImplementsEventLog, Log!Spec

(* What readers are given in memory is the newest, the file misses no more  *)
(* than two events for each write that failed, and what it has is in the    *)
(* order of the calls where these did not overlap (Append, Recent and       *)
(* persistLocked, store.go:39-76, :133-151).                                *)
THEOREM StoreLogIsFaithful == Spec => []LogIsFaithful
  <1>1. Init => StoreInv /\ LogInv
    BY StoreInit, LogInit, StoreAssumption
  <1>2. StoreInv /\ LogInv /\ [Next]_vars => (StoreInv /\ LogInv)'
    BY StoreStep, LogStep, StoreAssumption DEF StoreInv
  <1>3. StoreInv /\ LogInv => LogIsFaithful
    BY LogInvImplies, StoreAssumption DEF StoreInv
  <1>. QED  BY <1>1, <1>2, <1>3, PTL DEF Spec

(* Replay is right on whatever logs it is tried on (Timeline and At,        *)
(* replay.go:35-118).                                                       *)
THEOREM ReplayRight == Spec => []ReplayIsRight
  <1>1. TimelineIsRight
    <2>. SUFFICES ASSUME NEW evs \in ShortLogs, NEW seconds \in -1..3, Ordered(evs)
                  PROVE  MomentsAre(evs, seconds, Moments(evs, seconds))
      BY DEF TimelineIsRight
    <2>1. IsLog(evs) /\ seconds \in Int
      BY StoreAssumption
    <2>. QED  BY <2>1, TimelineOf
  <1>2. SnapshotIsRight
    <2>. SUFFICES ASSUME NEW evs \in ShortLogs, NEW t \in 0..3, NEW seconds \in -1..2,
                         Ordered(evs)
                  PROVE  SnapshotIs(evs, t, seconds, Snapshot(evs, t, seconds))
      BY DEF SnapshotIsRight
    <2>1. IsLog(evs) /\ seconds \in Int /\ t \in Int
      BY StoreAssumption
    <2>. QED  BY <2>1, SnapshotOf
  <1>3. ReplayIsRight
    BY <1>1, <1>2 DEF ReplayIsRight
  <1>. QED  BY <1>3, PTL
=============================================================================
