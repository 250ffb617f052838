------------------------ MODULE BrowserSessionsProofs -----------------------
(***************************************************************************)
(* What holds of browser sessions for any number of sessions, captures,    *)
(* requests and browser processes, and for any size of the ring.           *)
(***************************************************************************)
EXTENDS BrowserSessions, FiniteSetTheorems, SequenceTheorems, TLAPS

Ring(s) == ToSet(shots[s])

OnDisk(x) == x \in full /\ x \in thumb

(* The rings hold shots of their session that have been added, each once. *)
RingInv(s) ==
    /\ \A x \in Ring(s) : ShotOf[x] = s /\ add[x] = "done"
    /\ \A i, j \in 1..Len(shots[s]) : shots[s][i] = shots[s][j] => i = j

(* The files a shot has as it is added, but for a clear meanwhile. *)
ShotInv(x) ==
    /\ add[x] \in {"idle", "full"} => x \notin full
    /\ add[x] \in {"idle", "full", "thumb"} => x \notin thumb
    /\ add[x] = "thumb" => x \in full \/ x \in disturbed
    /\ add[x] = "insert" \/ InRing(x) => OnDisk(x) \/ x \in disturbed
    /\ Clearing(ShotOf[x]) /\ (InRing(x) \/ x \in InFlight(ShotOf[x])) =>
           x \in disturbed

(* A reader's shot is in its ring until the reader is told. *)
ReadInv(r) ==
    /\ read[r].pc \in {"find", "read"} =>
           /\ read[r].shot \in Shots
           /\ read[r].session = ShotOf[read[r].shot]
           /\ r \in moved \/ InRing(read[r].shot)
    /\ read[r].pc = "error" => r \in moved \/ read[r].shot \in disturbed

FilesAreFew == IsFiniteSet(full) /\ IsFiniteSet(thumb) /\ DiskIsBounded

CloserInv(c) ==
    /\ close[c].pc \in {"clear", "stop"} => close[c].session \in Sessions
    /\ close[c].pc \in {"idle", "clear", "stop"} => close[c].held = {}

InTable(b) == \E s \in Sessions : instances[s] = b
InHand(b) == \E c \in Closers : b \in close[c].held

(* One holder at most, and one as long as the browser runs. *)
BrowserInv(b) ==
    /\ \A s, t \in Sessions : instances[s] = b /\ instances[t] = b => s = t
    /\ \A c, d \in Closers : b \in close[c].held /\ b \in close[d].held => c = d
    /\ ~(InTable(b) /\ InHand(b))
    /\ browser[b] = "off" => ~InTable(b) /\ ~InHand(b)
    /\ browser[b] \in {"live", "stopping"} => InTable(b) \/ InHand(b)

StoreInv ==
    /\ \A s \in Sessions : RingInv(s)
    /\ \A x \in Shots : ShotInv(x)
    /\ \A r \in Readers : ReadInv(r)
    /\ FilesAreFew

ManagerInv ==
    /\ \A c \in Closers : CloserInv(c)
    /\ \A b \in Browsers : BrowserInv(b)

BrowserSessionsInv == TypeOK /\ StoreInv /\ ManagerInv

-----------------------------------------------------------------------------
(* Lemmas about rings and counts *)

Distinct(q) == \A i, j \in 1..Len(q) : q[i] = q[j] => i = j

LEMMA RingElements ==
    ASSUME NEW S, NEW q \in Seq(S)
    PROVE  /\ ToSet(q) = {q[i] : i \in 1..Len(q)}
           /\ ToSet(q) \subseteq S
           /\ q # <<>> => Last(q) \in ToSet(q)
           /\ q = <<>> => ToSet(q) = {}
  <1>1. DOMAIN q = 1..Len(q) /\ Len(q) \in Nat
    OBVIOUS
  <1>2. q # <<>> => Len(q) \in 1..Len(q)
    OBVIOUS
  <1>. QED  BY <1>1, <1>2 DEF ToSet, Last

LEMMA RingAppended ==
    ASSUME NEW S, NEW q \in Seq(S), NEW x \in S
    PROVE  /\ Append(q, x) \in Seq(S)
           /\ ToSet(Append(q, x)) = ToSet(q) \cup {x}
           /\ Distinct(q) /\ x \notin ToSet(q) => Distinct(Append(q, x))
  <1>. DEFINE r == Append(q, x)
  <1>1. /\ r \in Seq(S)
        /\ Len(q) \in Nat
        /\ Len(r) = Len(q) + 1
        /\ r[Len(q) + 1] = x
        /\ \A i \in 1..Len(q) : r[i] = q[i]
    OBVIOUS
  <1>. HIDE DEF r
  <1>2. ToSet(r) = {r[i] : i \in 1..Len(r)} /\ ToSet(q) = {q[i] : i \in 1..Len(q)}
    BY <1>1, RingElements
  <1>3. 1..Len(r) = 1..Len(q) \cup {Len(q) + 1}
    BY <1>1
  <1>4. ToSet(r) = ToSet(q) \cup {x}
    BY <1>1, <1>2, <1>3
  <1>5. ASSUME Distinct(q), x \notin ToSet(q) PROVE Distinct(r)
    BY <1>1, <1>2, <1>3, <1>5 DEF Distinct
  <1>. QED  BY <1>1, <1>4, <1>5 DEF r

LEMMA RingShifted ==
    ASSUME NEW S, NEW q \in Seq(S), q # <<>>, Distinct(q)
    PROVE  /\ Tail(q) \in Seq(S)
           /\ Distinct(Tail(q))
           /\ Head(q) \in ToSet(q)
           /\ ToSet(Tail(q)) = ToSet(q) \ {Head(q)}
  <1>. DEFINE r == Tail(q)
  <1>1. /\ r \in Seq(S)
        /\ Len(q) \in Nat \ {0}
        /\ Len(r) = Len(q) - 1
        /\ Head(q) = q[1]
        /\ \A i \in 1..Len(r) : r[i] = q[i + 1]
    BY HeadTailProperties, EmptySeq
  <1>. HIDE DEF r
  <1>2. ToSet(r) = {r[i] : i \in 1..Len(r)} /\ ToSet(q) = {q[i] : i \in 1..Len(q)}
    BY <1>1, RingElements
  <1>3. Distinct(r)
    BY <1>1 DEF Distinct
  <1>4. Head(q) \in ToSet(q)
    BY <1>1, <1>2
  <1>5. ToSet(r) \subseteq ToSet(q) \ {Head(q)}
    BY <1>1, <1>2 DEF Distinct
  <1>6. ASSUME NEW y \in ToSet(q), y # Head(q) PROVE y \in ToSet(r)
    <2>1. PICK i \in 1..Len(q) : y = q[i]
      BY <1>2
    <2>2. i # 1 /\ i - 1 \in 1..Len(r) /\ r[i - 1] = q[i]
      BY <1>1, <1>6, <2>1
    <2>. QED  BY <1>2, <2>1, <2>2
  <1>. QED  BY <1>1, <1>3, <1>4, <1>5, <1>6 DEF r

(* What Insert does to a ring: the shot comes in, at most one goes out. *)
LEMMA RingTurns ==
    ASSUME NEW S, NEW q \in Seq(S), NEW x \in S, NEW N \in Nat \ {0},
           Len(q) <= N, Distinct(q), x \notin ToSet(q)
    PROVE  LET ring == Append(q, x)
               evicted == IF Len(ring) > N THEN {Head(ring)} ELSE {}
               kept == IF evicted = {} THEN ring ELSE Tail(ring)
           IN /\ kept \in Seq(S)
              /\ Len(kept) <= N
              /\ Distinct(kept)
              /\ evicted \subseteq ToSet(q)
              /\ ToSet(kept) = (ToSet(q) \ evicted) \cup {x}
  <1>. DEFINE ring == Append(q, x)
              evicted == IF Len(ring) > N THEN {Head(ring)} ELSE {}
              kept == IF evicted = {} THEN ring ELSE Tail(ring)
  <1>1. /\ ring \in Seq(S)
        /\ ToSet(ring) = ToSet(q) \cup {x}
        /\ Distinct(ring)
    BY RingAppended
  <1>2. Len(ring) = Len(q) + 1 /\ Len(q) \in Nat
    OBVIOUS
  <1>3. CASE Len(ring) > N
    <2>1. q # <<>> /\ ring # <<>> /\ Head(ring) = q[1]
      BY <1>2, <1>3
    <2>2. Head(ring) \in ToSet(q)
      BY <2>1, <1>2, RingElements
    <2>3. /\ Tail(ring) \in Seq(S)
          /\ Distinct(Tail(ring))
          /\ ToSet(Tail(ring)) = ToSet(ring) \ {Head(ring)}
      BY <1>1, <2>1, RingShifted
    <2>4. Len(Tail(ring)) = Len(q)
      BY <1>1, <1>2, <2>1, HeadTailProperties
    <2>5. kept = Tail(ring) /\ evicted = {Head(ring)}
      BY <1>3
    <2>. HIDE DEF ring, kept, evicted
    <2>6. ToSet(kept) = (ToSet(q) \ evicted) \cup {x}
      BY <1>1, <2>2, <2>3, <2>5
    <2>7. kept \in Seq(S) /\ Len(kept) <= N /\ Distinct(kept) /\ evicted \subseteq ToSet(q)
      BY <2>2, <2>3, <2>4, <2>5
    <2>. QED  BY ONLY <2>6, <2>7 DEF kept, evicted, ring
  <1>4. CASE ~(Len(ring) > N)
    <2>1. kept = ring /\ evicted = {}
      BY <1>4
    <2>2. Len(ring) <= N
      BY <1>2, <1>4
    <2>. HIDE DEF ring, kept, evicted
    <2>3. /\ ToSet(kept) = (ToSet(q) \ evicted) \cup {x}
          /\ kept \in Seq(S) /\ Len(kept) <= N /\ Distinct(kept) /\ evicted \subseteq ToSet(q)
      BY <1>1, <2>1, <2>2
    <2>. QED  BY ONLY <2>3 DEF kept, evicted, ring
  <1>. QED  BY <1>3, <1>4

(* Fewer files, or one more on either side. *)
LEMMA CountsFall ==
    ASSUME NEW A, NEW B, IsFiniteSet(A), IsFiniteSet(B), NEW n \in Nat,
           Cardinality(A) + Cardinality(B) <= n,
           NEW A2 \in SUBSET A, NEW B2 \in SUBSET B
    PROVE  Cardinality(A2) + Cardinality(B2) <= n
  <1>1. /\ Cardinality(A2) <= Cardinality(A)
        /\ Cardinality(B2) <= Cardinality(B)
        /\ IsFiniteSet(A2) /\ IsFiniteSet(B2)
    BY FS_Subset
  <1>2. /\ Cardinality(A) \in Nat /\ Cardinality(B) \in Nat
        /\ Cardinality(A2) \in Nat /\ Cardinality(B2) \in Nat
    BY <1>1, FS_CardinalityType
  <1>. QED  BY <1>1, <1>2

LEMMA CountsGrow ==
    ASSUME NEW A, NEW B, IsFiniteSet(A), IsFiniteSet(B), NEW n \in Nat,
           Cardinality(A) + Cardinality(B) <= n,
           NEW x, NEW A2 \in SUBSET (A \cup {x}), NEW B2 \in SUBSET B
    PROVE  /\ Cardinality(A2) + Cardinality(B2) <= n + 1
           /\ Cardinality(B2) + Cardinality(A2) <= n + 1
  <1>1. IsFiniteSet(A \cup {x}) /\ Cardinality(A \cup {x}) <= Cardinality(A) + 1
    <2>1. Cardinality(A) \in Nat
      BY FS_CardinalityType
    <2>2. /\ IsFiniteSet(A \cup {x})
          /\ Cardinality(A \cup {x}) =
               IF x \in A THEN Cardinality(A) ELSE Cardinality(A) + 1
      BY FS_AddElement
    <2>. QED  BY <2>1, <2>2
  <1>2. Cardinality(A2) <= Cardinality(A \cup {x}) /\ Cardinality(B2) <= Cardinality(B)
    BY <1>1, FS_Subset
  <1>3. /\ Cardinality(A) \in Nat /\ Cardinality(B) \in Nat
        /\ Cardinality(A \cup {x}) \in Nat
        /\ Cardinality(A2) \in Nat /\ Cardinality(B2) \in Nat
    BY <1>1, FS_Subset, FS_CardinalityType
  <1>. QED  BY <1>1, <1>2, <1>3

-----------------------------------------------------------------------------
(* Lemmas about the store *)

LEMMA BrowserInit == Init /\ BrowserAssumption => BrowserSessionsInv
  <1>. SUFFICES ASSUME Init, BrowserAssumption PROVE BrowserSessionsInv
    OBVIOUS
  <1>1. \A s \in Sessions : shots[s] = <<>> /\ Len(shots[s]) = 0 /\ Ring(s) = {}
    <2>1. ToSet(<<>>) = {}
      BY EmptySeq, RingElements
    <2>. QED  BY <2>1 DEF Init, Ring
  <1>2. TypeOK
    BY <1>1 DEF Init, BrowserAssumption, TypeOK
  <1>3. \A x \in Shots : ~InRing(x)
    BY <1>1 DEF InRing, Ring, BrowserAssumption
  <1>4. \A s \in Sessions : ~Clearing(s)
    BY DEF Init, Clearing
  <1>5. \A s \in Sessions : RingInv(s)
    BY <1>1 DEF RingInv
  <1>6. \A x \in Shots : ShotInv(x)
    BY <1>3, <1>4 DEF Init, ShotInv, BrowserAssumption
  <1>7. \A r \in Readers : ReadInv(r)
    BY DEF Init, ReadInv
  <1>8. FilesAreFew
    <2>1. Strays(full) = {} /\ Strays(thumb) = {}
      BY DEF Init, Strays
    <2>2. full = {} /\ thumb = {} /\ fails = 0
      BY DEF Init
    <2>3. DiskIsBounded
      BY ONLY <2>1, <2>2, FS_EmptySet DEF DiskIsBounded
    <2>. QED  BY ONLY <2>2, <2>3, FS_EmptySet DEF FilesAreFew
  <1>9. ManagerInv
    BY DEF Init, ManagerInv, CloserInv, BrowserInv, InTable, InHand,
       BrowserAssumption
  <1>. QED  BY <1>2, <1>5, <1>6, <1>7, <1>8, <1>9 DEF BrowserSessionsInv, StoreInv

(* Insert, in terms of the sets of shots the rings hold. *)
Evicts(x, evicted) ==
    /\ evicted \subseteq Ring(ShotOf[x])
    /\ shots' \in [Sessions -> Seq(Shots)]
    /\ \A s \in Sessions : Len(shots'[s]) <= RingSize /\ Distinct(shots'[s])
    /\ Ring(ShotOf[x])' = (Ring(ShotOf[x]) \ evicted) \cup {x}
    /\ \A s \in Sessions : s # ShotOf[x] => Ring(s)' = Ring(s)
    /\ full' = full \ evicted
    /\ thumb' = thumb \ evicted
    /\ Leave(evicted)

LEMMA InsertEvicts ==
    ASSUME TypeOK, BrowserAssumption, \A s \in Sessions : RingInv(s),
           NEW x \in Shots, Insert(x)
    PROVE  \E evicted \in SUBSET Shots : Evicts(x, evicted)
  <1>. DEFINE s0 == ShotOf[x]
              ring == Append(shots[s0], x)
              evicted == IF Len(ring) > RingSize THEN {Head(ring)} ELSE {}
              kept == IF evicted = {} THEN ring ELSE Tail(ring)
  <1>1. s0 \in Sessions /\ shots[s0] \in Seq(Shots) /\ Len(shots[s0]) <= RingSize
    BY DEF TypeOK, BrowserAssumption
  <1>2. Distinct(shots[s0]) /\ x \notin ToSet(shots[s0])
    BY <1>1 DEF RingInv, Distinct, Ring, Insert
  <1>3. /\ kept \in Seq(Shots)
        /\ Len(kept) <= RingSize
        /\ Distinct(kept)
        /\ evicted \subseteq ToSet(shots[s0])
        /\ ToSet(kept) = (ToSet(shots[s0]) \ evicted) \cup {x}
    BY <1>1, <1>2, RingTurns DEF BrowserAssumption
  <1>4. /\ shots' = [shots EXCEPT ![s0] = kept]
        /\ full' = full \ evicted
        /\ thumb' = thumb \ evicted
        /\ Leave(evicted)
    BY DEF Insert
  <1>. HIDE DEF ring, evicted, kept
  <1>5. shots'[s0] = kept /\ \A s \in Sessions : s # s0 => shots'[s] = shots[s]
    BY <1>1, <1>4 DEF TypeOK
  <1>6. ToSet(shots[s0]) \subseteq Shots
    BY <1>1, RingElements
  <1>7. shots' \in [Sessions -> Seq(Shots)]
    BY <1>1, <1>3, <1>4 DEF TypeOK
  <1>8. \A s \in Sessions : Len(shots'[s]) <= RingSize /\ Distinct(shots'[s])
    <2>1. \A s \in Sessions : Len(shots[s]) <= RingSize /\ Distinct(shots[s])
      BY DEF TypeOK, RingInv, Distinct
    <2>. QED  BY <2>1, <1>3, <1>5
  <1>9. Evicts(x, evicted)
    BY <1>3, <1>4, <1>5, <1>7, <1>8 DEF Evicts, Ring
  <1>. QED  BY <1>3, <1>6, <1>9

(* No new file, and none that loses its reason to be. *)
LEMMA FilesShrink ==
    ASSUME FilesAreFew, fails \in Nat, fails' = fails,
           full' \subseteq full, thumb' \subseteq thumb,
           \A x \in full' \cup thumb' : Kept(x) => Kept(x)'
    PROVE  FilesAreFew'
  <1>1. Strays(full)' \subseteq Strays(full) /\ Strays(thumb)' \subseteq Strays(thumb)
    BY DEF Strays
  <1>2. IsFiniteSet(full)' /\ IsFiniteSet(thumb)'
    BY FS_Subset DEF FilesAreFew
  <1>3. IsFiniteSet(Strays(full)) /\ IsFiniteSet(Strays(thumb))
    BY FS_Subset DEF FilesAreFew, Strays
  <1>4. DiskIsBounded'
    BY <1>1, <1>3, CountsFall DEF FilesAreFew, DiskIsBounded
  <1>. QED  BY <1>2, <1>4 DEF FilesAreFew

(* A write: what it leaves is accounted for, or it failed. *)
LEMMA FilesGrow ==
    ASSUME FilesAreFew, fails \in Nat, NEW x,
           full' \subseteq full \cup {x}, thumb' \subseteq thumb \cup {x},
           \A y \in full' \cup thumb' : y # x /\ Kept(y) => Kept(y)',
           \/ fails' = fails /\ (x \in full' \cup thumb' => Kept(x)')
           \/ fails' = fails + 1 /\ ~(x \in full' /\ x \in thumb')
    PROVE  FilesAreFew'
  <1>1. IsFiniteSet(full)' /\ IsFiniteSet(thumb)'
    <2>1. IsFiniteSet(full \cup {x}) /\ IsFiniteSet(thumb \cup {x})
      BY FS_AddElement DEF FilesAreFew
    <2>. QED  BY <2>1, FS_Subset
  <1>2. IsFiniteSet(Strays(full)) /\ IsFiniteSet(Strays(thumb))
    BY FS_Subset DEF FilesAreFew, Strays
  <1>3. /\ Strays(full)' \subseteq Strays(full) \cup {x}
        /\ Strays(thumb)' \subseteq Strays(thumb) \cup {x}
    BY DEF Strays
  <1>4. DiskIsBounded'
    <2>1. CASE fails' = fails /\ (x \in full' \cup thumb' => Kept(x)')
      <3>1. Strays(full)' \subseteq Strays(full) /\ Strays(thumb)' \subseteq Strays(thumb)
        BY <2>1, <1>3 DEF Strays
      <3>. QED  BY <2>1, <3>1, <1>2, CountsFall DEF FilesAreFew, DiskIsBounded
    <2>2. CASE fails' = fails + 1 /\ x \notin thumb'
      <3>1. Strays(thumb)' \subseteq Strays(thumb)
        BY <2>2, <1>3 DEF Strays
      <3>. QED  BY <2>2, <3>1, <1>2, <1>3, CountsGrow DEF FilesAreFew, DiskIsBounded
    <2>3. CASE fails' = fails + 1 /\ x \notin full'
      <3>1. Strays(full)' \subseteq Strays(full)
        BY <2>3, <1>3 DEF Strays
      <3>2. /\ Cardinality(Strays(full)) \in Nat
            /\ Cardinality(Strays(thumb)) \in Nat
        BY <1>2, FS_CardinalityType
      <3>3. Cardinality(Strays(thumb)) + Cardinality(Strays(full)) <= fails
        BY <3>2 DEF FilesAreFew, DiskIsBounded
      <3>. QED  BY <2>3, <3>1, <3>3, <1>2, <1>3, CountsGrow DEF DiskIsBounded
    <2>. QED  BY <2>1, <2>2, <2>3
  <1>. QED  BY <1>1, <1>4 DEF FilesAreFew

(* Steps that leave the store and its clears alone. *)
LEMMA StoreStays ==
    ASSUME StoreInv, UNCHANGED <<storeVars, read>>,
           \A s : Clearing(s)' <=> Clearing(s)
    PROVE  StoreInv'
  <1>. USE DEF storeVars, StoreInv
  <1>1. \A x : (InRing(x)' <=> InRing(x)) /\ (Kept(x)' <=> Kept(x))
    BY DEF InRing, Kept, InFlight
  <1>2. \A s \in Sessions : RingInv(s)'
    BY DEF RingInv, Ring
  <1>3. ASSUME NEW x \in Shots PROVE ShotInv(x)'
    BY <1>1 DEF ShotInv, InFlight, OnDisk
  <1>4. \A r \in Readers : ReadInv(r)'
    BY <1>1 DEF ReadInv
  <1>5. FilesAreFew'
    <2>1. Strays(full)' = Strays(full) /\ Strays(thumb)' = Strays(thumb)
      BY <1>1 DEF Strays
    <2>. QED  BY <2>1 DEF FilesAreFew, DiskIsBounded
  <1>. QED  BY <1>2, <1>3, <1>4, <1>5

-----------------------------------------------------------------------------
(* The store: one lemma per operation *)

(* Steps that change no ring, and the state of one shot that is in none. *)
LEMMA AddingStays ==
    ASSUME TypeOK, StoreInv, BrowserAssumption, NEW x \in Shots,
           add[x] \in {"idle", "full", "thumb"},
           NEW a \in {"full", "thumb", "insert", "failed"},
           add' = [add EXCEPT ![x] = a],
           UNCHANGED <<shots, read, moved, close>>,
           full' \in {full, full \cup {x}, full \ {x}},
           thumb' \in {thumb, thumb \cup {x}},
           disturbed' \in {disturbed, disturbed \cup {x}},
           ShotInv(x)',
           \/ fails' = fails /\ (x \in full' \cup thumb' => Kept(x)')
           \/ fails' = fails + 1 /\ ~(x \in full' /\ x \in thumb')
    PROVE  StoreInv'
  <1>t. /\ add \in [Shots -> {"idle", "full", "thumb", "insert", "done", "failed"}]
        /\ full \subseteq Shots /\ thumb \subseteq Shots /\ fails \in Nat
    BY DEF TypeOK, BrowserAssumption
  <1>1. /\ \A y : InRing(y)' <=> InRing(y)
        /\ \A s : Clearing(s)' <=> Clearing(s)
        /\ \A y \in Shots : y # x => add'[y] = add[y]
    BY <1>t DEF InRing, Clearing
  <1>2. \A s \in Sessions : x \notin Ring(s)
    BY DEF StoreInv, RingInv
  <1>3. \A s \in Sessions : RingInv(s)'
    <2>. SUFFICES ASSUME NEW s \in Sessions PROVE RingInv(s)'
      OBVIOUS
    <2>1. shots[s] \in Seq(Shots) /\ Ring(s) \subseteq Shots
      BY RingElements DEF TypeOK, Ring
    <2>2. RingInv(s) /\ Ring(s)' = Ring(s)
      BY DEF StoreInv, Ring
    <2>. QED  BY <1>1, <1>2, <2>1, <2>2 DEF RingInv
  <1>4. ASSUME NEW y \in Shots, y # x PROVE ShotInv(y)'
    <2>1. y \in InFlight(ShotOf[y])' <=> y \in InFlight(ShotOf[y])
      BY <1>1, <1>4 DEF InFlight
    <2>2. ShotInv(y)
      BY DEF StoreInv
    <2>. QED  BY <1>1, <1>4, <2>1, <2>2 DEF ShotInv, OnDisk
  <1>5. \A r \in Readers : ReadInv(r)'
    BY <1>1 DEF StoreInv, ReadInv
  <1>6. FilesAreFew'
    <2>1. \A y \in full' \cup thumb' : y # x /\ Kept(y) => Kept(y)'
      BY <1>t, <1>1 DEF Kept, InFlight
    <2>2. full' \subseteq full \cup {x} /\ thumb' \subseteq thumb \cup {x}
      OBVIOUS
    <2>. QED  BY <1>t, <2>1, <2>2, FilesGrow DEF StoreInv
  <1>. QED  BY <1>3, <1>4, <1>5, <1>6 DEF StoreInv

LEMMA MakeDirStays ==
    ASSUME TypeOK, StoreInv, BrowserAssumption, NEW x \in Shots, MakeDir(x)
    PROVE  StoreInv'
  <1>t. add'[x] = "full"
    BY DEF MakeDir, TypeOK
  <1>1. ShotInv(x) /\ ShotOf[x] \in Sessions
    BY DEF StoreInv, BrowserAssumption
  <1>2. ~InRing(x)
    BY <1>1 DEF StoreInv, RingInv, Ring, InRing, MakeDir
  <1>3. (InRing(x)' <=> InRing(x)) /\ (Clearing(ShotOf[x])' <=> Clearing(ShotOf[x]))
    BY DEF MakeDir, InRing, Clearing
  <1>4. ShotInv(x)'
    BY <1>t, <1>1, <1>2, <1>3 DEF MakeDir, ShotInv
  <1>5. x \notin full' \cup thumb'
    BY <1>1 DEF MakeDir, ShotInv
  <1>. QED  BY <1>4, <1>5, AddingStays DEF MakeDir

LEMMA WriteFullStays ==
    ASSUME TypeOK, StoreInv, BrowserAssumption, NEW x \in Shots, WriteFull(x)
    PROVE  StoreInv'
  <1>1. ShotInv(x) /\ ShotOf[x] \in Sessions
    BY DEF StoreInv, BrowserAssumption
  <1>2. ~InRing(x)
    BY <1>1 DEF StoreInv, RingInv, Ring, InRing, WriteFull
  <1>3. (InRing(x)' <=> InRing(x)) /\ (Clearing(ShotOf[x])' <=> Clearing(ShotOf[x]))
    BY DEF WriteFull, InRing, Clearing
  <1>4. x \in InFlight(ShotOf[x]) /\ x \notin full /\ x \notin thumb
    BY <1>1 DEF WriteFull, ShotInv, InFlight
  <1>5. CASE Write(x, full) /\ add' = [add EXCEPT ![x] = "thumb"]
    <2>1. add'[x] = "thumb"
      BY <1>5 DEF TypeOK
    <2>2. ShotInv(x)'
      BY <1>1, <1>2, <1>3, <1>4, <1>5, <2>1 DEF ShotInv, Write, WriteFull
    <2>3. Kept(x)'
      BY <2>1 DEF Kept, InFlight
    <2>. QED  BY <1>5, <2>2, <2>3, AddingStays DEF Write, WriteFull
  <1>6. CASE WriteFails(x, full) /\ add' = [add EXCEPT ![x] = "failed"]
    <2>1. add'[x] = "failed"
      BY <1>6 DEF TypeOK
    <2>2. ShotInv(x)'
      BY <1>2, <1>3, <2>1 DEF ShotInv, InFlight
    <2>3. \/ fails' = fails /\ full' = full
          \/ fails' = fails + 1 /\ full' \in {full, full \cup {x}}
      BY <1>6 DEF WriteFails
    <2>. QED  BY <1>4, <1>6, <2>2, <2>3, AddingStays DEF WriteFull
  <1>. QED  BY <1>5, <1>6 DEF WriteFull

LEMMA WriteThumbStays ==
    ASSUME TypeOK, StoreInv, BrowserAssumption, NEW x \in Shots, WriteThumb(x)
    PROVE  StoreInv'
  <1>1. ShotInv(x) /\ ShotOf[x] \in Sessions
    BY DEF StoreInv, BrowserAssumption
  <1>2. ~InRing(x)
    BY <1>1 DEF StoreInv, RingInv, Ring, InRing, WriteThumb
  <1>3. (InRing(x)' <=> InRing(x)) /\ (Clearing(ShotOf[x])' <=> Clearing(ShotOf[x]))
    BY DEF WriteThumb, InRing, Clearing
  <1>4. x \in InFlight(ShotOf[x]) /\ (x \in full \/ x \in disturbed) /\ x \notin thumb
    BY <1>1 DEF WriteThumb, ShotInv, InFlight
  <1>5. CASE Write(x, thumb) /\ add' = [add EXCEPT ![x] = "insert"] /\ full' = full
    <2>1. add'[x] = "insert"
      BY <1>5 DEF TypeOK
    <2>2. ShotInv(x)'
      BY <1>1, <1>2, <1>3, <1>4, <1>5, <2>1 DEF ShotInv, OnDisk, Write, WriteThumb
    <2>3. Kept(x)'
      BY <2>1 DEF Kept, InFlight
    <2>. QED  BY <1>5, <2>2, <2>3, AddingStays DEF Write, WriteThumb
  <1>6. CASE WriteFails(x, thumb) /\ add' = [add EXCEPT ![x] = "failed"]
             /\ full' = full \ {x}
    <2>1. add'[x] = "failed"
      BY <1>6 DEF TypeOK
    <2>2. ShotInv(x)'
      BY <1>2, <1>3, <2>1 DEF ShotInv, InFlight
    <2>3. \/ fails' = fails /\ thumb' = thumb
          \/ fails' = fails + 1 /\ thumb' \in {thumb, thumb \cup {x}}
      BY <1>6 DEF WriteFails
    <2>. QED  BY <1>4, <1>6, <2>2, <2>3, AddingStays DEF WriteThumb
  <1>. QED  BY <1>5, <1>6 DEF WriteThumb

LEMMA InsertStays ==
    ASSUME TypeOK, StoreInv, BrowserAssumption, NEW x \in Shots, Insert(x)
    PROVE  StoreInv'
  <1>. PICK evicted \in SUBSET Shots : Evicts(x, evicted)
    BY InsertEvicts DEF StoreInv
  <1>t. /\ add \in [Shots -> {"idle", "full", "thumb", "insert", "done", "failed"}]
        /\ full \subseteq Shots /\ thumb \subseteq Shots /\ fails \in Nat
        /\ \A y \in Shots : ShotOf[y] \in Sessions
        /\ \A s \in Sessions : Ring(s) \subseteq Shots
    BY RingElements DEF TypeOK, BrowserAssumption, Ring
  <1>a. /\ add[x] = "insert"
        /\ add' = [add EXCEPT ![x] = "done"]
        /\ UNCHANGED <<dirs, fails, disturbed, read, close>>
    BY DEF Insert
  <1>b. /\ evicted \subseteq Ring(ShotOf[x])
        /\ Ring(ShotOf[x])' = (Ring(ShotOf[x]) \ evicted) \cup {x}
        /\ \A s \in Sessions : s # ShotOf[x] => Ring(s)' = Ring(s)
        /\ \A s \in Sessions : Distinct(shots'[s])
        /\ full' = full \ evicted
        /\ thumb' = thumb \ evicted
        /\ moved' = moved \cup {r \in Readers : read[r].shot \in evicted}
    BY DEF Evicts, Leave
  <1>1. \A s : Clearing(s)' <=> Clearing(s)
    BY <1>a DEF Clearing
  <1>2. /\ \A y \in evicted : ShotOf[y] = ShotOf[x]
        /\ x \notin evicted
        /\ \A s \in Sessions : x \notin Ring(s)
    BY <1>a, <1>b, <1>t DEF StoreInv, RingInv
  <1>3. /\ InRing(x)'
        /\ \A y \in Shots : y # x => (InRing(y)' <=> InRing(y) /\ y \notin evicted)
    BY <1>b, <1>t, <1>2 DEF InRing, Ring
  <1>4. add'[x] = "done" /\ \A y \in Shots : y # x => add'[y] = add[y]
    BY <1>a, <1>t
  <1>5. ASSUME NEW s \in Sessions PROVE RingInv(s)'
    <2>1. RingInv(s) /\ RingInv(ShotOf[x])
      BY <1>t DEF StoreInv
    <2>2. \A y \in Ring(s)' : (y = x /\ s = ShotOf[x]) \/ y \in Ring(s)
      BY <1>b
    <2>3. \A y \in Ring(s)' : ShotOf[y] = s /\ add'[y] = "done"
      BY <1>t, <1>4, <2>1, <2>2 DEF RingInv
    <2>. QED  BY <1>b, <2>3 DEF RingInv, Distinct
  <1>6. ASSUME NEW y \in Shots PROVE ShotInv(y)'
    <2>1. ShotInv(y)
      BY DEF StoreInv
    <2>2. CASE y = x
      BY <1>a, <1>b, <1>1, <1>2, <1>4, <2>1, <2>2 DEF ShotInv, InFlight, OnDisk
    <2>3. CASE y # x /\ y \notin evicted
      <3>1. y \in InFlight(ShotOf[y])' <=> y \in InFlight(ShotOf[y])
        BY <1>4, <2>3 DEF InFlight
      <3>. QED  BY <1>a, <1>b, <1>1, <1>3, <1>4, <2>1, <2>3, <3>1 DEF ShotInv,
                   OnDisk
    <2>4. CASE y # x /\ y \in evicted
      <3>1. add[y] = "done" /\ add'[y] = "done"
        BY <1>b, <1>t, <1>4, <2>4 DEF StoreInv, RingInv
      <3>. QED  BY <1>3, <2>4, <3>1 DEF ShotInv, InFlight
    <2>. QED  BY <2>2, <2>3, <2>4
  <1>7. ASSUME NEW r \in Readers PROVE ReadInv(r)'
    <2>1. ReadInv(r)
      BY DEF StoreInv
    <2>. QED  BY <1>a, <1>b, <1>3, <2>1 DEF ReadInv
  <1>8. FilesAreFew'
    <2>1. \A y \in full' \cup thumb' : Kept(y) => Kept(y)'
      BY <1>b, <1>t, <1>1, <1>3, <1>4 DEF Kept, InFlight
    <2>. QED  BY <1>a, <1>b, <1>t, <2>1, FilesShrink DEF StoreInv
  <1>. QED  BY <1>5, <1>6, <1>7, <1>8 DEF StoreInv

(* A reader's step: its own record changes. *)
LEMMA ReadingStays ==
    ASSUME StoreInv, UNCHANGED <<storeVars, close>>,
           \A r \in Readers : ReadInv(r)'
    PROVE  StoreInv'
  <1>. USE DEF storeVars, StoreInv
  <1>1. /\ \A x : (InRing(x)' <=> InRing(x)) /\ (Kept(x)' <=> Kept(x))
        /\ \A s : Clearing(s)' <=> Clearing(s)
    BY DEF InRing, Kept, InFlight, Clearing
  <1>2. \A s \in Sessions : RingInv(s)'
    BY DEF RingInv, Ring
  <1>3. ASSUME NEW x \in Shots PROVE ShotInv(x)'
    BY <1>1 DEF ShotInv, InFlight, OnDisk
  <1>5. FilesAreFew'
    <2>1. Strays(full)' = Strays(full) /\ Strays(thumb)' = Strays(thumb)
      BY <1>1 DEF Strays
    <2>. QED  BY <2>1 DEF FilesAreFew, DiskIsBounded
  <1>. QED  BY <1>2, <1>3, <1>5

LEMMA ReadStays ==
    ASSUME TypeOK, StoreInv, BrowserAssumption, NEW r \in Readers,
           ReadStep(r) \/ \E s \in Sessions : Latest(r, s)
    PROVE  StoreInv'
  <1>t. read \in [Readers -> [pc : {"idle", "none", "find", "read", "image",
                                   "error"},
                             session : Sessions \cup {None},
                             shot : Shots \cup {None}]]
    BY DEF TypeOK
  <1>i. \A q \in Readers : ReadInv(q)
    BY DEF StoreInv
  <1>1. CASE ReadFull(r)
    <2>1. \A x : InRing(x)' <=> InRing(x)
      BY <1>1 DEF ReadFull, storeVars, InRing
    <2>2. \A q \in Readers : q # r => ReadInv(q)'
      BY <1>1, <1>t, <1>i, <2>1 DEF ReadFull, storeVars, ReadInv
    <2>3. ReadInv(r)'
      <3>1. /\ read[r].shot \in Shots
            /\ read[r].session = ShotOf[read[r].shot]
            /\ r \in moved \/ InRing(read[r].shot)
        BY <1>1, <1>i DEF ReadFull, ReadInv
      <3>2. /\ read'[r].shot = read[r].shot
            /\ read'[r].session = read[r].session
            /\ read'[r].pc \in {"read", "error"}
            /\ read'[r].pc = "error" => ~InRing(read[r].shot)
            /\ moved' = moved
        BY <1>1, <1>t, <3>1 DEF ReadFull, InRing, storeVars
      <3>. QED  BY <2>1, <3>1, <3>2 DEF ReadInv
    <2>. QED  BY <1>1, <2>2, <2>3, ReadingStays DEF ReadFull
  <1>2. CASE ReadFile(r)
    <2>1. \A x : InRing(x)' <=> InRing(x)
      BY <1>2 DEF ReadFile, storeVars, InRing
    <2>2. \A q \in Readers : q # r => ReadInv(q)'
      BY <1>2, <1>t, <1>i, <2>1 DEF ReadFile, storeVars, ReadInv
    <2>3. ReadInv(r)'
      <3>1. /\ read[r].shot \in Shots
            /\ r \in moved \/ InRing(read[r].shot)
        BY <1>2, <1>i DEF ReadFile, ReadInv
      <3>2. InRing(read[r].shot) => read[r].shot \in full \/ read[r].shot \in disturbed
        BY <3>1 DEF StoreInv, ShotInv, OnDisk
      <3>3. /\ read'[r].shot = read[r].shot
            /\ read'[r].pc \in {"image", "error"}
            /\ read'[r].pc = "error" => read[r].shot \notin full
            /\ UNCHANGED <<moved, disturbed>>
        BY <1>2, <1>t DEF ReadFile, storeVars
      <3>. QED  BY <3>1, <3>2, <3>3 DEF ReadInv
    <2>. QED  BY <1>2, <2>2, <2>3, ReadingStays DEF ReadFile
  <1>3. ASSUME NEW s \in Sessions, Latest(r, s) PROVE StoreInv'
    <2>1. \A x : InRing(x)' <=> InRing(x)
      BY <1>3 DEF Latest, storeVars, InRing
    <2>2. \A q \in Readers : q # r => ReadInv(q)'
      BY <1>3, <1>t, <1>i, <2>1 DEF Latest, storeVars, ReadInv
    <2>3. ReadInv(r)'
      <3>1. CASE shots[s] = <<>>
        <4>1. read'[r].pc = "none"
          BY <1>3, <1>t, <3>1 DEF Latest
        <4>. QED  BY <4>1 DEF ReadInv
      <3>2. CASE shots[s] # <<>>
        <4>1. Last(shots[s]) \in Ring(s) /\ Ring(s) \subseteq Shots
          BY <3>2, RingElements DEF TypeOK, Ring
        <4>2. ShotOf[Last(shots[s])] = s /\ InRing(Last(shots[s]))
          BY <4>1 DEF StoreInv, RingInv, InRing, Ring
        <4>3. read'[r] = [pc |-> "find", session |-> s, shot |-> Last(shots[s])]
          BY <1>3, <1>t, <3>2 DEF Latest
        <4>. QED  BY <2>1, <4>1, <4>2, <4>3 DEF ReadInv
      <3>. QED  BY <3>1, <3>2
    <2>. QED  BY <1>3, <2>2, <2>3, ReadingStays DEF Latest
  <1>. QED  BY <1>1, <1>2, <1>3 DEF ReadStep

LEMMA TakeRingStays ==
    ASSUME TypeOK, StoreInv, BrowserAssumption, NEW c \in Closers,
           NEW s \in Sessions, TakeRing(c, s)
    PROVE  StoreInv'
  <1>t. /\ add \in [Shots -> {"idle", "full", "thumb", "insert", "done", "failed"}]
        /\ full \subseteq Shots /\ thumb \subseteq Shots /\ fails \in Nat
        /\ \A y \in Shots : ShotOf[y] \in Sessions
        /\ Ring(s) \subseteq Shots
    BY RingElements DEF TypeOK, BrowserAssumption, Ring
  <1>a. /\ close[c].pc = "idle"
        /\ shots' = [shots EXCEPT ![s] = <<>>]
        /\ moved' = moved \cup {r \in Readers : read[r].shot \in Ring(s)}
        /\ disturbed' = disturbed \cup InFlight(s)
        /\ UNCHANGED <<dirs, full, thumb, add, fails, read, managerVars>>
    BY DEF TakeRing, Leave, Ring
  <1>b. /\ close'[c].pc = "clear"
        /\ close'[c].session = s
        /\ \A d \in Closers : d # c => close'[d] = close[d]
    BY DEF TakeRing, TypeOK
  <1>1. \A q \in Sessions : Clearing(q)' <=> Clearing(q) \/ q = s
    BY <1>a, <1>b DEF Clearing
  <1>2. /\ shots'[s] = <<>> /\ Ring(s)' = {}
        /\ \A q \in Sessions : q # s => shots'[q] = shots[q] /\ Ring(q)' = Ring(q)
    <2>1. shots'[s] = <<>> /\ \A q \in Sessions : q # s => shots'[q] = shots[q]
      BY <1>a DEF TypeOK
    <2>2. ToSet(<<>>) = {}
      BY EmptySeq, RingElements
    <2>. QED  BY <2>1, <2>2 DEF Ring
  <1>3. \A x \in Shots : InRing(x)' <=> InRing(x) /\ ShotOf[x] # s
    BY <1>2, <1>t DEF InRing, Ring
  <1>4. \A x \in Shots : x \in InFlight(ShotOf[x])' <=> x \in InFlight(ShotOf[x])
    BY <1>a DEF InFlight
  <1>5. ASSUME NEW q \in Sessions PROVE RingInv(q)'
    <2>1. CASE q = s
      <3>1. Len(shots'[s]) = 0
        BY <1>2
      <3>. QED  BY <1>2, <2>1, <3>1 DEF RingInv
    <2>2. CASE q # s
      BY <1>2, <1>a, <2>2 DEF RingInv, StoreInv
    <2>. QED  BY <2>1, <2>2
  <1>6. ASSUME NEW x \in Shots PROVE ShotInv(x)'
    <2>1. ShotInv(x)
      BY DEF StoreInv
    <2>2. ShotOf[x] = s /\ x \in InFlight(ShotOf[x]) => x \in disturbed'
      BY <1>a
    <2>3. ShotOf[x] \in Sessions
      BY <1>t
    <2>. QED
      BY <1>a, <1>1, <1>3, <1>4, <2>1, <2>2, <2>3 DEF ShotInv, OnDisk
  <1>7. ASSUME NEW r \in Readers PROVE ReadInv(r)'
    <2>1. ReadInv(r)
      BY DEF StoreInv
    <2>2. read[r].shot \in Shots /\ InRing(read[r].shot) /\ ShotOf[read[r].shot] = s
             => r \in moved'
      BY <1>a DEF InRing, Ring
    <2>. QED  BY <1>a, <1>3, <2>1, <2>2 DEF ReadInv
  <1>8. FilesAreFew'
    <2>1. \A x \in full' \cup thumb' : Kept(x) => Kept(x)'
      BY <1>a, <1>t, <1>1, <1>3, <1>4 DEF Kept
    <2>. QED  BY <1>a, <1>t, <2>1, FilesShrink DEF StoreInv
  <1>. QED  BY <1>5, <1>6, <1>7, <1>8 DEF StoreInv

LEMMA RemoveDirStays ==
    ASSUME TypeOK, StoreInv, BrowserAssumption, NEW c \in Closers, RemoveDir(c)
    PROVE  StoreInv'
  <1>. DEFINE s == close[c].session
              here == {x \in Shots : ShotOf[x] = s}
  <1>t. /\ full \subseteq Shots /\ thumb \subseteq Shots /\ fails \in Nat
    BY DEF TypeOK
  <1>a. /\ close[c].pc = "clear"
        /\ full' = full \ here
        /\ thumb' = thumb \ here
        /\ UNCHANGED <<shots, add, fails, disturbed, moved, read, managerVars>>
    BY DEF RemoveDir
  <1>b. /\ close'[c].pc = "stop"
        /\ \A d \in Closers : d # c => close'[d] = close[d]
    BY DEF RemoveDir, TypeOK
  <1>1. /\ Clearing(s)
        /\ \A q : Clearing(q)' => Clearing(q)
        /\ \A q : q # s /\ Clearing(q) => Clearing(q)'
    BY <1>a, <1>b DEF Clearing
  <1>. HIDE DEF s
  <1>2. \A x : /\ InRing(x)' <=> InRing(x)
               /\ x \in InFlight(ShotOf[x])' <=> x \in InFlight(ShotOf[x])
    BY <1>a DEF InRing, InFlight
  <1>3. \A q \in Sessions : RingInv(q)'
    BY <1>a DEF StoreInv, RingInv, Ring
  <1>4. ASSUME NEW x \in Shots PROVE ShotInv(x)'
    <2>1. ShotInv(x)
      BY DEF StoreInv
    <2>2. x \in here => ShotOf[x] = s
      OBVIOUS
    <2>3. x \in InFlight(ShotOf[x]) <=> add[x] \in {"full", "thumb", "insert"}
      BY DEF InFlight
    <2>. HIDE DEF here
    <2>. QED
      BY <1>a, <1>1, <1>2, <2>1, <2>2, <2>3 DEF ShotInv, OnDisk
  <1>5. \A r \in Readers : ReadInv(r)'
    BY <1>a, <1>2 DEF StoreInv, ReadInv
  <1>6. FilesAreFew'
    <2>1. \A x \in full' \cup thumb' : Kept(x) => Kept(x)'
      BY <1>a, <1>t, <1>1, <1>2 DEF Kept
    <2>. QED  BY <1>a, <1>t, <2>1, FilesShrink DEF StoreInv
  <1>. QED  BY <1>3, <1>4, <1>5, <1>6 DEF StoreInv

-----------------------------------------------------------------------------
(* The manager *)

CloserRecords == [pc : {"idle", "clear", "stop", "signal", "wait", "done"},
                  session : Sessions \cup {None},
                  held : SUBSET Browsers,
                  next : Browsers \cup {None}]

(* What a closer does to the manager. *)
ManagerStep(c) ==
    \/ RemoveDir(c) \/ TakeInstance(c) \/ StopAll(c) \/ Signal(c)
    \/ Wait(c) \/ CloseReturn(c) \/ \E s \in Sessions : TakeRing(c, s)

(* The record of one closer changes. *)
Becomes(c, pc, ses, h) ==
    /\ close' \in [Closers -> CloserRecords]
    /\ close'[c].pc = pc
    /\ close'[c].session = ses
    /\ close'[c].held = h
    /\ \A d \in Closers : d # c => close'[d] = close[d]

LEMMA CloserBecomes ==
    ASSUME NEW c \in Closers, close \in [Closers -> CloserRecords],
           NEW pc \in {"idle", "clear", "stop", "signal", "wait", "done"},
           NEW ses \in Sessions \cup {None}, NEW h \in SUBSET Browsers,
           NEW n \in Browsers \cup {None}
    PROVE  LET ses0 == close[c].session
               held0 == close[c].held
           IN /\ close' = [close EXCEPT ![c].pc = pc] =>
                   Becomes(c, pc, ses0, held0)
              /\ close' = [close EXCEPT ![c].pc = pc, ![c].session = ses] =>
                   Becomes(c, pc, ses, held0)
              /\ close' = [close EXCEPT ![c].pc = pc, ![c].next = n] =>
                   Becomes(c, pc, ses0, held0)
              /\ close' = [close EXCEPT ![c].pc = pc, ![c].held = h] =>
                   Becomes(c, pc, ses0, h)
              /\ close' = [close EXCEPT ![c].held = h, ![c].pc = pc] =>
                   Becomes(c, pc, ses0, h)
              /\ close' = [close EXCEPT ![c].pc = pc, ![c].held = h, ![c].next = n] =>
                   Becomes(c, pc, ses0, h)
  <1>0. /\ close[c].session \in Sessions \cup {None}
        /\ close[c].held \in SUBSET Browsers
        /\ close[c].next \in Browsers \cup {None}
        /\ close[c] \in CloserRecords
    BY DEF CloserRecords
  <1>1. ASSUME close' = [close EXCEPT ![c].pc = pc]
        PROVE  Becomes(c, pc, close[c].session, close[c].held)
    <2>. DEFINE r == [close[c] EXCEPT !.pc = pc]
    <2>1. /\ r \in CloserRecords
          /\ r.pc = pc /\ r.session = close[c].session /\ r.held = close[c].held
      BY <1>0 DEF CloserRecords
    <2>2. close'[c] = r /\ \A d \in Closers : d # c => close'[d] = close[d]
      BY <1>1
    <2>3. close' = [d \in Closers |-> close'[d]]
      BY <1>1
    <2>. HIDE DEF r
    <2>. QED  BY <2>1, <2>2, <2>3 DEF Becomes
  <1>2. ASSUME close' = [close EXCEPT ![c].pc = pc, ![c].session = ses]
        PROVE  Becomes(c, pc, ses, close[c].held)
    <2>. DEFINE r == [close[c] EXCEPT !.pc = pc, !.session = ses]
    <2>1. /\ r \in CloserRecords
          /\ r.pc = pc /\ r.session = ses /\ r.held = close[c].held
      BY <1>0 DEF CloserRecords
    <2>2. close'[c] = r /\ \A d \in Closers : d # c => close'[d] = close[d]
      BY <1>2
    <2>3. close' = [d \in Closers |-> close'[d]]
      BY <1>2
    <2>. HIDE DEF r
    <2>. QED  BY <2>1, <2>2, <2>3 DEF Becomes
  <1>3. ASSUME close' = [close EXCEPT ![c].pc = pc, ![c].next = n]
        PROVE  Becomes(c, pc, close[c].session, close[c].held)
    <2>. DEFINE r == [close[c] EXCEPT !.pc = pc, !.next = n]
    <2>1. /\ r \in CloserRecords
          /\ r.pc = pc /\ r.session = close[c].session /\ r.held = close[c].held
      BY <1>0 DEF CloserRecords
    <2>2. close'[c] = r /\ \A d \in Closers : d # c => close'[d] = close[d]
      BY <1>3
    <2>3. close' = [d \in Closers |-> close'[d]]
      BY <1>3
    <2>. HIDE DEF r
    <2>. QED  BY <2>1, <2>2, <2>3 DEF Becomes
  <1>4. ASSUME close' = [close EXCEPT ![c].pc = pc, ![c].held = h]
        PROVE  Becomes(c, pc, close[c].session, h)
    <2>. DEFINE r == [close[c] EXCEPT !.pc = pc, !.held = h]
    <2>1. /\ r \in CloserRecords
          /\ r.pc = pc /\ r.session = close[c].session /\ r.held = h
      BY <1>0 DEF CloserRecords
    <2>2. close'[c] = r /\ \A d \in Closers : d # c => close'[d] = close[d]
      BY <1>4
    <2>3. close' = [d \in Closers |-> close'[d]]
      BY <1>4
    <2>. HIDE DEF r
    <2>. QED  BY <2>1, <2>2, <2>3 DEF Becomes
  <1>5. ASSUME close' = [close EXCEPT ![c].held = h, ![c].pc = pc]
        PROVE  Becomes(c, pc, close[c].session, h)
    <2>. DEFINE r == [close[c] EXCEPT !.held = h, !.pc = pc]
    <2>1. /\ r \in CloserRecords
          /\ r.pc = pc /\ r.session = close[c].session /\ r.held = h
      BY <1>0 DEF CloserRecords
    <2>2. close'[c] = r /\ \A d \in Closers : d # c => close'[d] = close[d]
      BY <1>5
    <2>3. close' = [d \in Closers |-> close'[d]]
      BY <1>5
    <2>. HIDE DEF r
    <2>. QED  BY <2>1, <2>2, <2>3 DEF Becomes
  <1>6. ASSUME close' = [close EXCEPT ![c].pc = pc, ![c].held = h, ![c].next = n]
        PROVE  Becomes(c, pc, close[c].session, h)
    <2>. DEFINE r == [close[c] EXCEPT !.pc = pc, !.held = h, !.next = n]
    <2>1. /\ r \in CloserRecords
          /\ r.pc = pc /\ r.session = close[c].session /\ r.held = h
      BY <1>0 DEF CloserRecords
    <2>2. close'[c] = r /\ \A d \in Closers : d # c => close'[d] = close[d]
      BY <1>6
    <2>3. close' = [d \in Closers |-> close'[d]]
      BY <1>6
    <2>. HIDE DEF r
    <2>. QED  BY <2>1, <2>2, <2>3 DEF Becomes
  <1>. QED  BY <1>1, <1>2, <1>3, <1>4, <1>5, <1>6

(* A step of the manager, one lemma for the types and the holders it keeps. *)
LEMMA ManagerStays ==
    ASSUME TypeOK, ManagerInv, BrowserAssumption, NEW c \in Closers,
           ManagerStep(c)
    PROVE  /\ ManagerInv'
           /\ close' \in [Closers -> CloserRecords]
           /\ instances' \in [Sessions -> Browsers \cup {None}]
           /\ browser' \in [Browsers -> {"off", "live", "stopping", "dead", "reaped"}]
  <1>t. /\ close \in [Closers -> CloserRecords]
        /\ instances \in [Sessions -> Browsers \cup {None}]
        /\ browser \in [Browsers -> {"off", "live", "stopping", "dead", "reaped"}]
        /\ None \notin Browsers /\ None \notin Sessions
    BY DEF TypeOK, CloserRecords, BrowserAssumption
  <1>i. /\ \A d \in Closers : CloserInv(d)
        /\ \A b \in Browsers : BrowserInv(b)
    BY DEF ManagerInv
  <1>. DEFINE G == /\ ManagerInv'
                   /\ close' \in [Closers -> CloserRecords]
                   /\ instances' \in [Sessions -> Browsers \cup {None}]
                   /\ browser' \in [Browsers -> {"off", "live", "stopping", "dead",
                                                 "reaped"}]
  <1>1. ASSUME NEW h, NEW pc, NEW ses,
               Becomes(c, pc, ses, h),
               UNCHANGED instances,
               pc \in {"clear", "stop"} => ses \in Sessions,
               pc \in {"idle", "clear", "stop"} => h = {},
               h \subseteq close[c].held,
               browser' \in [Browsers -> {"off", "live", "stopping", "dead", "reaped"}],
               \A b \in Browsers : /\ browser'[b] = "off" => browser[b] = "off"
                                   /\ browser'[b] \in {"live", "stopping"} =>
                                        /\ browser[b] \in {"live", "stopping"}
                                        /\ b \in close[c].held => b \in h
        PROVE  G
    <2>1. close' \in [Closers -> CloserRecords]
      BY <1>1 DEF Becomes
    <2>2. /\ close'[c].held = h /\ close'[c].pc = pc /\ close'[c].session = ses
          /\ \A d \in Closers : d # c => close'[d] = close[d]
      BY <1>1 DEF Becomes
    <2>3. \A d \in Closers : CloserInv(d)'
      BY <1>i, <1>1, <2>2 DEF CloserInv
    <2>4. ASSUME NEW b \in Browsers PROVE BrowserInv(b)'
      <3>1. BrowserInv(b) /\ (InTable(b)' <=> InTable(b))
        BY <1>i, <1>1 DEF InTable
      <3>2. \A d \in Closers : b \in close'[d].held => b \in close[d].held
        BY <1>1, <2>2
      <3>3. InHand(b)' => InHand(b)
        BY <3>2 DEF InHand
      <3>4. browser'[b] \in {"live", "stopping"} /\ InHand(b) => InHand(b)'
        BY <1>1, <2>2 DEF InHand
      <3>. QED  BY <1>1, <3>1, <3>2, <3>3, <3>4 DEF BrowserInv
    <2>. QED  BY <1>t, <1>1, <2>1, <2>3, <2>4 DEF ManagerInv
  <1>c. /\ close[c].held \subseteq Browsers
        /\ close[c].session \in Sessions \cup {None}
        /\ close[c].next \in Browsers \cup {None}
    BY <1>t DEF CloserRecords
  <1>2. ASSUME RemoveDir(c) PROVE G
    <2>1. close[c].session \in Sessions /\ close[c].held = {}
      BY <1>2, <1>i DEF CloserInv, RemoveDir
    <2>2. Becomes(c, "stop", close[c].session, {})
      BY <1>2, <1>t, <2>1, CloserBecomes DEF RemoveDir
    <2>3. UNCHANGED <<instances, browser>>
      BY <1>2 DEF RemoveDir, managerVars
    <2>. QED  BY <1>t, <2>1, <2>2, <2>3, <1>1
  <1>3. ASSUME NEW s \in Sessions, TakeRing(c, s) PROVE G
    <2>1. close[c].held = {}
      BY <1>3, <1>i DEF CloserInv, TakeRing
    <2>2. Becomes(c, "clear", s, {})
      BY <1>3, <1>t, <2>1, CloserBecomes DEF TakeRing
    <2>3. UNCHANGED <<instances, browser>>
      BY <1>3 DEF TakeRing, managerVars
    <2>. QED  BY <1>t, <2>1, <2>2, <2>3, <1>1
  <1>4. ASSUME Signal(c) PROVE G
    <2>1. PICK b \in close[c].held :
            /\ browser' = [browser EXCEPT ![b] = IF @ = "live" THEN "stopping" ELSE @]
            /\ close' = [close EXCEPT ![c].pc = "wait", ![c].next = b]
      BY <1>4 DEF Signal
    <2>2. b \in Browsers
      BY <1>c, <2>1
    <2>3. Becomes(c, "wait", close[c].session, close[c].held)
      BY <1>t, <1>c, <2>1, <2>2, CloserBecomes
    <2>5. UNCHANGED instances
      BY <1>4 DEF Signal
    <2>4. /\ browser' \in [Browsers -> {"off", "live", "stopping", "dead", "reaped"}]
          /\ \A e \in Browsers :
               /\ browser'[e] = "off" => browser[e] = "off"
               /\ browser'[e] \in {"live", "stopping"} => browser[e] \in {"live", "stopping"}
      BY <2>1, <2>2, <1>t
    <2>. QED  BY <2>3, <2>4, <2>5, <1>1
  <1>5. ASSUME Wait(c) PROVE G
    <2>. DEFINE b == close[c].next
    <2>1. /\ browser[b] \in {"dead", "reaped"}
          /\ browser' = [browser EXCEPT ![b] = "reaped"]
          /\ UNCHANGED instances
          /\ close' = [close EXCEPT ![c].pc = "signal", ![c].held = @ \ {b},
                                   ![c].next = None]
      BY <1>5 DEF Wait
    <2>3. Becomes(c, "signal", close[c].session, close[c].held \ {b})
      BY <1>t, <1>c, <2>1, CloserBecomes
    <2>4. /\ browser' \in [Browsers -> {"off", "live", "stopping", "dead", "reaped"}]
          /\ \A e \in Browsers :
               /\ browser'[e] = "off" => browser[e] = "off"
               /\ browser'[e] \in {"live", "stopping"} =>
                    browser[e] \in {"live", "stopping"} /\ e # b
      BY <2>1, <1>t
    <2>. HIDE DEF b
    <2>. QED  BY <2>1, <2>3, <2>4, <1>1
  <1>6. ASSUME CloseReturn(c) PROVE G
    <2>1. Becomes(c, "done", close[c].session, close[c].held)
      BY <1>6, <1>t, <1>c, CloserBecomes DEF CloseReturn
    <2>2. UNCHANGED <<instances, browser>>
      BY <1>6 DEF CloseReturn, managerVars
    <2>. QED  BY <1>t, <2>1, <2>2, <1>1
  <1>7. ASSUME NEW gone \in SUBSET Sessions,
               close[c].held = {},
               close' = [close EXCEPT ![c].pc = "signal",
                             ![c].held = {instances[s] : s \in gone} \ {None}],
               instances' = [s \in Sessions |-> IF s \in gone THEN None
                                                             ELSE instances[s]],
               UNCHANGED browser
        PROVE  G
    <2>. DEFINE h == {instances[s] : s \in gone} \ {None}
    <2>1. h \subseteq Browsers
      BY <1>t
    <2>2. \A b \in Browsers : b \in h <=> \E s \in gone : instances[s] = b
      BY <1>t
    <2>a. Becomes(c, "signal", close[c].session, h)
      BY <1>t, <1>c, <1>7, <2>1, CloserBecomes
    <2>3. /\ close' \in [Closers -> CloserRecords]
          /\ close'[c].held = h /\ close'[c].pc = "signal"
          /\ \A d \in Closers : d # c => close'[d] = close[d]
      BY <2>a DEF Becomes
    <2>. HIDE DEF h
    <2>4. \A d \in Closers : CloserInv(d)'
      BY <1>i, <2>3 DEF CloserInv
    <2>5. ASSUME NEW b \in Browsers PROVE BrowserInv(b)'
      <3>1. BrowserInv(b) /\ browser'[b] = browser[b]
        BY <1>i, <1>7
      <3>2. \A s \in Sessions : instances'[s] = b <=> instances[s] = b /\ s \notin gone
        BY <1>t, <1>7
      <3>3. \A d \in Closers : b \in close'[d].held <=>
                                  IF d = c THEN b \in h ELSE b \in close[d].held
        BY <2>3
      <3>4. CASE b \in h
        <4>1. PICK s \in gone : instances[s] = b
          BY <2>2, <3>4
        <4>2. /\ InTable(b) /\ ~InHand(b)
              /\ \A t \in Sessions : instances[t] = b => t = s
          BY <3>1, <4>1 DEF BrowserInv, InTable
        <4>3. ~InTable(b)' /\ InHand(b)'
          BY <3>2, <3>3, <3>4, <4>1, <4>2 DEF InTable, InHand
        <4>. QED  BY <3>1, <3>2, <3>3, <4>2, <4>3 DEF BrowserInv, InHand
      <3>5. CASE b \notin h
        <4>1. InTable(b)' <=> InTable(b)
          BY <2>2, <3>2, <3>5 DEF InTable
        <4>2. InHand(b)' <=> InHand(b)
          BY <1>7, <3>3, <3>5 DEF InHand
        <4>. QED  BY <3>1, <3>2, <3>3, <3>5, <4>1, <4>2 DEF BrowserInv
      <3>. QED  BY <3>4, <3>5
    <2>6. instances' \in [Sessions -> Browsers \cup {None}]
      BY <1>t, <1>7
    <2>. QED  BY <1>t, <1>7, <2>3, <2>4, <2>5, <2>6 DEF ManagerInv
  <1>8. ASSUME TakeInstance(c) PROVE G
    <2>. DEFINE s == close[c].session
    <2>1. s \in Sessions /\ close[c].held = {}
      BY <1>8, <1>i DEF TakeInstance, CloserInv
    <2>2. {instances[t] : t \in {s}} = {instances[s]}
      OBVIOUS
    <2>3. /\ close' = [close EXCEPT ![c].pc = "signal",
                             ![c].held = {instances[t] : t \in {s}} \ {None}]
          /\ instances' = [t \in Sessions |-> IF t \in {s} THEN None ELSE instances[t]]
          /\ UNCHANGED browser
      BY <1>8, <1>t, <2>1, <2>2 DEF TakeInstance
    <2>4. {s} \in SUBSET Sessions
      BY <2>1
    <2>. HIDE DEF s
    <2>. QED  BY ONLY <2>1, <2>3, <2>4, <1>7 DEF s
  <1>9. ASSUME StopAll(c) PROVE G
    <2>1. close[c].held = {}
      BY <1>9, <1>i DEF StopAll, CloserInv
    <2>2. /\ close' = [close EXCEPT ![c].pc = "signal",
                             ![c].held = {instances[t] : t \in Sessions} \ {None}]
          /\ instances' = [t \in Sessions |-> IF t \in Sessions THEN None
                                                               ELSE instances[t]]
          /\ UNCHANGED browser
      BY <1>9 DEF StopAll
    <2>. QED  BY <2>1, <2>2, <1>7
  <1>q. G
    <2>. HIDE DEF G
    <2>. QED
      BY ONLY ManagerStep(c), <1>2, <1>3, <1>4, <1>5, <1>6, <1>8, <1>9
      DEF ManagerStep
  <1>. QED  BY <1>q

LEMMA BrowserStays ==
    ASSUME TypeOK, ManagerInv, BrowserAssumption, NEW b \in Browsers,
           Ends(b) \/ Dies(b) \/ \E s \in Sessions : EnsureRunning(s, b)
    PROVE  /\ ManagerInv'
           /\ instances' \in [Sessions -> Browsers \cup {None}]
           /\ browser' \in [Browsers -> {"off", "live", "stopping", "dead", "reaped"}]
  <1>t. /\ instances \in [Sessions -> Browsers \cup {None}]
        /\ browser \in [Browsers -> {"off", "live", "stopping", "dead", "reaped"}]
        /\ None \notin Browsers
        /\ close' = close
    BY DEF TypeOK, BrowserAssumption, Ends, Dies, EnsureRunning
  <1>i. \A e \in Browsers : BrowserInv(e)
    BY DEF ManagerInv
  <1>c. \A d \in Closers : CloserInv(d)'
    BY <1>t DEF ManagerInv, CloserInv
  <1>h. \A e : InHand(e)' <=> InHand(e)
    BY <1>t DEF InHand
  <1>1. ASSUME Ends(b) \/ Dies(b)
        PROVE  /\ ManagerInv'
               /\ instances' \in [Sessions -> Browsers \cup {None}]
               /\ browser' \in [Browsers -> {"off", "live", "stopping", "dead", "reaped"}]
    <2>1. /\ instances' = instances
          /\ browser' = [browser EXCEPT ![b] = "dead"]
      BY <1>1 DEF Ends, Dies
    <2>2. \A e : InTable(e)' <=> InTable(e)
      BY <2>1 DEF InTable
    <2>3. ASSUME NEW e \in Browsers PROVE BrowserInv(e)'
      <3>1. browser'[e] \in {browser[e], "dead"}
        BY <1>t, <2>1
      <3>. QED  BY <1>t, <1>i, <1>h, <2>1, <2>2, <3>1 DEF BrowserInv
    <2>. QED  BY <1>c, <1>t, <2>1, <2>3 DEF ManagerInv
  <1>2. ASSUME NEW s \in Sessions, EnsureRunning(s, b)
        PROVE  /\ ManagerInv'
               /\ instances' \in [Sessions -> Browsers \cup {None}]
               /\ browser' \in [Browsers -> {"off", "live", "stopping", "dead", "reaped"}]
    <2>1. /\ browser[b] = "off"
          /\ instances[s] = None \/ browser[instances[s]] = "reaped"
          /\ instances' = [instances EXCEPT ![s] = b]
          /\ browser' = [browser EXCEPT ![b] = "live"]
      BY <1>2 DEF EnsureRunning
    <2>2. ~InTable(b) /\ ~InHand(b)
      BY <1>i, <2>1 DEF BrowserInv
    <2>3. \A t \in Sessions : instances'[t] = IF t = s THEN b ELSE instances[t]
      BY <1>t, <2>1
    <2>4. BrowserInv(b)'
      <3>1. browser'[b] = "live" /\ InTable(b)'
        BY <1>t, <2>1, <2>3 DEF InTable
      <3>2. \A t \in Sessions : instances'[t] = b => t = s
        BY <2>2, <2>3 DEF InTable
      <3>3. \A c, d \in Closers : b \in close'[c].held /\ b \in close'[d].held => c = d
        BY <1>t, <1>i DEF BrowserInv
      <3>. QED  BY <1>h, <2>2, <3>1, <3>2, <3>3 DEF BrowserInv
    <2>5. ASSUME NEW e \in Browsers, e # b PROVE BrowserInv(e)'
      <3>1. BrowserInv(e) /\ browser'[e] = browser[e]
        BY <1>i, <1>t, <2>1, <2>5
      <3>2. \A t \in Sessions : instances'[t] = e => instances[t] = e
        BY <2>3, <2>5
      <3>3. InTable(e)' => InTable(e)
        BY <3>2 DEF InTable
      <3>4. browser[e] \in {"live", "stopping"} /\ InTable(e) => InTable(e)'
        BY <1>t, <2>1, <2>3 DEF InTable
      <3>. QED  BY <1>t, <1>h, <3>1, <3>2, <3>3, <3>4 DEF BrowserInv
    <2>6. /\ instances' \in [Sessions -> Browsers \cup {None}]
          /\ browser' \in [Browsers -> {"off", "live", "stopping", "dead", "reaped"}]
      BY <1>t, <2>1
    <2>. QED  BY <1>c, <2>4, <2>5, <2>6 DEF ManagerInv
  <1>. QED  BY <1>1, <1>2

-----------------------------------------------------------------------------
(* Types of the store *)

StoreTypes ==
    /\ shots \in [Sessions -> Seq(Shots)]
    /\ \A s \in Sessions : Len(shots[s]) <= RingSize
    /\ dirs \subseteq Sessions
    /\ full \subseteq Shots
    /\ thumb \subseteq Shots
    /\ add \in [Shots -> {"idle", "full", "thumb", "insert", "done", "failed"}]
    /\ fails \in 0..MaxFails
    /\ disturbed \subseteq Shots
    /\ moved \subseteq Readers

ReadTypes ==
    read \in [Readers -> [pc : {"idle", "none", "find", "read", "image", "error"},
                          session : Sessions \cup {None},
                          shot : Shots \cup {None}]]

LEMMA WriteOutcomes ==
    ASSUME fails \in 0..MaxFails, BrowserAssumption, NEW x \in Shots,
           NEW files \in SUBSET Shots, NEW files2, NEW fails2,
           \/ fails2 = fails /\ files2 \in {files, files \cup {x}}
           \/ fails < MaxFails /\ fails2 = fails + 1 /\ files2 \in {files, files \cup {x}}
    PROVE  fails2 \in 0..MaxFails /\ files2 \subseteq Shots
  BY DEF BrowserAssumption

LEMMA AddTypes ==
    ASSUME StoreTypes, StoreInv, TypeOK, BrowserAssumption, NEW x \in Shots,
           AddStep(x)
    PROVE  StoreTypes'
  <1>. USE DEF StoreTypes
  <1>1. ASSUME MakeDir(x) PROVE StoreTypes'
    BY <1>1 DEF MakeDir, BrowserAssumption
  <1>2. ASSUME WriteFull(x) PROVE StoreTypes'
    <2>1. fails' \in 0..MaxFails /\ full' \subseteq Shots
      BY <1>2, WriteOutcomes DEF WriteFull, Write, WriteFails
    <2>2. add' \in [Shots -> {"idle", "full", "thumb", "insert", "done", "failed"}]
      BY <1>2 DEF WriteFull
    <2>. QED  BY <1>2, <2>1, <2>2 DEF WriteFull
  <1>3. ASSUME WriteThumb(x) PROVE StoreTypes'
    <2>1. fails' \in 0..MaxFails /\ thumb' \subseteq Shots
      BY <1>3, WriteOutcomes DEF WriteThumb, Write, WriteFails
    <2>2. add' \in [Shots -> {"idle", "full", "thumb", "insert", "done", "failed"}]
      BY <1>3 DEF WriteThumb
    <2>3. full' \subseteq Shots
      BY <1>3 DEF WriteThumb
    <2>. QED  BY <1>3, <2>1, <2>2, <2>3 DEF WriteThumb
  <1>4. ASSUME Insert(x) PROVE StoreTypes'
    <2>1. PICK evicted \in SUBSET Shots : Evicts(x, evicted)
      BY <1>4, InsertEvicts DEF StoreInv
    <2>2. add' \in [Shots -> {"idle", "full", "thumb", "insert", "done", "failed"}]
      BY <1>4 DEF Insert
    <2>. QED  BY <1>4, <2>1, <2>2 DEF Insert, Evicts, Leave
  <1>. QED  BY <1>1, <1>2, <1>3, <1>4 DEF AddStep

LEMMA ReadTypesStay ==
    ASSUME TypeOK, BrowserAssumption, NEW r \in Readers,
           ReadStep(r) \/ \E s \in Sessions : Latest(r, s)
    PROVE  ReadTypes'
  <1>t. ReadTypes
    BY DEF TypeOK, ReadTypes
  <1>1. ASSUME NEW s \in Sessions, Latest(r, s) PROVE ReadTypes'
    <2>1. shots[s] # <<>> => Last(shots[s]) \in Shots
      BY RingElements DEF TypeOK
    <2>. QED  BY <1>t, <1>1, <2>1 DEF Latest, ReadTypes
  <1>2. ASSUME ReadStep(r) PROVE ReadTypes'
    BY <1>t, <1>2 DEF ReadStep, ReadFull, ReadFile, ReadTypes
  <1>. QED  BY <1>1, <1>2

LEMMA ClearTypes ==
    ASSUME StoreTypes, NEW c \in Closers,
           RemoveDir(c) \/ \E s \in Sessions : TakeRing(c, s)
    PROVE  StoreTypes'
  <1>1. ASSUME NEW s \in Sessions, TakeRing(c, s) PROVE StoreTypes'
    <2>1. shots' = [shots EXCEPT ![s] = <<>>]
      BY <1>1 DEF TakeRing
    <2>2. /\ shots' \in [Sessions -> Seq(Shots)]
          /\ \A q \in Sessions : shots'[q] = <<>> \/ shots'[q] = shots[q]
      BY <2>1 DEF StoreTypes
    <2>3. \A q \in Sessions : Len(shots'[q]) <= RingSize
      BY <2>2, BrowserAssumption DEF StoreTypes, BrowserAssumption
    <2>4. disturbed' \subseteq Shots /\ moved' \subseteq Readers
      BY <1>1 DEF StoreTypes, TakeRing, InFlight, Leave
    <2>. QED  BY <1>1, <2>2, <2>3, <2>4 DEF StoreTypes, TakeRing
  <1>2. ASSUME RemoveDir(c) PROVE StoreTypes'
    BY <1>2 DEF StoreTypes, RemoveDir
  <1>. QED  BY <1>1, <1>2

-----------------------------------------------------------------------------
LEMMA BrowserStep ==
    ASSUME BrowserSessionsInv, BrowserAssumption, [Next]_vars
    PROVE  BrowserSessionsInv'
  <1>i. TypeOK /\ StoreInv /\ ManagerInv
    BY DEF BrowserSessionsInv
  <1>t. /\ StoreTypes /\ ReadTypes
        /\ close \in [Closers -> CloserRecords]
        /\ instances \in [Sessions -> Browsers \cup {None}]
        /\ browser \in [Browsers -> {"off", "live", "stopping", "dead", "reaped"}]
    BY <1>i DEF TypeOK, StoreTypes, ReadTypes, CloserRecords
  <1>q. ASSUME StoreTypes', ReadTypes', StoreInv', ManagerInv',
               close' \in [Closers -> CloserRecords],
               instances' \in [Sessions -> Browsers \cup {None}],
               browser' \in [Browsers -> {"off", "live", "stopping", "dead", "reaped"}]
        PROVE  BrowserSessionsInv'
    BY <1>q DEF BrowserSessionsInv, TypeOK, StoreTypes, ReadTypes, CloserRecords
  <1>m. UNCHANGED <<close, instances, browser>> =>
            /\ ManagerInv'
            /\ close' \in [Closers -> CloserRecords]
            /\ instances' \in [Sessions -> Browsers \cup {None}]
            /\ browser' \in [Browsers -> {"off", "live", "stopping", "dead", "reaped"}]
    BY <1>i, <1>t DEF ManagerInv, CloserInv, BrowserInv, InTable, InHand
  <1>s. UNCHANGED storeVars => StoreTypes'
    BY <1>t DEF StoreTypes, storeVars
  <1>r. UNCHANGED read => ReadTypes'
    BY <1>t DEF ReadTypes
  <1>0. ASSUME UNCHANGED vars PROVE BrowserSessionsInv'
    <2>1. UNCHANGED <<storeVars, read, close, instances, browser>>
      BY <1>0 DEF vars, managerVars
    <2>2. \A s : Clearing(s)' <=> Clearing(s)
      BY <2>1 DEF Clearing
    <2>. QED  BY <1>i, <1>q, <1>m, <1>s, <1>r, <2>1, <2>2, StoreStays
  <1>1. ASSUME NEW x \in Shots, AddStep(x) PROVE BrowserSessionsInv'
    <2>1. StoreInv'
      BY <1>1, <1>i, MakeDirStays, WriteFullStays, WriteThumbStays, InsertStays
         DEF AddStep
    <2>2. UNCHANGED <<read, close, instances, browser>>
      BY <1>1 DEF AddStep, MakeDir, WriteFull, WriteThumb, Insert, managerVars
    <2>3. StoreTypes'
      BY <1>1, <1>i, <1>t, AddTypes
    <2>. QED  BY <1>q, <1>m, <1>r, <2>1, <2>2, <2>3
  <1>2. ASSUME NEW r \in Readers, ReadStep(r) \/ \E s \in Sessions : Latest(r, s)
        PROVE  BrowserSessionsInv'
    <2>1. StoreInv'
      BY <1>2, <1>i, ReadStays
    <2>2. UNCHANGED <<storeVars, close, instances, browser>>
      BY <1>2 DEF ReadStep, ReadFull, ReadFile, Latest, managerVars
    <2>3. ReadTypes'
      BY <1>2, <1>i, ReadTypesStay
    <2>. QED  BY <1>q, <1>m, <1>s, <2>1, <2>2, <2>3
  <1>3. ASSUME NEW c \in Closers, ManagerStep(c) PROVE BrowserSessionsInv'
    <2>1. /\ ManagerInv'
          /\ close' \in [Closers -> CloserRecords]
          /\ instances' \in [Sessions -> Browsers \cup {None}]
          /\ browser' \in [Browsers -> {"off", "live", "stopping", "dead", "reaped"}]
      BY <1>3, <1>i, ManagerStays
    <2>2. UNCHANGED read
      BY <1>3 DEF ManagerStep, RemoveDir, TakeInstance, StopAll, Signal, Wait,
         CloseReturn, TakeRing
    <2>3. ASSUME RemoveDir(c) \/ \E s \in Sessions : TakeRing(c, s)
          PROVE  StoreInv' /\ StoreTypes'
      BY <2>3, <1>i, <1>t, RemoveDirStays, TakeRingStays, ClearTypes
    <2>4. ASSUME TakeInstance(c) \/ StopAll(c) \/ Signal(c) \/ Wait(c) \/ CloseReturn(c)
          PROVE  StoreInv' /\ StoreTypes'
      <3>1. UNCHANGED storeVars
        BY <2>4 DEF TakeInstance, StopAll, Signal, Wait, CloseReturn
      <3>2. /\ close'[c].pc # "clear" /\ close[c].pc # "clear"
            /\ \A d \in Closers : d # c => close'[d] = close[d]
        BY <2>4, <1>t DEF TakeInstance, StopAll, Signal, Wait, CloseReturn,
           CloserRecords
      <3>3. \A s : Clearing(s)' <=> Clearing(s)
        BY <3>2 DEF Clearing
      <3>. QED  BY <1>i, <1>s, <2>2, <3>1, <3>3, StoreStays
    <2>. QED  BY <1>3, <1>q, <1>r, <2>1, <2>2, <2>3, <2>4 DEF ManagerStep
  <1>4. ASSUME NEW b \in Browsers,
               Ends(b) \/ Dies(b) \/ \E s \in Sessions : EnsureRunning(s, b)
        PROVE  BrowserSessionsInv'
    <2>1. /\ ManagerInv'
          /\ instances' \in [Sessions -> Browsers \cup {None}]
          /\ browser' \in [Browsers -> {"off", "live", "stopping", "dead", "reaped"}]
      BY <1>4, <1>i, BrowserStays
    <2>2. UNCHANGED <<storeVars, read, close>>
      BY <1>4 DEF Ends, Dies, EnsureRunning
    <2>3. \A s : Clearing(s)' <=> Clearing(s)
      BY <2>2 DEF Clearing
    <2>. QED  BY <1>i, <1>t, <1>q, <1>s, <1>r, <2>1, <2>2, <2>3, StoreStays
  <1>. QED
    BY ONLY <1>0, <1>1, <1>2, <1>3, <1>4, [Next]_vars
    DEF Next, CloseStep, ManagerStep

-----------------------------------------------------------------------------
(* Theorems *)

LEMMA BrowserInvariant == Spec => []BrowserSessionsInv
  <1>1. Init => BrowserSessionsInv
    BY BrowserInit, BrowserAssumption
  <1>2. BrowserSessionsInv /\ [Next]_vars => BrowserSessionsInv'
    BY BrowserStep, BrowserAssumption
  <1>. QED  BY <1>1, <1>2, PTL DEF Spec

(* Every variable stays in its type and no ring grows past its size         *)
(* (ScreenshotStore.Add, screenshot_store.go:69-112).                       *)
THEOREM BrowserTypes == Spec => []TypeOK
  <1>1. BrowserSessionsInv => TypeOK
    BY DEF BrowserSessionsInv
  <1>. QED  BY <1>1, BrowserInvariant, PTL

(* The images on disk are those of the rings, of shots on their way in and  *)
(* of sessions being cleared, plus at most one for each failed write; what  *)
(* a ring shows is on disk, but for a clear that ran meanwhile.             *)
THEOREM BrowserFilesMatchRings == Spec => []FilesMatchRings
  <1>1. BrowserSessionsInv => FilesMatchRings
    <2>. SUFFICES ASSUME StoreInv PROVE FilesMatchRings
      BY DEF BrowserSessionsInv
    <2>1. DiskIsBounded
      BY DEF StoreInv, FilesAreFew
    <2>2. RingHasFiles
      BY DEF StoreInv, ShotInv, OnDisk, RingHasFiles
    <2>3. ReadsFailForCause
      BY DEF StoreInv, ReadInv, ReadsFailForCause
    <2>. QED  BY <2>1, <2>2, <2>3 DEF FilesMatchRings
  <1>. QED  BY <1>1, BrowserInvariant, PTL

(* A browser that runs has exactly one holder, a session or a request that  *)
(* will end it (Manager.EnsureRunning, Stop and StopAll).                   *)
THEOREM BrowserAlwaysHeld == Spec => []BrowsersAreHeld
  <1>1. BrowserSessionsInv => BrowsersAreHeld
    <2>. SUFFICES ASSUME BrowserSessionsInv, NEW b \in Browsers,
                         browser[b] \in {"live", "stopping"}
                  PROVE  Cardinality({s \in Sessions : instances[s] = b}) +
                         Cardinality({c \in Closers : b \in close[c].held}) = 1
      BY DEF BrowsersAreHeld
    <2>. DEFINE T == {s \in Sessions : instances[s] = b}
                H == {c \in Closers : b \in close[c].held}
    <2>1. BrowserInv(b)
      BY DEF BrowserSessionsInv, ManagerInv
    <2>2. CASE InTable(b)
      <3>1. PICK s \in Sessions : instances[s] = b
        BY <2>2 DEF InTable
      <3>2. T = {s} /\ H = {}
        BY <2>1, <2>2, <3>1 DEF BrowserInv, InHand
      <3>. HIDE DEF T, H
      <3>3. Cardinality(T) = 1 /\ Cardinality(H) = 0
        BY <3>2, FS_Singleton, FS_EmptySet
      <3>4. Cardinality(T) + Cardinality(H) = 1
        BY <3>3
      <3>. QED  BY <3>4 DEF T, H
    <2>3. CASE InHand(b)
      <3>1. PICK c \in Closers : b \in close[c].held
        BY <2>3 DEF InHand
      <3>2. H = {c} /\ T = {}
        BY <2>1, <2>3, <3>1 DEF BrowserInv, InTable
      <3>. HIDE DEF T, H
      <3>3. Cardinality(H) = 1 /\ Cardinality(T) = 0
        BY <3>2, FS_Singleton, FS_EmptySet
      <3>4. Cardinality(T) + Cardinality(H) = 1
        BY <3>3
      <3>. QED  BY <3>4 DEF T, H
    <2>. QED  BY <2>1, <2>2, <2>3 DEF BrowserInv
  <1>. QED  BY <1>1, BrowserInvariant, PTL
=============================================================================
