-------------------------- MODULE DiffReviewProofs --------------------------
(***************************************************************************)
(* What holds of reviews for any number of agents and of decisions, and    *)
(* for any texts.                                                          *)
(*                                                                         *)
(* The first part is about the diff algorithm: that the hunks of two texts *)
(* turn the one into the other, that every choice among them is the same   *)
(* as patching, and that they change as few lines as possible.  The second *)
(* is about the reviews those hunks are part of.                           *)
(***************************************************************************)
EXTENDS DiffReview, FiniteSetTheorems, SequenceTheorems, WellFoundedInduction,
        TLAPS

-----------------------------------------------------------------------------
(* Numbers and computations step by step *)

LEMMA NatOrder == IsWellFoundedOn({p \in Nat \X Nat : p[1] < p[2]}, Nat)
  BY NatLessThanWellFounded DEF OpToRel

LEMMA Least ==
    ASSUME NEW T, T \subseteq Nat, T # {}
    PROVE  \E m \in T : \A k \in T : m <= k
  <1>. DEFINE R == {p \in Nat \X Nat : p[1] < p[2]}
  <1>1. IsWellFoundedOn(R, Nat)
    BY NatOrder
  <1>2. PICK m \in T : \A k \in T : <<k, m>> \notin R
    <2>. HIDE DEF R
    <2>. QED BY <1>1, WFMin
  <1>3. ASSUME NEW k \in T PROVE m <= k
    <2>1. m \in Nat /\ k \in Nat /\ (k < m => <<k, m>> \in R)
      OBVIOUS
    <2>. QED  BY <1>2, <2>1
  <1>. QED  BY <1>3

LEMMA Induction ==
    ASSUME NEW T, 0 \in T, \A n \in Nat : n \in T => n + 1 \in T
    PROVE  Nat \subseteq T
  <1>. SUFFICES ASSUME Nat \ T # {} PROVE FALSE
    OBVIOUS
  <1>1. PICK m \in Nat \ T : \A k \in Nat \ T : m <= k
    BY Least
  <1>2. m # 0 /\ m - 1 \in Nat /\ m - 1 \in T
    BY <1>1
  <1>. QED  BY <1>1, <1>2

(* A function that is computed step by step. *)
CanRun(D, start, F, n) ==
    \E f \in [0..n -> D] : f[0] = start /\ \A k \in 1..n : f[k] = F[<<f[k - 1], k>>]

LEMMA Iteration ==
    ASSUME NEW D, NEW start \in D, NEW F \in [D \X Nat -> D], NEW n \in Nat
    PROVE  CanRun(D, start, F, n)
  <1>. DEFINE Good(f, m) == f[0] = start /\ \A k \in 1..m : f[k] = F[<<f[k-1], k>>]
              T == {m \in Nat : \E f \in [0..m -> D] : Good(f, m)}
  <1>1. 0 \in T
    <2>1. [i \in 0..0 |-> start] \in [0..0 -> D] /\ Good([i \in 0..0 |-> start], 0)
      OBVIOUS
    <2>. QED BY <2>1
  <1>2. ASSUME NEW m \in Nat, m \in T PROVE m + 1 \in T
    <2>1. PICK f \in [0..m -> D] : Good(f, m)
      BY <1>2
    <2>. DEFINE g == [i \in 0..m + 1 |-> IF i = m + 1 THEN F[<<f[m], m + 1>>] ELSE f[i]]
    <2>2. F[<<f[m], m + 1>>] \in D
      OBVIOUS
    <2>3. g \in [0..m + 1 -> D]
      BY <2>2
    <2>4. Good(g, m + 1)
      <3>1. g[0] = start
        BY <2>1
      <3>2. ASSUME NEW k \in 1..m + 1 PROVE g[k] = F[<<g[k-1], k>>]
        <4>1. CASE k = m + 1
          <5>1. g[k] = F[<<f[m], m + 1>>] /\ g[k - 1] = f[m]
            BY <4>1
          <5>. HIDE DEF g
          <5>. QED  BY <4>1, <5>1
        <4>2. CASE k \in 1..m
          BY <2>1, <4>2
        <4>. QED BY <4>1, <4>2
      <3>. QED BY <3>1, <3>2
    <2>. HIDE DEF Good, g
    <2>. QED BY <2>3, <2>4
  <1>. HIDE DEF T
  <1>3. Nat \subseteq T
    BY <1>1, <1>2, Induction
  <1>. QED  BY <1>3 DEF T, CanRun

-----------------------------------------------------------------------------
(* Hunks that replace stretches of a text, and how a text is rebuilt *)

HunksOver(L) == [start : Nat, old : Seq(L), new : Seq(L)]
End(h) == h.start + Len(h.old)

(* The hunks replace stretches of the text, in order.                       *)
InOrder(old, hunks) ==
    \A k \in 1..Len(hunks) :
        /\ End(hunks[k]) <= Len(old)
        /\ hunks[k].old = SubSeq(old, hunks[k].start + 1, End(hunks[k]))
        /\ k > 1 => End(hunks[k - 1]) <= hunks[k].start

Cut(s, a, b) == SubSeq(s, a + 1, b)

LEMMA Cuts ==
    ASSUME NEW L, NEW s \in Seq(L), NEW a \in Nat, NEW b \in Nat, b <= Len(s)
    PROVE  /\ Cut(s, a, b) \in Seq(L)
           /\ a <= b => Len(Cut(s, a, b)) = b - a
           /\ Cut(s, b, b) = <<>>
           /\ Cut(s, 0, Len(s)) = s
           /\ a < b => Cut(s, a, a + 1) = <<s[a + 1]>>
  <1>1. \A i \in a + 1..b : s[i] \in L
    OBVIOUS
  <1>2. /\ Cut(s, a, b) \in Seq(L)
        /\ Len(Cut(s, a, b)) = IF a + 1 <= b THEN b - (a + 1) + 1 ELSE 0
    BY <1>1, SubSeqProperties DEF Cut
  <1>3. Cut(s, b, b) = <<>>
    BY SubSeqEmpty DEF Cut
  <1>4. Cut(s, 0, Len(s)) = s
    BY SubSeqFull DEF Cut
  <1>5. ASSUME a < b PROVE Cut(s, a, a + 1) = <<s[a + 1]>>
    <2>1. /\ Cut(s, a, a + 1) \in Seq(L) /\ Len(Cut(s, a, a + 1)) = 1
          /\ Cut(s, a, a + 1)[1] = s[a + 1]
      BY <1>1, <1>5, SubSeqProperties DEF Cut
    <2>. QED  BY <2>1
  <1>. QED  BY <1>2, <1>3, <1>4, <1>5

Adjacent(s, a, b, c) == Cut(s, a, b) \o Cut(s, b, c) = Cut(s, a, c)

LEMMA CutsJoin ==
    ASSUME NEW L, NEW s \in Seq(L), NEW a \in Nat, NEW b \in Nat, NEW c \in Nat,
           a <= b, b <= c, c <= Len(s)
    PROVE  Adjacent(s, a, b, c)
  BY ConcatAdjacentSubSeq DEF Cut, Adjacent

Piece(h, k, S) == IF k \in S THEN h.new ELSE h.old

LEMMA HunkFacts ==
    ASSUME NEW L, NEW old \in Seq(L), NEW hunks \in Seq(HunksOver(L)),
           InOrder(old, hunks), NEW k \in 1..Len(hunks)
    PROVE  /\ hunks[k] \in HunksOver(L)
           /\ hunks[k].start \in Nat
           /\ hunks[k].old \in Seq(L)
           /\ hunks[k].new \in Seq(L)
           /\ Len(hunks[k].old) \in Nat
           /\ End(hunks[k]) \in Nat
           /\ hunks[k].start <= End(hunks[k])
           /\ End(hunks[k]) <= Len(old)
           /\ hunks[k].old = Cut(old, hunks[k].start, End(hunks[k]))
  <1>1. hunks[k] \in HunksOver(L)
    BY ElementOfSeq
  <1>2. /\ hunks[k].start \in Nat
        /\ hunks[k].old \in Seq(L)
        /\ hunks[k].new \in Seq(L)
    BY <1>1 DEF HunksOver
  <1>3. Len(hunks[k].old) \in Nat
    BY <1>2
  <1>4. End(hunks[k]) \in Nat /\ hunks[k].start <= End(hunks[k])
    BY <1>2, <1>3 DEF End
  <1>. QED  BY <1>1, <1>2, <1>3, <1>4 DEF InOrder, Cut

(* How the text is rebuilt, hunk by hunk.                                   *)
Emitted(old, s, h, piece) == s.out \o Cut(old, s.cursor, h.start) \o piece
Emit(old, hunks, S, s, k) ==
    [out |-> Emitted(old, s, hunks[k], Piece(hunks[k], k, S)),
     cursor |-> End(hunks[k])]

IsRebuilt(L, old, hunks, S, r) ==
    /\ r \in [0..Len(hunks) -> [out : Seq(L), cursor : Nat]]
    /\ r[0] = [out |-> <<>>, cursor |-> 0]
    /\ \A k \in 1..Len(hunks) : r[k] = Emit(old, hunks, S, r[k - 1], k)

LEMMA EmitIs ==
    ASSUME NEW old, NEW hunks, NEW S, NEW s, NEW k \in Int, NEW x,
           x = Emit(old, hunks, S, s, k)
    PROVE  /\ x.cursor = End(hunks[k])
           /\ x.out = Emitted(old, s, hunks[k], Piece(hunks[k], k, S))
  BY DEF Emit

LEMMA RebuiltIs ==
    ASSUME NEW L, NEW old \in Seq(L), NEW hunks \in Seq(HunksOver(L)),
           InOrder(old, hunks), NEW S, NEW r, r = Rebuilt(old, hunks, S)
    PROVE  IsRebuilt(L, old, hunks, S, r)
  <1>. DEFINE D == [out : Seq(L), cursor : Nat]
              zero == [out |-> <<>>, cursor |-> 0]
              Step(s, k) == [out |-> s.out \o Cut(old, s.cursor, hunks[k].start)
                                        \o Piece(hunks[k], k, S),
                             cursor |-> End(hunks[k])]
              Good(g) == g = [k \in 0..Len(hunks) |->
                                IF k = 0 THEN zero ELSE Step(g[k - 1], k)]
  <1>0. PICK n \in Nat : n = Len(hunks)
    OBVIOUS
  <1>1. ASSUME NEW s \in D, NEW k \in 1..n PROVE Step(s, k) \in D
    <2>1. s.out \in Seq(L) /\ s.cursor \in Nat
      OBVIOUS
    <2>2. /\ hunks[k].start \in Nat /\ hunks[k].start <= Len(old)
          /\ Piece(hunks[k], k, S) \in Seq(L) /\ End(hunks[k]) \in Nat
      BY <1>0, HunkFacts DEF Piece
    <2>3. Cut(old, s.cursor, hunks[k].start) \in Seq(L)
      BY <2>1, <2>2, Cuts
    <2>. QED  BY <2>1, <2>2, <2>3
  <1>2. zero \in D
    OBVIOUS
  <1>. HIDE DEF D, zero, Step
  <1>3. PICK f : Good(f)
    <2>. DEFINE F == [p \in D \X Nat |-> IF p[2] \in 1..n THEN Step(p[1], p[2]) ELSE p[1]]
    <2>1. F \in [D \X Nat -> D]
      BY <1>1
    <2>2. PICK f \in [0..n -> D] : f[0] = zero /\ \A k \in 1..n : f[k] = F[<<f[k - 1], k>>]
      <3>1. CanRun(D, zero, F, n)
        <4>. HIDE DEF F
        <4>. QED  BY <1>2, <2>1, Iteration
      <3>. HIDE DEF F
      <3>. QED  BY <3>1 DEF CanRun
    <2>3. ASSUME NEW k \in 1..n PROVE f[k] = Step(f[k - 1], k)
      <3>1. f[k - 1] \in D /\ k \in Nat
        OBVIOUS
      <3>2. F[<<f[k - 1], k>>] = Step(f[k - 1], k)
        BY <3>1
      <3>. HIDE DEF F
      <3>. QED  BY <2>2, <3>2
    <2>4. f = [k \in 0..n |-> IF k = 0 THEN zero ELSE Step(f[k - 1], k)]
      BY <2>2, <2>3
    <2>. QED  BY <1>0, <2>4
  <1>4. Good(r)
    <2>1. r = CHOOSE g : Good(g)
      BY DEF Rebuilt, Step, zero, Cut, Piece, End
    <2>. HIDE DEF Good
    <2>. QED  BY <1>3, <2>1
  <1>5. /\ r[0] = zero
        /\ \A k \in 1..n : r[k] = Step(r[k - 1], k)
        /\ DOMAIN r = 0..n
    BY <1>0, <1>4
  <1>6. \A k \in Nat : k <= n => r[k] \in D
    <2>. DEFINE T == {k \in Nat : k <= n => r[k] \in D}
    <2>1. 0 \in T
      BY <1>2, <1>5
    <2>2. ASSUME NEW k \in Nat, k \in T PROVE k + 1 \in T
      BY <1>1, <1>5, <2>2
    <2>. HIDE DEF T
    <2>3. Nat \subseteq T
      BY <2>1, <2>2, Induction
    <2>. QED  BY <2>3 DEF T
  <1>7. r \in [0..n -> D]
    BY <1>4, <1>0, <1>6
  <1>. QED  BY <1>0, <1>5, <1>7 DEF D, zero, Step, IsRebuilt, Emit, Emitted

-----------------------------------------------------------------------------
(* Patching a text that has hunks replaced already *)

Regrouped(L, a, b, c) ==
    /\ a \o b \in Seq(L)
    /\ b \o c \in Seq(L)
    /\ (a \o b) \o c = a \o (b \o c)

LEMMA Regroup ==
    ASSUME NEW L, NEW a \in Seq(L), NEW b \in Seq(L), NEW c \in Seq(L)
    PROVE  Regrouped(L, a, b, c)
  BY ConcatAssociative, ConcatProperties DEF Regrouped

LEMMA CutsOfJoined ==
    ASSUME NEW L, NEW s \in Seq(L), NEW t \in Seq(L), NEW a \in Nat, a <= Len(s)
    PROVE  /\ Cut(s \o t, 0, a) = Cut(s, 0, a)
           /\ Cut(s \o t, Len(s), Len(s \o t)) = t
  <1>1. s \o t \in Seq(L) /\ Len(s \o t) = Len(s) + Len(t)
        /\ Len(s) \in Nat /\ Len(t) \in Nat
    BY ConcatProperties
  <1>2. Cut(s \o t, 0, a) = Cut(s, 0, a)
    <2>1. CASE a = 0
      BY <2>1, SubSeqEmpty DEF Cut
    <2>2. CASE a # 0
      BY <1>1, <2>2, SubSeqOfConcat1 DEF Cut
    <2>. QED  BY <2>1, <2>2
  <1>3. Cut(s \o t, Len(s), Len(s \o t)) = t
    <2>1. CASE t = <<>>
      BY <1>1, <2>1, Cuts
    <2>2. CASE t # <<>>
      <3>1. Len(t) # 0
        BY <2>2, EmptySeq
      <3>2. PICK i, j : i = Len(s) + 1 /\ j = Len(s) + Len(t)
        OBVIOUS
      <3>3. /\ i \in Len(s)+1 .. Len(s)+Len(t)
            /\ j \in Len(s)+1 .. Len(s)+Len(t)
            /\ i - Len(s) = 1 /\ j - Len(s) = Len(t)
        BY <1>1, <3>1, <3>2
      <3>4. SubSeq(s \o t, i, j) = SubSeq(t, 1, Len(t))
        BY <3>3, SubSeqOfConcat2
      <3>. QED  BY <1>1, <3>2, <3>4, SubSeqFull DEF Cut
    <2>. QED  BY <2>1, <2>2
  <1>. QED  BY <1>2, <1>3

LEMMA CutOfCut ==
    ASSUME NEW L, NEW s \in Seq(L), NEW a \in Nat, NEW b \in Nat, a <= b, b <= Len(s)
    PROVE  Cut(Cut(s, 0, b), 0, a) = Cut(s, 0, a)
  <1>1. /\ Cut(s, 0, a) \in Seq(L) /\ Len(Cut(s, 0, a)) = a
        /\ Cut(s, a, b) \in Seq(L)
        /\ Cut(s, 0, a) \o Cut(s, a, b) = Cut(s, 0, b)
    <2>1. 0 <= a /\ 0 \in Nat /\ a <= Len(s) /\ a - 0 = a
      BY LenProperties
    <2>2. Cut(s, 0, a) \in Seq(L) /\ Len(Cut(s, 0, a)) = a
      BY ONLY <2>1, s \in Seq(L), a \in Nat, Cuts
    <2>3. Cut(s, a, b) \in Seq(L)
      BY Cuts
    <2>4. Adjacent(s, 0, a, b)
      BY ONLY <2>1, s \in Seq(L), a \in Nat, b \in Nat, a <= b, b <= Len(s), CutsJoin
    <2>. QED  BY <2>1, <2>2, <2>3, <2>4 DEF Adjacent
  <1>2. Cut(Cut(s, 0, a) \o Cut(s, a, b), 0, a) = Cut(Cut(s, 0, a), 0, a)
    BY <1>1, CutsOfJoined
  <1>3. Cut(Cut(s, 0, a), 0, a) = Cut(s, 0, a)
    BY <1>1, Cuts
  <1>. QED  BY <1>1, <1>2, <1>3

PatchesTo(old, h, c, rest, text) ==
    /\ Patch(text, h) = Cut(old, 0, c) \o ((Cut(old, c, h.start) \o h.new) \o rest)
    /\ text = Cut(old, 0, c) \o ((Cut(old, c, h.start) \o h.old) \o rest)

(* What patching does behind a place c where nothing has changed. *)
LEMMA PatchOn ==
    ASSUME NEW L, NEW old \in Seq(L), NEW rest \in Seq(L), NEW h \in HunksOver(L),
           End(h) <= Len(old), h.old = Cut(old, h.start, End(h)),
           NEW c \in Nat, c <= h.start,
           NEW text, text = Cut(old, 0, End(h)) \o rest
    PROVE  PatchesTo(old, h, c, rest, text)
  <1>1. PICK st, e : st = h.start /\ e = End(h)
    OBVIOUS
  <1>2. /\ st \in Nat /\ e \in Nat /\ st <= e /\ e <= Len(old) /\ Len(old) \in Nat
        /\ h.old \in Seq(L) /\ h.new \in Seq(L)
    BY <1>1 DEF HunksOver, End
  <1>3. PICK x, y, z : x = Cut(old, 0, c) /\ y = Cut(old, c, st) /\ z = Cut(old, 0, e)
    OBVIOUS
  <1>4. /\ x \in Seq(L) /\ y \in Seq(L) /\ z \in Seq(L) /\ Len(z) = e
        /\ x \o y = Cut(old, 0, st)
        /\ Cut(old, 0, st) \o h.old = z
        /\ Cut(old, 0, st) \in Seq(L)
    <2>1. x \in Seq(L) /\ y \in Seq(L) /\ z \in Seq(L) /\ Cut(old, 0, st) \in Seq(L)
      <3>1. 0 \in Nat /\ st <= Len(old) /\ c <= Len(old)
        BY <1>1, <1>2
      <3>. QED  BY ONLY <3>1, <1>2, <1>3, c \in Nat, old \in Seq(L), Cuts
    <2>2. Len(z) = e
      <3>1. 0 <= e /\ 0 \in Nat /\ e - 0 = e
        BY <1>2
      <3>. QED  BY ONLY <3>1, <1>2, <1>3, old \in Seq(L), Cuts
    <2>3. x \o y = Cut(old, 0, st)
      <3>1. 0 <= c /\ c <= st /\ st <= Len(old) /\ 0 \in Nat
        BY <1>1, <1>2
      <3>2. Adjacent(old, 0, c, st)
        BY ONLY <3>1, <1>2, c \in Nat, old \in Seq(L), CutsJoin
      <3>. QED  BY <1>3, <3>2 DEF Adjacent
    <2>4. Cut(old, 0, st) \o h.old = z
      <3>1. 0 <= st /\ 0 \in Nat /\ h.old = Cut(old, st, e)
        BY <1>1, <1>2
      <3>2. Adjacent(old, 0, st, e)
        BY ONLY <3>1, <1>2, old \in Seq(L), CutsJoin
      <3>. QED  BY <1>3, <3>1, <3>2 DEF Adjacent
    <2>. QED  BY <2>1, <2>2, <2>3, <2>4
  <1>5. Cut(text, 0, st) = x \o y
    <2>1. Cut(text, 0, st) = Cut(z, 0, st)
      <3>1. /\ text = z \o rest /\ st <= Len(z)
            /\ z \in Seq(L) /\ rest \in Seq(L) /\ st \in Nat
        BY <1>1, <1>2, <1>3, <1>4
      <3>. QED  BY ONLY <3>1, CutsOfJoined
    <2>2. Cut(z, 0, st) = Cut(old, 0, st)
      BY <1>2, <1>3, CutOfCut
    <2>. QED  BY <1>4, <2>1, <2>2
  <1>6. Cut(text, e, Len(text)) = rest
    <2>1. text = z \o rest /\ e = Len(z) /\ 0 <= Len(z) /\ 0 \in Nat
      BY <1>1, <1>2, <1>3, <1>4
    <2>. QED  BY ONLY <2>1, rest \in Seq(L), <1>4, CutsOfJoined
  <1>7. Patch(text, h) = ((x \o y) \o h.new) \o rest
    <2>1. Patch(text, h) = (Cut(text, 0, st) \o h.new) \o Cut(text, e, Len(text))
      BY <1>1 DEF Patch, Cut, End
    <2>. QED  BY <1>5, <1>6, <2>1
  <1>8. \A w \in Seq(L) : ((x \o y) \o w) \o rest = x \o ((y \o w) \o rest)
    <2>. TAKE w \in Seq(L)
    <2>0. x \in Seq(L) /\ y \in Seq(L) /\ rest \in Seq(L)
      BY <1>4
    <2>1. Regrouped(L, x, y, w)
      BY ONLY <2>0, w \in Seq(L), Regroup
    <2>2. PICK v : v = y \o w
      OBVIOUS
    <2>3. v \in Seq(L) /\ (x \o y) \o w = x \o v
      BY <2>1, <2>2 DEF Regrouped
    <2>4. Regrouped(L, x, v, rest)
      BY ONLY <2>0, <2>3, Regroup
    <2>5. (x \o v) \o rest = x \o (v \o rest)
      BY <2>4 DEF Regrouped
    <2>. QED  BY ONLY <2>2, <2>3, <2>5
  <1>9. Patch(text, h) = x \o ((y \o h.new) \o rest)
    BY <1>2, <1>7, <1>8
  <1>10. text = x \o ((y \o h.old) \o rest)
    <2>1. text = ((x \o y) \o h.old) \o rest
      BY <1>1, <1>3, <1>4
    <2>. QED  BY <1>2, <1>8, <2>1
  <1>. QED  BY <1>1, <1>3, <1>9, <1>10 DEF PatchesTo

-----------------------------------------------------------------------------
(* Rebuilding up to a hunk, and patching from the last hunk back *)

(* The text s is the old one up to the end of hunk m, and then what the      *)
(* rebuilt text ends with.                                                   *)
Meets(L, old, r, final, s, m) ==
    \E rest \in Seq(L) : /\ s = Cut(old, 0, r[m].cursor) \o rest
                         /\ r[m].out \o rest = final

LEMMA MeetsBack ==
    ASSUME NEW L, NEW old \in Seq(L), NEW hunks \in Seq(HunksOver(L)),
           InOrder(old, hunks), NEW S, NEW r, r = Rebuilt(old, hunks, S),
           NEW final, NEW s, NEW m \in 1..Len(hunks),
           Meets(L, old, r, final, s, m)
    PROVE  Meets(L, old, r, final, IF m \in S THEN Patch(s, hunks[m]) ELSE s, m - 1)
  <1>1. PICK rest \in Seq(L) : s = Cut(old, 0, r[m].cursor) \o rest /\ r[m].out \o rest = final
    BY DEF Meets
  <1>2. PICK h, c, out, p : /\ h = hunks[m] /\ c = r[m - 1].cursor
                            /\ out = r[m - 1].out /\ p = Piece(h, m, S)
    OBVIOUS
  <1>3. /\ r \in [0..Len(hunks) -> [out : Seq(L), cursor : Nat]]
        /\ r[0].cursor = 0
        /\ \A k \in 1..Len(hunks) : r[k].cursor = End(hunks[k])
        /\ r[m].out = (out \o Cut(old, c, h.start)) \o p
    <2>1. IsRebuilt(L, old, hunks, S, r)
      BY RebuiltIs
    <2>5. \A k \in 1..Len(hunks) : r[k] = Emit(old, hunks, S, r[k - 1], k)
      BY <2>1 DEF IsRebuilt
    <2>2. \A k \in 1..Len(hunks) : r[k].cursor = End(hunks[k])
      BY <2>5, EmitIs
    <2>6. r[m].out = Emitted(old, r[m - 1], hunks[m], Piece(hunks[m], m, S))
      BY <2>5, EmitIs
    <2>3. r[m].out = (out \o Cut(old, c, h.start)) \o p
      BY <1>2, <2>6 DEF Emitted
    <2>4. r \in [0..Len(hunks) -> [out : Seq(L), cursor : Nat]] /\ r[0].cursor = 0
      BY <2>1 DEF IsRebuilt
    <2>. QED  BY <1>2, <2>2, <2>3, <2>4
  <1>4. /\ h \in HunksOver(L) /\ h.start \in Nat /\ End(h) \in Nat
        /\ h.start <= Len(old) /\ End(h) <= Len(old)
        /\ h.old = Cut(old, h.start, End(h))
        /\ p \in Seq(L)
    <2>1. Len(old) \in Nat
      OBVIOUS
    <2>. QED  BY <1>2, <2>1, HunkFacts DEF Piece
  <1>5. c \in Nat /\ out \in Seq(L) /\ c <= h.start
    <2>1. m - 1 \in 0..Len(hunks)
      OBVIOUS
    <2>2. r[m - 1] \in [out : Seq(L), cursor : Nat]
      BY <1>3, <2>1
    <2>3. c <= h.start
      <3>1. CASE m = 1
        BY <1>2, <1>3, <1>4, <3>1
      <3>2. CASE m # 1
        <4>1. m - 1 \in 1..Len(hunks) /\ m > 1
          BY <3>2
        <4>2. c = End(hunks[m - 1]) /\ End(hunks[m - 1]) <= h.start
          BY <1>2, <1>3, <4>1 DEF InOrder
        <4>. QED  BY <4>2
      <3>. QED  BY <3>1, <3>2
    <2>. QED  BY <1>2, <2>2, <2>3
  <1>6. PICK x : x = Cut(old, c, h.start)
    OBVIOUS
  <1>7. x \in Seq(L)
    BY <1>4, <1>5, <1>6, Cuts
  <1>8. PICK new : new = (x \o p) \o rest
    OBVIOUS
  <1>9. new \in Seq(L)
    <2>1. Regrouped(L, x, p, rest)
      BY ONLY <1>7, <1>4, rest \in Seq(L), Regroup
    <2>2. PICK y : y = x \o p
      OBVIOUS
    <2>3. y \in Seq(L)
      BY <2>1, <2>2 DEF Regrouped
    <2>. QED  BY <1>8, <2>2, <2>3, ConcatProperties
  <1>10. out \o new = final
    <2>1. final = ((out \o x) \o p) \o rest
      BY <1>1, <1>3, <1>6
    <2>2. out \in Seq(L) /\ x \in Seq(L) /\ p \in Seq(L) /\ rest \in Seq(L)
      BY <1>4, <1>5, <1>7
    <2>3. Regrouped(L, out, x, p)
      BY ONLY <2>2, Regroup
    <2>4. PICK y : y = x \o p
      OBVIOUS
    <2>5. y \in Seq(L) /\ (out \o x) \o p = out \o y
      BY <2>3, <2>4 DEF Regrouped
    <2>6. Regrouped(L, out, y, rest)
      BY ONLY <2>2, <2>5, Regroup
    <2>7. (out \o y) \o rest = out \o (y \o rest)
      BY <2>6 DEF Regrouped
    <2>. QED  BY ONLY <1>8, <2>1, <2>4, <2>5, <2>7
  <1>11. /\ Patch(s, h) = Cut(old, 0, c) \o ((x \o h.new) \o rest)
         /\ s = Cut(old, 0, c) \o ((x \o h.old) \o rest)
    <2>1. s = Cut(old, 0, End(h)) \o rest
      BY <1>1, <1>2, <1>3
    <2>2. PatchesTo(old, h, c, rest, s)
      BY ONLY <2>1, <1>4, <1>5, old \in Seq(L), rest \in Seq(L), PatchOn
    <2>. QED  BY <1>6, <2>2 DEF PatchesTo
  <1>12. (IF m \in S THEN Patch(s, hunks[m]) ELSE s) = Cut(old, 0, c) \o new
    BY <1>2, <1>8, <1>11 DEF Piece
  <1>13. (IF m \in S THEN Patch(s, hunks[m]) ELSE s) = Cut(old, 0, r[m - 1].cursor) \o new
         /\ r[m - 1].out \o new = final
    BY <1>2, <1>10, <1>12
  <1>. QED  BY ONLY <1>9, <1>13 DEF Meets

LEMMA MeetsType ==
    ASSUME NEW L, NEW old \in Seq(L), NEW hunks \in Seq(HunksOver(L)),
           InOrder(old, hunks), NEW S, NEW r, r = Rebuilt(old, hunks, S),
           NEW final, NEW s, NEW m \in 0..Len(hunks),
           Meets(L, old, r, final, s, m)
    PROVE  s \in Seq(L)
  <1>1. PICK rest \in Seq(L) : s = Cut(old, 0, r[m].cursor) \o rest
    BY DEF Meets
  <1>2. IsRebuilt(L, old, hunks, S, r)
    BY RebuiltIs
  <1>3. r[m].cursor \in Nat /\ r[m].cursor <= Len(old)
    <2>1. CASE m = 0
      BY <1>2, <2>1 DEF IsRebuilt
    <2>2. CASE m # 0
      <3>1. m \in 1..Len(hunks) /\ m \in Int
        BY <2>2
      <3>2. r[m].cursor = End(hunks[m])
        BY <1>2, <3>1, EmitIs DEF IsRebuilt
      <3>. QED  BY <3>1, <3>2, HunkFacts
    <2>. QED  BY <2>1, <2>2
  <1>4. PICK c : c = r[m].cursor
    OBVIOUS
  <1>5. PICK x : x = Cut(old, 0, c)
    OBVIOUS
  <1>6. x \in Seq(L)
    BY <1>3, <1>4, <1>5, Cuts
  <1>. QED  BY <1>1, <1>4, <1>5, <1>6, ConcatProperties

(* Rebuilding the text and patching it from its end give the same.           *)
LEMMA ApplyIsPatch ==
    ASSUME NEW L, NEW old \in Seq(L), NEW hunks \in Seq(HunksOver(L)),
           InOrder(old, hunks), NEW S
    PROVE  ApplyHunks(old, hunks, S) = PatchAll(old, hunks, S)
  <1>1. PICK r : r = Rebuilt(old, hunks, S)
    OBVIOUS
  <1>2. PICK n : n = Len(hunks)
    OBVIOUS
  <1>3. PICK final : final = r[n].out \o Cut(old, r[n].cursor, Len(old))
    OBVIOUS
  <1>4. n \in Nat
    BY <1>2
  <1>. DEFINE J(s, m) == Meets(L, old, r, final, s, m)
              Step(s, k) == LET m == Len(hunks) + 1 - k
                            IN IF m \in S THEN Patch(s, hunks[m]) ELSE s
              Good(g) == g = [k \in 0..Len(hunks) |->
                                IF k = 0 THEN old ELSE Step(g[k - 1], k)]
  <1>5. J(old, n)
    <2>1. IsRebuilt(L, old, hunks, S, r)
      BY <1>1, RebuiltIs
    <2>2. PICK c : c = r[n].cursor
      OBVIOUS
    <2>3. c \in Nat /\ c <= Len(old)
      <3>1. CASE n = 0
        BY <2>1, <2>2, <3>1 DEF IsRebuilt
      <3>2. CASE n # 0
        <4>1. n \in 1..Len(hunks) /\ n \in Int
          BY <1>2, <1>4, <3>2
        <4>2. r[n].cursor = End(hunks[n])
          BY <2>1, <4>1, EmitIs DEF IsRebuilt
        <4>. QED  BY <2>2, <4>1, <4>2, HunkFacts
      <3>. QED  BY <3>1, <3>2
    <2>4. PICK rest : rest = Cut(old, c, Len(old))
      OBVIOUS
    <2>5. rest \in Seq(L) /\ old = Cut(old, 0, c) \o rest
      <3>1. /\ 0 \in Nat /\ 0 <= c /\ Len(old) \in Nat /\ Len(old) <= Len(old)
            /\ c \in Nat /\ c <= Len(old)
        BY <2>3
      <3>2. rest \in Seq(L)
        BY ONLY <3>1, <2>4, old \in Seq(L), Cuts
      <3>3. Cut(old, 0, c) \o rest = Cut(old, 0, Len(old))
        <4>1. Adjacent(old, 0, c, Len(old))
          BY ONLY <3>1, old \in Seq(L), CutsJoin
        <4>. QED  BY <2>4, <4>1 DEF Adjacent
      <3>4. Cut(old, 0, Len(old)) = old
        BY ONLY <3>1, old \in Seq(L), Cuts
      <3>. QED  BY <3>2, <3>3, <3>4
    <2>. QED  BY <1>3, <2>2, <2>4, <2>5 DEF Meets
  <1>6. ASSUME NEW s, NEW k \in 1..n, J(s, n - (k - 1))
        PROVE  J(Step(s, k), n - k)
    <2>1. PICK m : m = n - (k - 1)
      OBVIOUS
    <2>2. m \in 1..Len(hunks) /\ m - 1 = n - k /\ m = Len(hunks) + 1 - k
      BY <1>2, <1>4, <2>1
    <2>3. Meets(L, old, r, final, IF m \in S THEN Patch(s, hunks[m]) ELSE s, m - 1)
      BY <1>1, <1>6, <2>1, <2>2, MeetsBack
    <2>. QED  BY <2>2, <2>3
  <1>7. ASSUME NEW s, NEW m \in 0..n, J(s, m)
        PROVE  s \in Seq(L)
    BY <1>1, <1>2, <1>7, MeetsType
  <1>. HIDE DEF J, Step
  <1>8. ASSUME NEW g, g[0] = old,
               \A k \in 1..n : J(g[k - 1], n - (k - 1)) => g[k] = Step(g[k - 1], k)
        PROVE  \A k \in 0..n : J(g[k], n - k)
    <2>. DEFINE T == {k \in Nat : k <= n => J(g[k], n - k)}
    <2>1. 0 \in T
      <3>1. n - 0 = n
        BY <1>4
      <3>. QED  BY <1>5, <1>8, <3>1
    <2>2. ASSUME NEW k \in Nat, k \in T PROVE k + 1 \in T
      <3>. SUFFICES ASSUME k + 1 <= n PROVE J(g[k + 1], n - (k + 1))
        OBVIOUS
      <3>1. PICK l : l = k + 1
        OBVIOUS
      <3>2. l \in 1..n /\ l - 1 = k
        BY <1>4, <3>1
      <3>3. J(g[l - 1], n - (l - 1))
        BY <2>2, <3>2, <1>4
      <3>. QED  BY <1>6, <1>8, <3>1, <3>2, <3>3
    <2>. HIDE DEF T
    <2>3. Nat \subseteq T
      BY <2>1, <2>2, Induction
    <2>. QED  BY <2>3, <1>4 DEF T
  <1>9. PICK f : Good(f)
    <2>. DEFINE D == Seq(L)
                F == [p \in D \X Nat |-> IF p[2] \in 1..n /\ Step(p[1], p[2]) \in D
                                         THEN Step(p[1], p[2]) ELSE p[1]]
    <2>1. F \in [D \X Nat -> D] /\ old \in D
      OBVIOUS
    <2>2. PICK f \in [0..n -> D] : f[0] = old /\ \A k \in 1..n : f[k] = F[<<f[k - 1], k>>]
      <3>1. CanRun(D, old, F, n)
        <4>. HIDE DEF F, D
        <4>. QED  BY <1>4, <2>1, Iteration
      <3>. HIDE DEF F
      <3>. QED  BY <3>1 DEF CanRun
    <2>3. ASSUME NEW k \in 1..n, J(f[k - 1], n - (k - 1))
          PROVE  f[k] = Step(f[k - 1], k)
      <3>1. f[k - 1] \in D /\ k \in Nat
        BY <1>4
      <3>2. J(Step(f[k - 1], k), n - k) /\ n - k \in 0..n
        BY <1>4, <1>6, <2>3
      <3>3. Step(f[k - 1], k) \in D
        BY <1>7, <3>2
      <3>4. F[<<f[k - 1], k>>] = Step(f[k - 1], k)
        BY <3>1, <3>3
      <3>. HIDE DEF F
      <3>. QED  BY <2>2, <3>4
    <2>. HIDE DEF F, D
    <2>4. \A k \in 0..n : J(f[k], n - k)
      BY <1>8, <2>2, <2>3
    <2>5. \A k \in 1..n : f[k] = Step(f[k - 1], k)
      <3>. TAKE k \in 1..n
      <3>1. k - 1 \in 0..n
        BY <1>4
      <3>. QED  BY <2>3, <2>4, <3>1
    <2>6. f = [k \in 0..n |-> IF k = 0 THEN old ELSE Step(f[k - 1], k)]
      BY <2>2, <2>5
    <2>. QED  BY <1>2, <2>6
  <1>10. PICK p : p = Patched(old, hunks, S)
    OBVIOUS
  <1>11. Good(p)
    <2>1. p = CHOOSE g : Good(g)
      BY <1>10 DEF Patched, Step
    <2>. HIDE DEF Good
    <2>. QED  BY <1>9, <2>1
  <1>12. J(p[n], 0)
    <2>1. p[0] = old /\ \A k \in 1..n : p[k] = Step(p[k - 1], k)
      BY <1>2, <1>4, <1>11
    <2>2. \A k \in 0..n : J(p[k], n - k)
      BY ONLY <1>8, <2>1
    <2>3. n \in 0..n /\ n - n = 0
      BY <1>4
    <2>. HIDE DEF J
    <2>. QED  BY <2>2, <2>3
  <1>13. p[n] = final
    <2>1. IsRebuilt(L, old, hunks, S, r)
      BY <1>1, RebuiltIs
    <2>2. r[0].cursor = 0 /\ r[0].out = <<>>
      BY <2>1 DEF IsRebuilt
    <2>3. PICK rest \in Seq(L) : p[n] = Cut(old, 0, 0) \o rest /\ <<>> \o rest = final
      BY <1>12, <2>2 DEF J, Meets
    <2>4. Cut(old, 0, 0) = <<>>
      BY SubSeqEmpty DEF Cut
    <2>. QED  BY <2>3, <2>4
  <1>14. ApplyHunks(old, hunks, S) = Join(final)
    BY <1>1, <1>2, <1>3 DEF ApplyHunks, Cut
  <1>. QED  BY <1>2, <1>10, <1>13, <1>14 DEF PatchAll

-----------------------------------------------------------------------------
(* What a list of hunks turns into what *)

(* The first n hunks, and what is decided on them, are the same.            *)
Agree(H1, S1, H2, S2, n) ==
    /\ n <= Len(H1) /\ n <= Len(H2)
    /\ \A k \in 1..n : H1[k] = H2[k]
    /\ \A k \in 1..n : k \in S1 <=> k \in S2

(* Where the text is after hunk n is for the first n hunks alone to say.     *)
LEMMA SameRebuilt ==
    ASSUME NEW L, NEW old \in Seq(L),
           NEW H1 \in Seq(HunksOver(L)), InOrder(old, H1),
           NEW H2 \in Seq(HunksOver(L)), InOrder(old, H2),
           NEW S1, NEW S2, NEW n \in Nat, Agree(H1, S1, H2, S2, n),
           NEW r1, r1 = Rebuilt(old, H1, S1), NEW r2, r2 = Rebuilt(old, H2, S2)
    PROVE  r1[n] = r2[n]
  <1>2. IsRebuilt(L, old, H1, S1, r1) /\ IsRebuilt(L, old, H2, S2, r2)
    BY RebuiltIs
  <1>. DEFINE T == {k \in Nat : k <= n => r1[k] = r2[k]}
  <1>3. 0 \in T
    BY <1>2 DEF IsRebuilt
  <1>4. ASSUME NEW k \in Nat, k \in T PROVE k + 1 \in T
    <2>. SUFFICES ASSUME k + 1 <= n PROVE r1[k + 1] = r2[k + 1]
      OBVIOUS
    <2>1. PICK l : l = k + 1
      OBVIOUS
    <2>2. /\ l \in 1..n /\ l \in 1..Len(H1) /\ l \in 1..Len(H2) /\ l - 1 = k
          /\ r1[l - 1] = r2[l - 1]
      BY <1>4, <2>1 DEF Agree
    <2>3. PICK x : x = r1[l - 1] /\ x = r2[l - 1]
      BY <2>2
    <2>4. r1[l] = Emit(old, H1, S1, x, l)
      BY <1>2, <2>2, <2>3 DEF IsRebuilt
    <2>5. r2[l] = Emit(old, H2, S2, x, l)
      BY <1>2, <2>2, <2>3 DEF IsRebuilt
    <2>6. H1[l] = H2[l] /\ Piece(H1[l], l, S1) = Piece(H2[l], l, S2)
      BY <2>2 DEF Piece, Agree
    <2>7. Emit(old, H1, S1, x, l) = Emit(old, H2, S2, x, l)
      BY <2>6 DEF Emit
    <2>. QED  BY <2>1, <2>4, <2>5, <2>7
  <1>. HIDE DEF T
  <1>5. Nat \subseteq T
    BY <1>3, <1>4, Induction
  <1>. QED  BY <1>5 DEF T

(* How far the hunks have come in the old text, and what they made of it.    *)
Cursor(old, H) == Rebuilt(old, H, Nat)[Len(H)].cursor
Output(old, H) == Rebuilt(old, H, Nat)[Len(H)].out

(* The hunks turn the first a lines of the one into the first b of the other. *)
Turns(L, old, new, H, a, b) ==
    /\ H \in Seq(HunksOver(L)) /\ InOrder(old, H)
    /\ a \in 0..Len(old) /\ b \in 0..Len(new)
    /\ Cursor(old, H) <= a
    /\ Output(old, H) \o Cut(old, Cursor(old, H), a) = Cut(new, 0, b)

IsCursor(L, old, H, u, out) ==
    /\ u \in Nat /\ u <= Len(old) /\ out \in Seq(L)
    /\ Len(H) = 0 => u = 0 /\ out = <<>>
    /\ Len(H) # 0 => u = End(H[Len(H)])

LEMMA CursorIs ==
    ASSUME NEW L, NEW old \in Seq(L), NEW H \in Seq(HunksOver(L)), InOrder(old, H)
    PROVE  IsCursor(L, old, H, Cursor(old, H), Output(old, H))
  <1>1. PICK r, n : r = Rebuilt(old, H, Nat) /\ n = Len(H) /\ n \in Nat
    OBVIOUS
  <1>2. IsRebuilt(L, old, H, Nat, r)
    BY <1>1, RebuiltIs
  <1>3. r[n] \in [out : Seq(L), cursor : Nat]
    BY <1>1, <1>2 DEF IsRebuilt
  <1>4. n = 0 => r[n].cursor = 0 /\ r[n].out = <<>>
    BY <1>2 DEF IsRebuilt
  <1>5. n # 0 => r[n].cursor = End(H[n])
    <2>. SUFFICES ASSUME n # 0 PROVE r[n].cursor = End(H[n])
      OBVIOUS
    <2>1. n \in 1..Len(H) /\ n \in Int
      BY <1>1
    <2>. QED  BY <1>2, <2>1, EmitIs DEF IsRebuilt
  <1>6. r[n].cursor <= Len(old)
    <2>1. CASE n = 0
      BY <1>4, <2>1
    <2>2. CASE n # 0
      <3>1. n \in 1..Len(H)
        BY <1>1, <2>2
      <3>. QED  BY <1>5, <2>2, <3>1, HunkFacts
    <2>. QED  BY <2>1, <2>2
  <1>. QED  BY <1>1, <1>3, <1>4, <1>5, <1>6 DEF Cursor, Output, IsCursor

LEMMA TurnsNothing ==
    ASSUME NEW L, NEW old \in Seq(L), NEW new \in Seq(L), NEW a \in Nat,
           a <= Len(old), a <= Len(new), Cut(old, 0, a) = Cut(new, 0, a)
    PROVE  Turns(L, old, new, <<>>, a, a)
  <1>1. <<>> \in Seq(HunksOver(L)) /\ InOrder(old, <<>>)
    BY DEF InOrder
  <1>2. Cursor(old, <<>>) = 0 /\ Output(old, <<>>) = <<>>
    <2>1. IsCursor(L, old, <<>>, Cursor(old, <<>>), Output(old, <<>>))
      BY ONLY <1>1, old \in Seq(L), CursorIs
    <2>. QED  BY <2>1 DEF IsCursor
  <1>3. Cut(old, 0, a) \in Seq(L)
    BY Cuts
  <1>4. <<>> \o Cut(old, 0, a) = Cut(new, 0, a)
    BY <1>3
  <1>6. Output(old, <<>>) \o Cut(old, Cursor(old, <<>>), a) = Cut(new, 0, a)
    BY <1>2, <1>4
  <1>7. Cursor(old, <<>>) <= a
    BY <1>2
  <1>5. a \in 0..Len(old) /\ a \in 0..Len(new)
    OBVIOUS
  <1>. QED  BY <1>1, <1>5, <1>6, <1>7 DEF Turns

(* Lines that are the same in both need no hunk.                             *)
LEMMA TurnsOn ==
    ASSUME NEW L, NEW old \in Seq(L), NEW new \in Seq(L), NEW H,
           NEW a \in Nat, NEW b \in Nat, NEW c \in Nat, NEW d \in Nat,
           Turns(L, old, new, H, a, b),
           a <= c, c <= Len(old), b <= d, d <= Len(new),
           Cut(old, a, c) = Cut(new, b, d)
    PROVE  Turns(L, old, new, H, c, d)
  <1>1. PICK out, u : out = Output(old, H) /\ u = Cursor(old, H)
    OBVIOUS
  <1>2. /\ H \in Seq(HunksOver(L)) /\ InOrder(old, H)
        /\ u <= a /\ out \o Cut(old, u, a) = Cut(new, 0, b)
    BY <1>1 DEF Turns
  <1>3. u \in Nat /\ out \in Seq(L)
    <2>1. IsCursor(L, old, H, Cursor(old, H), Output(old, H))
      BY ONLY <1>2, old \in Seq(L), CursorIs
    <2>. QED  BY <1>1, <2>1 DEF IsCursor
  <1>4. PICK x, y : x = Cut(old, u, a) /\ y = Cut(old, a, c)
    OBVIOUS
  <1>5. x \in Seq(L) /\ y \in Seq(L)
    <2>1. a \in Nat /\ c \in Nat /\ a <= Len(old)
      OBVIOUS
    <2>. QED  BY ONLY <2>1, <1>3, <1>4, old \in Seq(L), c <= Len(old), Cuts
  <1>6. x \o y = Cut(old, u, c)
    <2>1. Adjacent(old, u, a, c)
      BY ONLY <1>2, <1>3, old \in Seq(L), a \in Nat, c \in Nat, a <= c,
              c <= Len(old), CutsJoin
    <2>. QED  BY <1>4, <2>1 DEF Adjacent
  <1>7. Cut(new, 0, b) \o y = Cut(new, 0, d)
    <2>1. 0 \in Nat /\ 0 <= b
      OBVIOUS
    <2>2. Adjacent(new, 0, b, d)
      BY ONLY <2>1, new \in Seq(L), b \in Nat, d \in Nat, b <= d, d <= Len(new), CutsJoin
    <2>. QED  BY <1>4, <2>2 DEF Adjacent
  <1>8. (out \o x) \o y = out \o (x \o y)
    <2>1. Regrouped(L, out, x, y)
      BY ONLY <1>3, <1>5, Regroup
    <2>. QED  BY <2>1 DEF Regrouped
  <1>9. out \o Cut(old, u, c) = Cut(new, 0, d)
    BY <1>2, <1>4, <1>6, <1>7, <1>8
  <1>10. u <= c /\ c \in 0..Len(old) /\ d \in 0..Len(new)
    BY <1>2, <1>3
  <1>. QED  BY <1>1, <1>2, <1>9, <1>10 DEF Turns

(* Lines that differ are a hunk.                                             *)
LEMMA TurnsHunk ==
    ASSUME NEW L, NEW old \in Seq(L), NEW new \in Seq(L), NEW H,
           NEW a \in Nat, NEW b \in Nat, NEW c \in Nat, NEW d \in Nat,
           Turns(L, old, new, H, a, b),
           a <= c, c <= Len(old), b <= d, d <= Len(new),
           NEW h, h = [start |-> a, old |-> Cut(old, a, c), new |-> Cut(new, b, d)]
    PROVE  Turns(L, old, new, Append(H, h), c, d)
  <1>1. PICK out, u, n, G : /\ out = Output(old, H) /\ u = Cursor(old, H)
                            /\ n = Len(H) /\ G = Append(H, h)
    OBVIOUS
  <1>2. /\ H \in Seq(HunksOver(L)) /\ InOrder(old, H)
        /\ u <= a /\ out \o Cut(old, u, a) = Cut(new, 0, b)
    BY <1>1 DEF Turns
  <1>3. n \in Nat /\ u \in Nat /\ out \in Seq(L) /\ (n # 0 => u = End(H[n]))
    <2>1. IsCursor(L, old, H, Cursor(old, H), Output(old, H))
      BY ONLY <1>2, old \in Seq(L), CursorIs
    <2>2. n \in Nat
      BY ONLY <1>1, <1>2, LenProperties
    <2>. QED  BY <1>1, <2>1, <2>2 DEF IsCursor
  <1>4. Cut(old, a, c) \in Seq(L) /\ Len(Cut(old, a, c)) = c - a /\ Cut(new, b, d) \in Seq(L)
    <2>1. Cut(old, a, c) \in Seq(L)
      BY ONLY old \in Seq(L), a \in Nat, c \in Nat, c <= Len(old), Cuts
    <2>3. Len(Cut(old, a, c)) = c - a
      BY ONLY old \in Seq(L), a \in Nat, c \in Nat, a <= c, c <= Len(old), Cuts
    <2>2. Cut(new, b, d) \in Seq(L)
      BY ONLY new \in Seq(L), b \in Nat, d \in Nat, d <= Len(new), Cuts
    <2>. QED  BY <2>1, <2>2, <2>3
  <1>5. /\ h.start = a /\ h.old = Cut(old, a, c) /\ h.new = Cut(new, b, d)
        /\ h \in HunksOver(L) /\ End(h) = c
    <2>1. h.start = a /\ h.old = Cut(old, a, c) /\ h.new = Cut(new, b, d)
      OBVIOUS
    <2>2. h \in HunksOver(L)
      BY <1>4 DEF HunksOver
    <2>3. End(h) = c
      <3>1. a + (c - a) = c
        OBVIOUS
      <3>. QED  BY <1>4, <2>1, <3>1 DEF End
    <2>. QED  BY <2>1, <2>2, <2>3
  <1>6. /\ G \in Seq(HunksOver(L)) /\ Len(G) = n + 1 /\ G[n + 1] = h
        /\ \A k \in 1..n : G[k] = H[k]
    BY <1>1, <1>2, <1>5, AppendProperties
  <1>7. InOrder(old, G)
    <2>1. ASSUME NEW k \in 1..n
          PROVE  /\ End(G[k]) <= Len(old)
                 /\ G[k].old = SubSeq(old, G[k].start + 1, End(G[k]))
                 /\ k > 1 => End(G[k - 1]) <= G[k].start
      <3>1. G[k] = H[k] /\ (k > 1 => G[k - 1] = H[k - 1])
        BY <1>3, <1>6
      <3>2. k \in 1..Len(H)
        BY <1>1
      <3>. QED  BY <1>2, <3>1, <3>2 DEF InOrder
    <2>2. /\ End(h) <= Len(old)
          /\ h.old = SubSeq(old, h.start + 1, End(h))
          /\ n + 1 > 1 => End(G[n]) <= h.start
      <3>1. n + 1 > 1 => End(G[n]) = u
        BY <1>3, <1>6
      <3>2. End(h) <= Len(old) /\ h.old = SubSeq(old, h.start + 1, End(h))
        BY <1>5 DEF Cut
      <3>. QED  BY <1>2, <1>5, <3>1, <3>2
    <2>3. ASSUME NEW k \in 1..Len(G)
          PROVE  /\ End(G[k]) <= Len(old)
                 /\ G[k].old = SubSeq(old, G[k].start + 1, End(G[k]))
                 /\ k > 1 => End(G[k - 1]) <= G[k].start
      <3>1. CASE k \in 1..n
        BY <2>1, <3>1
      <3>2. CASE k = n + 1
        <4>1. G[k] = h /\ k - 1 = n
          BY <1>3, <1>6, <3>2
        <4>. QED  BY <2>2, <3>2, <4>1
      <3>3. k \in 1..n \/ k = n + 1
        BY <1>3, <1>6
      <3>. QED  BY <3>1, <3>2, <3>3
    <2>. QED  BY <2>3 DEF InOrder
  <1>8. Cursor(old, G) = c
    <2>1. Len(G) # 0 /\ G[Len(G)] = h
      BY <1>3, <1>6
    <2>2. IsCursor(L, old, G, Cursor(old, G), Output(old, G))
      BY ONLY <1>6, <1>7, old \in Seq(L), CursorIs
    <2>. QED  BY <1>5, <2>1, <2>2 DEF IsCursor
  <1>9. Output(old, G) = Cut(new, 0, d)
    <2>1. PICK r, s : r = Rebuilt(old, G, Nat) /\ s = Rebuilt(old, H, Nat)
      OBVIOUS
    <2>2. r[n] = s[n]
      <3>1. n <= Len(G) /\ n <= Len(H)
        BY <1>1, <1>3, <1>6
      <3>0. PICK All : All = Nat
        OBVIOUS
      <3>2. \A k \in 1..n : k \in All <=> k \in All
        OBVIOUS
      <3>3. r = Rebuilt(old, G, All) /\ s = Rebuilt(old, H, All)
        BY <2>1, <3>0
      <3>4. /\ G \in Seq(HunksOver(L)) /\ H \in Seq(HunksOver(L)) /\ n \in Nat
            /\ InOrder(old, G) /\ InOrder(old, H)
            /\ \A k \in 1..n : G[k] = H[k]
        BY <1>2, <1>3, <1>6, <1>7
      <3>5. Agree(G, All, H, All, n)
        BY <3>1, <3>2, <3>4 DEF Agree
      <3>. QED  BY ONLY <3>3, <3>4, <3>5, old \in Seq(L), SameRebuilt
    <2>3. IsRebuilt(L, old, G, Nat, r)
      BY <1>6, <1>7, <2>1, RebuiltIs
    <2>4. PICK m, x : m = n + 1 /\ x = s[n]
      OBVIOUS
    <2>5. m \in Int /\ m \in Nat /\ m \in 1..Len(G) /\ m - 1 = n
      BY <1>3, <1>6, <2>4
    <2>6. r[m] = Emit(old, G, Nat, x, m)
      BY <2>2, <2>3, <2>4, <2>5 DEF IsRebuilt
    <2>7. r[m].out = Emitted(old, x, h, Cut(new, b, d))
      <3>1. G[m] = h /\ Piece(G[m], m, Nat) = Cut(new, b, d)
        BY <1>5, <1>6, <2>4, <2>5 DEF Piece
      <3>. QED  BY <2>5, <2>6, <3>1, EmitIs
    <2>8. x.out = out /\ x.cursor = u
      BY <1>1, <2>1, <2>4 DEF Output, Cursor
    <2>9. r[m].out = (out \o Cut(old, u, a)) \o Cut(new, b, d)
      BY <1>5, <2>7, <2>8 DEF Emitted
    <2>10. Cut(new, 0, b) \o Cut(new, b, d) = Cut(new, 0, d)
      <3>1. 0 \in Nat /\ 0 <= b
        OBVIOUS
      <3>2. Adjacent(new, 0, b, d)
        BY ONLY <3>1, new \in Seq(L), b \in Nat, d \in Nat, b <= d, d <= Len(new), CutsJoin
      <3>. QED  BY <3>2 DEF Adjacent
    <2>11. r[m].out = Cut(new, 0, d)
      BY ONLY <1>2, <2>9, <2>10
    <2>12. Output(old, G) = r[m].out
      BY <1>6, <2>1, <2>4 DEF Output
    <2>. QED  BY <2>11, <2>12
  <1>10. Output(old, G) \o Cut(old, Cursor(old, G), c) = Cut(new, 0, d)
    <2>1. Cut(old, c, c) = <<>> /\ Cut(new, 0, d) \in Seq(L)
      BY Cuts
    <2>. QED  BY <1>8, <1>9, <2>1
  <1>11. c \in 0..Len(old) /\ d \in 0..Len(new) /\ Cursor(old, G) <= c
    BY <1>8
  <1>. QED  BY <1>1, <1>6, <1>7, <1>10, <1>11 DEF Turns

-----------------------------------------------------------------------------
(* What both texts start and end with *)

(* The first n lines are the same.                                           *)
SameStart(a, b, n) ==
    /\ n \in Nat /\ n <= Len(a) /\ n <= Len(b)
    /\ \A i \in 1..n : a[i] = b[i]

LEMMA PrefixIs ==
    ASSUME NEW L, NEW a \in Seq(L), NEW b \in Seq(L)
    PROVE  SameStart(a, b, CommonPrefix(a, b))
  <1>. DEFINE T == {k \in 0..Len(a) : k = Len(a) \/ k >= Len(b) \/ a[k + 1] # b[k + 1]}
  <1>0. PICK la, lb : la = Len(a) /\ lb = Len(b) /\ la \in Nat /\ lb \in Nat
    OBVIOUS
  <1>1. la \in T /\ T \subseteq Nat
    BY <1>0
  <1>2. PICK least \in T : \A k \in T : least <= k
    <2>. HIDE DEF T
    <2>. QED  BY <1>1, Least
  <1>3. PICK m : m = CommonPrefix(a, b)
    OBVIOUS
  <1>4. m \in T /\ \A k \in T : m <= k
    <2>1. m = CHOOSE x \in T : \A y \in T : x <= y
      BY <1>3 DEF CommonPrefix, Min
    <2>. HIDE DEF T
    <2>. QED  BY <1>2, <2>1
  <1>5. m \in Nat /\ m <= la
    BY <1>0, <1>4
  <1>6. m <= lb
    <2>. SUFFICES ASSUME lb < m PROVE FALSE
      BY <1>0, <1>5
    <2>1. lb \in T
      BY <1>0, <1>5
    <2>. HIDE DEF T
    <2>. QED  BY <1>0, <1>4, <1>5, <2>1
  <1>7. ASSUME NEW i \in 1..m PROVE a[i] = b[i]
    <2>. SUFFICES ASSUME a[i] # b[i] PROVE FALSE
      OBVIOUS
    <2>1. PICK k : k = i - 1
      OBVIOUS
    <2>2. k \in 0..Len(a) /\ k + 1 = i /\ k < m /\ k \in Nat
      BY <1>0, <1>5, <2>1
    <2>3. k \in T
      BY ONLY <2>2, a[i] # b[i]
    <2>. HIDE DEF T
    <2>4. m <= k
      BY <1>4, <2>3
    <2>. QED  BY ONLY <1>5, <2>2, <2>4
  <1>. QED  BY <1>0, <1>3, <1>5, <1>6, <1>7 DEF SameStart

IsCut(L, s, a, b, x) ==
    /\ x \in Seq(L)
    /\ Len(x) = b - a
    /\ \A i \in 1..b - a : x[i] = s[a + i]

LEMMA CutIs ==
    ASSUME NEW L, NEW s \in Seq(L), NEW a \in Nat, NEW b \in Nat, a <= b, b <= Len(s),
           NEW x, x = SubSeq(s, a + 1, b)
    PROVE  IsCut(L, s, a, b, x)
  <1>1. \A i \in a + 1..b : s[i] \in L
    OBVIOUS
  <1>2. /\ x \in Seq(L)
        /\ Len(x) = IF a + 1 <= b THEN b - (a + 1) + 1 ELSE 0
        /\ \A i \in 1..b - (a + 1) + 1 : x[i] = s[a + 1 + i - 1]
    BY <1>1, SubSeqProperties
  <1>. QED  BY <1>2 DEF IsCut

(* The n lines behind the first a and behind the first b are the same.       *)
SameLines(s, a, t, b, n) ==
    /\ a + n <= Len(s) /\ b + n <= Len(t)
    /\ \A i \in 1..n : s[a + i] = t[b + i]

LEMMA SameCuts ==
    ASSUME NEW L, NEW s \in Seq(L), NEW t \in Seq(L),
           NEW a \in Nat, NEW b \in Nat, NEW n \in Nat,
           SameLines(s, a, t, b, n), NEW c, c = a + n, NEW d, d = b + n
    PROVE  Cut(s, a, c) = Cut(t, b, d)
  <1>0. /\ c \in Nat /\ a <= c /\ c <= Len(s) /\ c - a = n
        /\ d \in Nat /\ b <= d /\ d <= Len(t) /\ d - b = n
        /\ \A i \in 1..n : s[a + i] = t[b + i]
    BY DEF SameLines
  <1>1. PICK x, y : x = SubSeq(s, a + 1, c) /\ y = SubSeq(t, b + 1, d)
    OBVIOUS
  <1>2. IsCut(L, s, a, c, x)
    BY ONLY <1>0, <1>1, s \in Seq(L), a \in Nat, CutIs
  <1>3. IsCut(L, t, b, d, y)
    BY ONLY <1>0, <1>1, t \in Seq(L), b \in Nat, CutIs
  <1>4. /\ x \in Seq(L) /\ Len(x) = n /\ \A i \in 1..n : x[i] = s[a + i]
        /\ y \in Seq(L) /\ Len(y) = n /\ \A i \in 1..n : y[i] = t[b + i]
    BY ONLY <1>0, <1>2, <1>3 DEF IsCut
  <1>5. x = y
    <2>1. \A i \in 1..n : x[i] = y[i]
      BY <1>0, <1>4
    <2>. QED  BY ONLY <1>4, <2>1, SeqEqual
  <1>. QED  BY <1>1, <1>5 DEF Cut

LEMMA ReverseIs ==
    ASSUME NEW L, NEW s \in Seq(L), NEW x, x = Reverse(s)
    PROVE  /\ x \in Seq(L)
           /\ Len(x) = Len(s)
           /\ \A i \in 1..Len(s) : x[i] = s[Len(s) - i + 1]
  <1>1. PICK n : n = Len(s) /\ n \in Nat
    OBVIOUS
  <1>2. x = [i \in 1..n |-> s[n - i + 1]]
    BY <1>1 DEF Reverse
  <1>3. \A i \in 1..n : s[n - i + 1] \in L
    BY <1>1
  <1>4. x \in [1..n -> L]
    BY <1>2, <1>3
  <1>5. x \in Seq(L)
    BY <1>1, <1>4, SeqDef
  <1>6. Len(x) = n
    BY <1>1, <1>4, <1>5, LenProperties
  <1>. QED  BY <1>1, <1>2, <1>5, <1>6

(* The last n lines are the same.                                            *)
SameEnd(a, b, n) ==
    /\ n \in Nat /\ n <= Len(a) /\ n <= Len(b)
    /\ \A i \in 1..n : a[Len(a) - n + i] = b[Len(b) - n + i]

LEMMA SuffixIs ==
    ASSUME NEW L, NEW a \in Seq(L), NEW b \in Seq(L), NEW n, n = CommonSuffix(a, b)
    PROVE  SameEnd(a, b, n)
  <1>1. PICK x, y : x = Reverse(a) /\ y = Reverse(b)
    OBVIOUS
  <1>2. PICK la, lb : la = Len(a) /\ lb = Len(b) /\ la \in Nat /\ lb \in Nat
    BY LenProperties
  <1>3. /\ x \in Seq(L) /\ Len(x) = la
        /\ \A i \in 1..la : x[i] = a[la - i + 1]
    BY <1>1, <1>2, ReverseIs
  <1>4. /\ y \in Seq(L) /\ Len(y) = lb
        /\ \A i \in 1..lb : y[i] = b[lb - i + 1]
    BY <1>1, <1>2, ReverseIs
  <1>5. SameStart(x, y, n)
    BY <1>1, <1>3, <1>4, PrefixIs DEF CommonSuffix
  <1>6. n \in Nat /\ n <= la /\ n <= lb /\ \A i \in 1..n : x[i] = y[i]
    BY <1>3, <1>4, <1>5 DEF SameStart
  <1>7. ASSUME NEW i \in 1..n PROVE a[la - n + i] = b[lb - n + i]
    <2>1. PICK j : j = n - i + 1
      OBVIOUS
    <2>0. i \in Int /\ 1 <= i /\ i <= n
      BY <1>6
    <2>2. j \in 1..n /\ j \in 1..la /\ j \in 1..lb
          /\ la - j + 1 = la - n + i /\ lb - j + 1 = lb - n + i
      BY ONLY <1>2, <1>6, <2>0, <2>1
    <2>3. x[j] = y[j] /\ x[j] = a[la - j + 1] /\ y[j] = b[lb - j + 1]
      BY <1>3, <1>4, <1>6, <2>2
    <2>. QED  BY <2>2, <2>3
  <1>. QED  BY <1>2, <1>6, <1>7 DEF SameEnd

-----------------------------------------------------------------------------
(* How operations are grouped *)

Ops(L) == [kind : {"equal", "del", "ins"}, line : L]
Groups(L) == [hunks : Seq(HunksOver(L)), at : Nat, start : Nat, old : Seq(L), new : Seq(L)]
NoGroup(pre) == [hunks |-> <<>>, at |-> pre, start |-> pre, old |-> <<>>, new |-> <<>>]

LEMMA FlushType ==
    ASSUME NEW L, NEW s \in Groups(L)
    PROVE  Flush(s) \in Seq(HunksOver(L))
  <1>1. /\ s.hunks \in Seq(HunksOver(L)) /\ s.start \in Nat
        /\ s.old \in Seq(L) /\ s.new \in Seq(L)
    BY DEF Groups
  <1>2. PICK h : h = [start |-> s.start, old |-> s.old, new |-> s.new]
    OBVIOUS
  <1>3. h \in HunksOver(L)
    BY <1>1, <1>2 DEF HunksOver
  <1>4. Append(s.hunks, h) \in Seq(HunksOver(L))
    BY <1>1, <1>3, AppendProperties
  <1>. QED  BY <1>1, <1>2, <1>4 DEF Flush

IsCollect(L, s, op, x) ==
    /\ x \in Groups(L)
    /\ op.kind = "equal" =>
          /\ x.hunks = Flush(s) /\ x.at = s.at + 1 /\ x.start = s.at + 1
          /\ x.old = <<>> /\ x.new = <<>>
    /\ op.kind = "del" =>
          /\ x.hunks = s.hunks /\ x.at = s.at + 1 /\ x.start = s.start
          /\ x.old = Append(s.old, op.line) /\ x.new = s.new
    /\ op.kind = "ins" =>
          /\ x.hunks = s.hunks /\ x.at = s.at /\ x.start = s.start
          /\ x.old = s.old /\ x.new = Append(s.new, op.line)

LEMMA CollectIs ==
    ASSUME NEW L, NEW s \in Groups(L), NEW op \in Ops(L), NEW x, x = Collect(s, op)
    PROVE  IsCollect(L, s, op, x)
  <1>1. /\ s.hunks \in Seq(HunksOver(L)) /\ s.start \in Nat /\ s.at \in Nat
        /\ s.old \in Seq(L) /\ s.new \in Seq(L)
        /\ DOMAIN s = {"hunks", "at", "start", "old", "new"}
    BY DEF Groups
  <1>2. op.kind \in {"equal", "del", "ins"} /\ op.line \in L
    BY DEF Ops
  <1>3. Flush(s) \in Seq(HunksOver(L))
    BY FlushType
  <1>4. CASE op.kind = "equal"
    <2>1. x = [hunks |-> Flush(s), at |-> s.at + 1,
               start |-> s.at + 1, old |-> <<>>, new |-> <<>>]
      BY <1>4 DEF Collect
    <2>. QED  BY <1>1, <1>3, <1>4, <2>1 DEF Groups, IsCollect
  <1>5. CASE op.kind = "del"
    <2>1. PICK l : l = Append(s.old, op.line)
      OBVIOUS
    <2>2. l \in Seq(L)
      BY <1>1, <1>2, <2>1, AppendProperties
    <2>3. x = [s EXCEPT !.old = l, !.at = s.at + 1]
      BY <1>5, <2>1 DEF Collect
    <2>4. /\ x.hunks = s.hunks /\ x.at = s.at + 1 /\ x.start = s.start
          /\ x.old = l /\ x.new = s.new
      BY <1>1, <2>3
    <2>5. s.at + 1 \in Nat
      BY <1>1
    <2>6. x \in Groups(L)
      BY <1>1, <2>2, <2>3, <2>5 DEF Groups
    <2>. QED  BY <1>5, <2>1, <2>4, <2>6 DEF IsCollect
  <1>6. CASE op.kind = "ins"
    <2>1. PICK l : l = Append(s.new, op.line)
      OBVIOUS
    <2>2. l \in Seq(L)
      BY <1>1, <1>2, <2>1, AppendProperties
    <2>3. x = [s EXCEPT !.new = l]
      BY <1>6, <2>1 DEF Collect
    <2>4. /\ x.hunks = s.hunks /\ x.at = s.at /\ x.start = s.start
          /\ x.old = s.old /\ x.new = l
      BY <1>1, <2>3
    <2>5. x \in Groups(L)
      BY <1>1, <2>2, <2>3 DEF Groups
    <2>. QED  BY <1>6, <2>1, <2>4, <2>5 DEF IsCollect
  <1>. QED  BY <1>2, <1>4, <1>5, <1>6

IsGrouped(L, ops, pre, g) ==
    /\ g \in [0..Len(ops) -> Groups(L)]
    /\ g[0] = NoGroup(pre)
    /\ \A k \in 1..Len(ops) : g[k] = Collect(g[k - 1], ops[k])

LEMMA GroupedIs ==
    ASSUME NEW L, NEW ops \in Seq(Ops(L)), NEW pre \in Nat,
           NEW g, g = Grouped(ops, pre)
    PROVE  IsGrouped(L, ops, pre, g)
  <1>0. PICK n : n = Len(ops) /\ n \in Nat
    OBVIOUS
  <1>. DEFINE D == Groups(L)
              zero == NoGroup(pre)
              Good(f) == f = [k \in 0..Len(ops) |->
                                IF k = 0 THEN zero ELSE Collect(f[k - 1], ops[k])]
  <1>1. zero \in D
    BY DEF NoGroup, Groups
  <1>2. ASSUME NEW s \in D, NEW k \in 1..n PROVE Collect(s, ops[k]) \in D
    <2>1. ops[k] \in Ops(L)
      BY <1>0, ElementOfSeq
    <2>2. IsCollect(L, s, ops[k], Collect(s, ops[k]))
      BY <2>1, CollectIs
    <2>. QED  BY <2>2 DEF IsCollect
  <1>. HIDE DEF D, zero
  <1>3. PICK f : Good(f)
    <2>. DEFINE F == [p \in D \X Nat |-> IF p[2] \in 1..n THEN Collect(p[1], ops[p[2]])
                                         ELSE p[1]]
    <2>1. F \in [D \X Nat -> D]
      BY <1>2
    <2>2. PICK f \in [0..n -> D] : f[0] = zero /\ \A k \in 1..n : f[k] = F[<<f[k - 1], k>>]
      <3>1. CanRun(D, zero, F, n)
        <4>. HIDE DEF F
        <4>. QED  BY <1>0, <1>1, <2>1, Iteration
      <3>. HIDE DEF F
      <3>. QED  BY <3>1 DEF CanRun
    <2>3. ASSUME NEW k \in 1..n PROVE f[k] = Collect(f[k - 1], ops[k])
      <3>1. f[k - 1] \in D /\ k \in Nat
        BY <1>0
      <3>2. F[<<f[k - 1], k>>] = Collect(f[k - 1], ops[k])
        BY <3>1
      <3>. HIDE DEF F
      <3>. QED  BY <2>2, <3>2
    <2>4. f = [k \in 0..n |-> IF k = 0 THEN zero ELSE Collect(f[k - 1], ops[k])]
      BY <2>2, <2>3
    <2>. QED  BY <1>0, <2>4
  <1>4. Good(g)
    <2>1. g = CHOOSE h : Good(h)
      BY DEF Grouped, zero, NoGroup
    <2>. HIDE DEF Good
    <2>. QED  BY <1>3, <2>1
  <1>5. /\ g[0] = zero
        /\ \A k \in 1..n : g[k] = Collect(g[k - 1], ops[k])
        /\ DOMAIN g = 0..n
    BY <1>0, <1>4
  <1>6. \A k \in Nat : k <= n => g[k] \in D
    <2>. DEFINE T == {k \in Nat : k <= n => g[k] \in D}
    <2>1. 0 \in T
      BY <1>1, <1>5
    <2>2. ASSUME NEW k \in Nat, k \in T PROVE k + 1 \in T
      BY <1>0, <1>2, <1>5, <2>2
    <2>. HIDE DEF T
    <2>3. Nat \subseteq T
      BY <2>1, <2>2, Induction
    <2>. QED  BY <2>3 DEF T
  <1>7. g \in [0..n -> D]
    BY <1>4, <1>0, <1>6
  <1>. QED  BY <1>0, <1>5, <1>7 DEF D, zero, IsGrouped

(* What has been collected after the last operation.                         *)
Collected(ops, pre) == Grouped(ops, pre)[Len(ops)]

LEMMA CollectedNone ==
    ASSUME NEW L, NEW pre \in Nat
    PROVE  Collected(<<>>, pre) = NoGroup(pre)
  <1>1. PICK g, ops : g = Grouped(ops, pre) /\ ops = <<>>
    OBVIOUS
  <1>2. ops \in Seq(Ops(L)) /\ Len(ops) = 0
    BY <1>1
  <1>3. IsGrouped(L, ops, pre, g)
    BY <1>1, <1>2, GroupedIs
  <1>. QED  BY <1>1, <1>2, <1>3 DEF IsGrouped, Collected

LEMMA CollectedNext ==
    ASSUME NEW L, NEW pre \in Nat, NEW ops \in Seq(Ops(L)), NEW op \in Ops(L)
    PROVE  /\ Collected(ops, pre) \in Groups(L)
           /\ Collected(Append(ops, op), pre) = Collect(Collected(ops, pre), op)
  <1>1. PICK n, more : n = Len(ops) /\ n \in Nat /\ more = Append(ops, op)
    BY LenProperties
  <1>2. /\ more \in Seq(Ops(L)) /\ Len(more) = n + 1
        /\ \A k \in 1..n : more[k] = ops[k]
        /\ more[n + 1] = op
    BY <1>1, AppendProperties
  <1>3. PICK f, g : f = Grouped(ops, pre) /\ g = Grouped(more, pre)
    OBVIOUS
  <1>4. IsGrouped(L, ops, pre, f)
    BY <1>3, GroupedIs
  <1>5. IsGrouped(L, more, pre, g)
    BY <1>2, <1>3, GroupedIs
  <1>. DEFINE T == {k \in Nat : k <= n => f[k] = g[k]}
  <1>6. 0 \in T
    BY <1>4, <1>5 DEF IsGrouped
  <1>7. ASSUME NEW k \in Nat, k \in T PROVE k + 1 \in T
    <2>. SUFFICES ASSUME k + 1 <= n PROVE f[k + 1] = g[k + 1]
      OBVIOUS
    <2>1. PICK l : l = k + 1
      OBVIOUS
    <2>2. l \in 1..n /\ l \in 1..n + 1 /\ l - 1 = k /\ f[l - 1] = g[l - 1]
      BY <1>1, <1>7, <2>1
    <2>3. f[l] = Collect(f[l - 1], ops[l])
      BY <1>1, <1>4, <2>2 DEF IsGrouped
    <2>4. g[l] = Collect(g[l - 1], more[l])
      BY <1>2, <1>5, <2>2 DEF IsGrouped
    <2>5. more[l] = ops[l]
      BY <1>2, <2>2
    <2>. QED  BY <2>1, <2>2, <2>3, <2>4, <2>5
  <1>. HIDE DEF T
  <1>8. Nat \subseteq T
    BY <1>6, <1>7, Induction
  <1>9. f[n] = g[n]
    BY <1>1, <1>8 DEF T
  <1>10. PICK m : m = n + 1
    OBVIOUS
  <1>11. m \in 1..Len(more) /\ m - 1 = n /\ more[m] = op
    BY <1>1, <1>2, <1>10
  <1>12. g[m] = Collect(g[m - 1], more[m])
    BY <1>5, <1>11 DEF IsGrouped
  <1>13. f[n] \in Groups(L)
    BY <1>1, <1>4 DEF IsGrouped
  <1>. QED  BY <1>1, <1>2, <1>3, <1>9, <1>10, <1>11, <1>12, <1>13 DEF Collected

-----------------------------------------------------------------------------
(* What the hunks grouped so far do *)

(* a lines of old and b lines of new are behind: the hunks made so far turn  *)
(* the one into the other up to the lines that are being collected.          *)
Holds(L, old, new, s, a, b, e) ==
    /\ s \in Groups(L)
    /\ e \in Nat /\ a \in Nat /\ b \in Nat
    /\ Turns(L, old, new, s.hunks, s.start, e)
    /\ s.at = a
    /\ s.start <= a /\ a <= Len(old)
    /\ e <= b /\ b <= Len(new)
    /\ s.old = Cut(old, s.start, a)
    /\ s.new = Cut(new, e, b)

LEMMA CutMore ==
    ASSUME NEW L, NEW s \in Seq(L), NEW a \in Nat, NEW b \in Nat, a <= b, b < Len(s),
           NEW line, line = s[b + 1]
    PROVE  /\ Append(Cut(s, a, b), line) = Cut(s, a, b + 1)
           /\ line \in L
  <1>1. PICK c, x : c = b + 1 /\ x = Cut(s, a, b)
    OBVIOUS
  <1>2. c \in Nat /\ c <= Len(s) /\ b <= c /\ b < c
    BY <1>1
  <1>3. line \in L
    BY <1>1, <1>2
  <1>4. x \in Seq(L)
    <2>1. b <= Len(s)
      BY <1>2
    <2>. QED  BY ONLY <1>1, <2>1, s \in Seq(L), a \in Nat, b \in Nat, Cuts
  <1>5. Cut(s, b, c) = <<line>>
    <2>1. Cut(s, b, b + 1) = <<s[b + 1]>>
      BY ONLY <1>2, s \in Seq(L), b \in Nat, Cuts
    <2>. QED  BY <1>1, <2>1
  <1>6. x \o Cut(s, b, c) = Cut(s, a, c)
    <2>1. Adjacent(s, a, b, c)
      BY ONLY <1>1, <1>2, s \in Seq(L), a \in Nat, b \in Nat, a <= b, CutsJoin
    <2>. QED  BY <1>1, <2>1 DEF Adjacent
  <1>7. Append(x, line) = x \o <<line>>
    BY <1>3, <1>4, AppendIsConcat
  <1>. QED  BY <1>1, <1>3, <1>5, <1>6, <1>7

LEMMA FlushTurns ==
    ASSUME NEW L, NEW old \in Seq(L), NEW new \in Seq(L), NEW s,
           NEW a, NEW b, NEW e, Holds(L, old, new, s, a, b, e)
    PROVE  Turns(L, old, new, Flush(s), a, b)
  <1>1. PICK st : st = s.start
    OBVIOUS
  <1>2. /\ st \in Nat /\ e \in Nat /\ a \in Nat /\ b \in Nat
        /\ Turns(L, old, new, s.hunks, st, e)
        /\ st <= a /\ a <= Len(old)
        /\ e <= b /\ b <= Len(new)
    BY <1>1 DEF Holds, Groups
  <1>3. s.old = Cut(old, st, a) /\ s.new = Cut(new, e, b)
    BY <1>1 DEF Holds
  <1>4. CASE s.old = <<>> /\ s.new = <<>>
    <2>1. Len(Cut(old, st, a)) = a - st
      BY ONLY <1>2, old \in Seq(L), Cuts
    <2>2. Len(Cut(new, e, b)) = b - e
      BY ONLY <1>2, new \in Seq(L), Cuts
    <2>3. Len(Cut(old, st, a)) = 0 /\ Len(Cut(new, e, b)) = 0
      BY <1>3, <1>4
    <2>4. st = a /\ e = b
      BY <1>2, <2>1, <2>2, <2>3
    <2>. QED  BY <1>2, <1>4, <2>4 DEF Flush
  <1>5. CASE ~(s.old = <<>> /\ s.new = <<>>)
    <2>1. PICK h : h = [start |-> st, old |-> Cut(old, st, a), new |-> Cut(new, e, b)]
      OBVIOUS
    <2>2. Flush(s) = Append(s.hunks, h)
      BY <1>1, <1>3, <1>5, <2>1 DEF Flush
    <2>3. Turns(L, old, new, Append(s.hunks, h), a, b)
      BY ONLY <1>2, <2>1, old \in Seq(L), new \in Seq(L), TurnsHunk
    <2>. QED  BY <2>2, <2>3
  <1>. QED  BY <1>4, <1>5

LEMMA HoldsAtFirst ==
    ASSUME NEW L, NEW old \in Seq(L), NEW new \in Seq(L), NEW pre,
           SameStart(old, new, pre)
    PROVE  Holds(L, old, new, NoGroup(pre), pre, pre, pre)
  <1>1. pre \in Nat /\ pre <= Len(old) /\ pre <= Len(new)
    BY DEF SameStart
  <1>2. Cut(old, 0, pre) = Cut(new, 0, pre)
    <2>1. PICK z : z = 0
      OBVIOUS
    <2>2. z \in Nat /\ pre = z + pre /\ SameLines(old, z, new, z, pre)
      BY <1>1, <2>1 DEF SameStart, SameLines
    <2>3. Cut(old, z, pre) = Cut(new, z, pre)
      BY ONLY <1>1, <2>2, old \in Seq(L), new \in Seq(L), SameCuts
    <2>. QED  BY <2>1, <2>3
  <1>3. Turns(L, old, new, <<>>, pre, pre)
    BY <1>1, <1>2, TurnsNothing
  <1>4. Cut(old, pre, pre) = <<>> /\ Cut(new, pre, pre) = <<>>
    BY <1>1, Cuts
  <1>5. /\ NoGroup(pre) \in Groups(L)
        /\ NoGroup(pre).hunks = <<>> /\ NoGroup(pre).at = pre /\ NoGroup(pre).start = pre
        /\ NoGroup(pre).old = <<>> /\ NoGroup(pre).new = <<>>
    BY <1>1 DEF NoGroup, Groups
  <1>. QED  BY <1>1, <1>3, <1>4, <1>5 DEF Holds

LEMMA HoldsOnEqual ==
    ASSUME NEW L, NEW old \in Seq(L), NEW new \in Seq(L), NEW s,
           NEW a, NEW b, NEW e, Holds(L, old, new, s, a, b, e),
           a < Len(old), b < Len(new), old[a + 1] = new[b + 1],
           NEW op, op = Op("equal", old[a + 1])
    PROVE  /\ op \in Ops(L)
           /\ Holds(L, old, new, Collect(s, op), a + 1, b + 1, b + 1)
  <1>1. PICK c, d : c = a + 1 /\ d = b + 1
    OBVIOUS
  <1>2. /\ a \in Nat /\ b \in Nat /\ c \in Nat /\ d \in Nat /\ s \in Groups(L) /\ s.at = a
        /\ a <= c /\ c <= Len(old) /\ b <= d /\ d <= Len(new)
    BY <1>1 DEF Holds
  <1>3. op \in Ops(L) /\ op.kind = "equal"
    BY <1>1, <1>2 DEF Op, Ops
  <1>4. PICK x : x = Collect(s, op)
    OBVIOUS
  <1>5. /\ x \in Groups(L)
        /\ x.hunks = Flush(s) /\ x.at = c /\ x.start = c /\ x.old = <<>> /\ x.new = <<>>
    <2>1. IsCollect(L, s, op, x)
      BY ONLY <1>2, <1>3, <1>4, CollectIs
    <2>. QED  BY <1>1, <1>2, <1>3, <2>1 DEF IsCollect
  <1>6. Turns(L, old, new, Flush(s), a, b)
    BY FlushTurns
  <1>7. Cut(old, a, c) = Cut(new, b, d)
    <2>1. PICK n : n = 1
      OBVIOUS
    <2>2. n \in Nat /\ c = a + n /\ d = b + n /\ SameLines(old, a, new, b, n)
      BY <1>1, <1>2, <2>1 DEF SameLines
    <2>. QED  BY ONLY <1>2, <2>2, old \in Seq(L), new \in Seq(L), SameCuts
  <1>8. Turns(L, old, new, x.hunks, x.start, d)
    <2>1. Turns(L, old, new, Flush(s), c, d)
      BY ONLY <1>2, <1>6, <1>7, old \in Seq(L), new \in Seq(L), TurnsOn
    <2>. QED  BY <1>5, <2>1
  <1>9. Cut(old, c, c) = <<>> /\ Cut(new, d, d) = <<>>
    BY <1>2, Cuts
  <1>10. Holds(L, old, new, x, c, d, d)
    BY <1>2, <1>5, <1>8, <1>9 DEF Holds
  <1>. QED  BY <1>1, <1>3, <1>4, <1>10

LEMMA HoldsOnDel ==
    ASSUME NEW L, NEW old \in Seq(L), NEW new \in Seq(L), NEW s,
           NEW a, NEW b, NEW e, Holds(L, old, new, s, a, b, e),
           a < Len(old), NEW op, op = Op("del", old[a + 1])
    PROVE  /\ op \in Ops(L)
           /\ Holds(L, old, new, Collect(s, op), a + 1, b, e)
  <1>1. PICK line, st : line = old[a + 1] /\ st = s.start
    OBVIOUS
  <1>2. /\ a \in Nat /\ s \in Groups(L) /\ s.at = a /\ st \in Nat /\ st <= a
        /\ s.old = Cut(old, st, a)
    BY <1>1 DEF Holds, Groups
  <1>3. Append(Cut(old, st, a), line) = Cut(old, st, a + 1) /\ line \in L
    BY ONLY <1>1, <1>2, old \in Seq(L), a < Len(old), CutMore
  <1>4. op \in Ops(L) /\ op.kind = "del" /\ op.line = line
    BY <1>1, <1>3 DEF Op, Ops
  <1>5. PICK x : x = Collect(s, op)
    OBVIOUS
  <1>6. /\ x \in Groups(L) /\ x.hunks = s.hunks /\ x.at = a + 1 /\ x.start = st
        /\ x.new = s.new
        /\ x.old = Cut(old, st, a + 1)
    <2>0. IsCollect(L, s, op, x)
      BY ONLY <1>2, <1>4, <1>5, CollectIs
    <2>1. /\ x \in Groups(L) /\ x.hunks = s.hunks /\ x.at = s.at + 1 /\ x.start = s.start
          /\ x.old = Append(s.old, op.line) /\ x.new = s.new
      BY <1>4, <2>0 DEF IsCollect
    <2>. QED  BY <1>1, <1>2, <1>3, <1>4, <2>1
  <1>7. st <= a + 1 /\ a + 1 <= Len(old) /\ a + 1 \in Nat
    BY <1>2
  <1>8. /\ e \in Nat /\ b \in Nat /\ Turns(L, old, new, s.hunks, st, e)
        /\ e <= b /\ b <= Len(new) /\ s.new = Cut(new, e, b)
    BY <1>1 DEF Holds
  <1>9. Holds(L, old, new, x, a + 1, b, e)
    BY <1>6, <1>7, <1>8 DEF Holds
  <1>. QED  BY <1>4, <1>5, <1>9

LEMMA HoldsOnIns ==
    ASSUME NEW L, NEW old \in Seq(L), NEW new \in Seq(L), NEW s,
           NEW a, NEW b, NEW e, Holds(L, old, new, s, a, b, e),
           b < Len(new), NEW op, op = Op("ins", new[b + 1])
    PROVE  /\ op \in Ops(L)
           /\ Holds(L, old, new, Collect(s, op), a, b + 1, e)
  <1>1. PICK line : line = new[b + 1]
    OBVIOUS
  <1>2. /\ b \in Nat /\ s \in Groups(L) /\ e \in Nat /\ e <= b
        /\ s.new = Cut(new, e, b)
    BY DEF Holds
  <1>3. Append(Cut(new, e, b), line) = Cut(new, e, b + 1) /\ line \in L
    BY ONLY <1>1, <1>2, new \in Seq(L), b < Len(new), CutMore
  <1>4. op \in Ops(L) /\ op.kind = "ins" /\ op.line = line
    BY <1>1, <1>3 DEF Op, Ops
  <1>5. PICK x : x = Collect(s, op)
    OBVIOUS
  <1>6. /\ x \in Groups(L) /\ x.hunks = s.hunks /\ x.at = s.at /\ x.start = s.start
        /\ x.old = s.old
        /\ x.new = Cut(new, e, b + 1)
    <2>0. IsCollect(L, s, op, x)
      BY ONLY <1>2, <1>4, <1>5, CollectIs
    <2>1. /\ x \in Groups(L) /\ x.hunks = s.hunks /\ x.at = s.at /\ x.start = s.start
          /\ x.old = s.old /\ x.new = Append(s.new, op.line)
      BY <1>4, <2>0 DEF IsCollect
    <2>. QED  BY <1>1, <1>2, <1>3, <1>4, <2>1
  <1>7. e <= b + 1 /\ b + 1 <= Len(new) /\ b + 1 \in Nat
    BY <1>2
  <1>8. /\ a \in Nat /\ Turns(L, old, new, s.hunks, s.start, e) /\ s.at = a
        /\ s.start <= a /\ a <= Len(old) /\ s.old = Cut(old, s.start, a)
    BY DEF Holds
  <1>9. Holds(L, old, new, x, a, b + 1, e)
    BY <1>2, <1>6, <1>7, <1>8 DEF Holds
  <1>. QED  BY <1>4, <1>5, <1>9

-----------------------------------------------------------------------------
(* The walk through both texts *)

Walks(L, o, n) == [i : 0..Len(o), j : 0..Len(n), ops : Seq(Ops(L))]

(* What one operation does: s before and x after it.                         *)
Equals(o, n, s, x) ==
    /\ s.i < Len(o) /\ s.j < Len(n) /\ o[s.i + 1] = n[s.j + 1]
    /\ x.i = s.i + 1 /\ x.j = s.j + 1 /\ x.ops = Append(s.ops, Op("equal", o[s.i + 1]))
Deletes(o, s, x) ==
    /\ s.i < Len(o)
    /\ x.i = s.i + 1 /\ x.j = s.j /\ x.ops = Append(s.ops, Op("del", o[s.i + 1]))
Inserts(n, s, x) ==
    /\ s.j < Len(n)
    /\ x.i = s.i /\ x.j = s.j + 1 /\ x.ops = Append(s.ops, Op("ins", n[s.j + 1]))
Stays(o, n, s, x) == x = s /\ s.i = Len(o) /\ s.j = Len(n)

LEMMA AdvanceIs ==
    ASSUME NEW L, NEW o \in Seq(L), NEW n \in Seq(L), NEW t,
           NEW s \in Walks(L, o, n), NEW x, x = Advance(o, n, t, s)
    PROVE  /\ x \in Walks(L, o, n)
           /\ Equals(o, n, s, x) \/ Deletes(o, s, x) \/ Inserts(n, s, x) \/ Stays(o, n, s, x)
  <1>1. PICK lo, ln, i, j : /\ lo = Len(o) /\ lo \in Nat /\ ln = Len(n) /\ ln \in Nat
                            /\ i = s.i /\ j = s.j
    BY LenProperties
  <1>2. i \in Nat /\ j \in Nat /\ i <= lo /\ j <= ln /\ s.ops \in Seq(Ops(L))
    BY <1>1 DEF Walks
  <1>3. ASSUME i < lo, j < ln, o[i + 1] = n[j + 1],
               x = [i |-> i + 1, j |-> j + 1, ops |-> Append(s.ops, Op("equal", o[i + 1]))]
        PROVE  x \in Walks(L, o, n) /\ Equals(o, n, s, x)
    <2>1. Op("equal", o[i + 1]) \in Ops(L)
      BY <1>1, <1>2, <1>3 DEF Op, Ops
    <2>2. Append(s.ops, Op("equal", o[i + 1])) \in Seq(Ops(L))
      BY <1>2, <2>1, AppendProperties
    <2>3. i + 1 \in 0..lo /\ j + 1 \in 0..ln
      BY <1>1, <1>2, <1>3
    <2>4. x \in Walks(L, o, n)
      BY <1>1, <1>3, <2>2, <2>3 DEF Walks
    <2>. QED  BY <1>1, <1>3, <2>4 DEF Equals
  <1>4. ASSUME i < lo, x = [i |-> i + 1, j |-> j, ops |-> Append(s.ops, Op("del", o[i + 1]))]
        PROVE  x \in Walks(L, o, n) /\ Deletes(o, s, x)
    <2>1. Op("del", o[i + 1]) \in Ops(L)
      BY <1>1, <1>2, <1>4 DEF Op, Ops
    <2>2. Append(s.ops, Op("del", o[i + 1])) \in Seq(Ops(L))
      BY <1>2, <2>1, AppendProperties
    <2>3. i + 1 \in 0..lo /\ j \in 0..ln
      BY <1>1, <1>2, <1>4
    <2>4. x \in Walks(L, o, n)
      BY <1>1, <1>4, <2>2, <2>3 DEF Walks
    <2>. QED  BY <1>1, <1>4, <2>4 DEF Deletes
  <1>5. ASSUME j < ln, x = [i |-> i, j |-> j + 1, ops |-> Append(s.ops, Op("ins", n[j + 1]))]
        PROVE  x \in Walks(L, o, n) /\ Inserts(n, s, x)
    <2>1. Op("ins", n[j + 1]) \in Ops(L)
      BY <1>1, <1>2, <1>5 DEF Op, Ops
    <2>2. Append(s.ops, Op("ins", n[j + 1])) \in Seq(Ops(L))
      BY <1>2, <2>1, AppendProperties
    <2>3. i \in 0..lo /\ j + 1 \in 0..ln
      BY <1>1, <1>2, <1>5
    <2>4. x \in Walks(L, o, n)
      BY <1>1, <1>5, <2>2, <2>3 DEF Walks
    <2>. QED  BY <1>1, <1>5, <2>4 DEF Inserts
  <1>6. ASSUME x = s, i = lo, j = ln
        PROVE  x \in Walks(L, o, n) /\ Stays(o, n, s, x)
    BY <1>1, <1>6 DEF Stays
  <1>7. PICK better \in BOOLEAN :
            better <=> (j = ln \/ t[<<i + 1, j>>] >= t[<<i, j + 1>>])
    OBVIOUS
  <1>8. x = IF i < lo /\ j < ln /\ o[i + 1] = n[j + 1]
            THEN [i |-> i + 1, j |-> j + 1, ops |-> Append(s.ops, Op("equal", o[i + 1]))]
            ELSE IF i < lo /\ better
            THEN [i |-> i + 1, j |-> j, ops |-> Append(s.ops, Op("del", o[i + 1]))]
            ELSE IF j < ln
            THEN [i |-> i, j |-> j + 1, ops |-> Append(s.ops, Op("ins", n[j + 1]))]
            ELSE s
    BY <1>1, <1>7 DEF Advance
  <1>9. j = ln => better
    BY <1>7
  <1>10. CASE i < lo /\ j < ln /\ o[i + 1] = n[j + 1]
    BY <1>3, <1>8, <1>10
  <1>11. CASE ~(i < lo /\ j < ln /\ o[i + 1] = n[j + 1]) /\ i < lo /\ better
    BY <1>4, <1>8, <1>11
  <1>12. CASE ~(i < lo /\ j < ln /\ o[i + 1] = n[j + 1]) /\ ~(i < lo /\ better)
    <2>1. CASE j < ln
      BY <1>5, <1>8, <1>12, <2>1
    <2>2. CASE ~(j < ln)
      <3>1. j = ln /\ i = lo
        BY <1>1, <1>2, <1>9, <1>12, <2>2
      <3>2. x = s
        BY <1>8, <1>12, <2>2
      <3>. QED  BY <1>6, <3>1, <3>2
    <2>. QED  BY <2>1, <2>2
  <1>. QED  BY <1>10, <1>11, <1>12

IsWalk(L, o, n, w) ==
    LET t == LcsTable(o, n)
    IN /\ w \in [0..Len(o) + Len(n) -> Walks(L, o, n)]
       /\ w[0] = [i |-> 0, j |-> 0, ops |-> <<>>]
       /\ \A k \in 1..Len(o) + Len(n) : w[k] = Advance(o, n, t, w[k - 1])

LEMMA WalkIs ==
    ASSUME NEW L, NEW o \in Seq(L), NEW n \in Seq(L), NEW w, w = Walk(o, n)
    PROVE  IsWalk(L, o, n, w)
  <1>0. PICK N : N = Len(o) + Len(n) /\ N \in Nat
    BY LenProperties
  <1>. DEFINE D == Walks(L, o, n)
              zero == [i |-> 0, j |-> 0, ops |-> <<>>]
              t == LcsTable(o, n)
              Good(f) == f = [k \in 0..Len(o) + Len(n) |->
                                IF k = 0 THEN zero ELSE Advance(o, n, t, f[k - 1])]
  <1>1. zero \in D
    <2>1. 0 \in 0..Len(o) /\ 0 \in 0..Len(n)
      BY LenProperties
    <2>. QED  BY <2>1 DEF Walks
  <1>. HIDE DEF t
  <1>2. ASSUME NEW s \in D PROVE Advance(o, n, t, s) \in D
    BY AdvanceIs
  <1>. HIDE DEF D, zero
  <1>3. PICK f : Good(f)
    <2>. DEFINE F == [p \in D \X Nat |-> Advance(o, n, t, p[1])]
    <2>1. F \in [D \X Nat -> D]
      BY <1>2
    <2>2. PICK f \in [0..N -> D] : f[0] = zero /\ \A k \in 1..N : f[k] = F[<<f[k - 1], k>>]
      <3>1. CanRun(D, zero, F, N)
        <4>. HIDE DEF F
        <4>. QED  BY <1>0, <1>1, <2>1, Iteration
      <3>. HIDE DEF F
      <3>. QED  BY <3>1 DEF CanRun
    <2>3. ASSUME NEW k \in 1..N PROVE f[k] = Advance(o, n, t, f[k - 1])
      <3>1. f[k - 1] \in D /\ k \in Nat
        BY <1>0
      <3>2. F[<<f[k - 1], k>>] = Advance(o, n, t, f[k - 1])
        BY <3>1
      <3>. HIDE DEF F
      <3>. QED  BY <2>2, <3>2
    <2>4. f = [k \in 0..N |-> IF k = 0 THEN zero ELSE Advance(o, n, t, f[k - 1])]
      BY <2>2, <2>3
    <2>. QED  BY <1>0, <2>4
  <1>4. Good(w)
    <2>1. w = CHOOSE h : Good(h)
      BY DEF Walk, zero, t
    <2>. HIDE DEF Good
    <2>. QED  BY <1>3, <2>1
  <1>5. /\ w[0] = zero
        /\ \A k \in 1..N : w[k] = Advance(o, n, t, w[k - 1])
        /\ DOMAIN w = 0..N
    BY <1>0, <1>4
  <1>6. \A k \in Nat : k <= N => w[k] \in D
    <2>. DEFINE T == {k \in Nat : k <= N => w[k] \in D}
    <2>1. 0 \in T
      BY <1>1, <1>5
    <2>2. ASSUME NEW k \in Nat, k \in T PROVE k + 1 \in T
      BY <1>0, <1>2, <1>5, <2>2
    <2>. HIDE DEF T
    <2>3. Nat \subseteq T
      BY <2>1, <2>2, Induction
    <2>. QED  BY <2>3 DEF T
  <1>7. w \in [0..N -> D]
    BY <1>4, <1>0, <1>6
  <1>. QED  BY <1>0, <1>5, <1>7 DEF D, zero, t, IsWalk

-----------------------------------------------------------------------------
(* What the walk collects *)

(* o is the lines of old behind the first pre.                               *)
Within(old, pre, o) ==
    /\ pre + Len(o) <= Len(old)
    /\ \A i \in 1..Len(o) : o[i] = old[pre + i]

Walked(L, old, new, pre, s) ==
    \E e : Holds(L, old, new, Collected(s.ops, pre), pre + s.i, pre + s.j, e)

LEMMA WalkedOn ==
    ASSUME NEW L, NEW old \in Seq(L), NEW new \in Seq(L), NEW pre \in Nat,
           NEW o \in Seq(L), Within(old, pre, o),
           NEW n \in Seq(L), Within(new, pre, n),
           NEW s \in Walks(L, o, n), Walked(L, old, new, pre, s), NEW x,
           Equals(o, n, s, x) \/ Deletes(o, s, x) \/ Inserts(n, s, x) \/ Stays(o, n, s, x)
    PROVE  Walked(L, old, new, pre, x)
  <1>1. PICK e, ops, g, i, j :
          /\ ops = s.ops /\ g = Collected(ops, pre) /\ i = s.i /\ j = s.j
          /\ Holds(L, old, new, g, pre + i, pre + j, e)
    BY DEF Walked
  <1>2. /\ i \in Nat /\ j \in Nat /\ ops \in Seq(Ops(L))
        /\ i <= Len(o) /\ j <= Len(n) /\ Len(o) \in Nat /\ Len(n) \in Nat
    BY <1>1, LenProperties DEF Walks
  <1>3. PICK a, b : a = pre + i /\ b = pre + j
    OBVIOUS
  <1>4. Holds(L, old, new, g, a, b, e) /\ a \in Nat /\ b \in Nat
    <2>1. Holds(L, old, new, g, a, b, e)
      BY ONLY <1>1, <1>3
    <2>2. a \in Nat /\ b \in Nat
      BY ONLY <1>2, <1>3, pre \in Nat
    <2>. QED  BY <2>1, <2>2
  <1>5. i < Len(o) => a < Len(old) /\ old[a + 1] = o[i + 1] /\ a + 1 = pre + (i + 1)
    <2>. SUFFICES ASSUME i < Len(o)
                  PROVE  a < Len(old) /\ old[a + 1] = o[i + 1] /\ a + 1 = pre + (i + 1)
      OBVIOUS
    <2>1. PICK k : k = i + 1
      OBVIOUS
    <2>2. k \in 1..Len(o) /\ a + 1 = pre + k /\ Len(old) \in Nat
      BY <1>2, <1>3, <2>1, LenProperties
    <2>3. o[k] = old[pre + k]
      BY <2>2 DEF Within
    <2>4. a < Len(old)
      BY <1>2, <1>3, <2>2 DEF Within
    <2>. QED  BY <2>1, <2>2, <2>3, <2>4
  <1>6. j < Len(n) => b < Len(new) /\ new[b + 1] = n[j + 1] /\ b + 1 = pre + (j + 1)
    <2>. SUFFICES ASSUME j < Len(n)
                  PROVE  b < Len(new) /\ new[b + 1] = n[j + 1] /\ b + 1 = pre + (j + 1)
      OBVIOUS
    <2>1. PICK k : k = j + 1
      OBVIOUS
    <2>2. k \in 1..Len(n) /\ b + 1 = pre + k /\ Len(new) \in Nat
      BY <1>2, <1>3, <2>1, LenProperties
    <2>3. n[k] = new[pre + k]
      BY <2>2 DEF Within
    <2>4. b < Len(new)
      BY <1>2, <1>3, <2>2 DEF Within
    <2>. QED  BY <2>1, <2>2, <2>3, <2>4
  <1>7. CASE Equals(o, n, s, x)
    <2>1. PICK op : op = Op("equal", old[a + 1])
      OBVIOUS
    <2>2. /\ i < Len(o) /\ j < Len(n) /\ o[i + 1] = n[j + 1]
          /\ x.i = i + 1 /\ x.j = j + 1 /\ x.ops = Append(ops, Op("equal", o[i + 1]))
      BY <1>1, <1>7 DEF Equals
    <2>3. op \in Ops(L) /\ Holds(L, old, new, Collect(g, op), a + 1, b + 1, b + 1)
      <3>1. a < Len(old) /\ b < Len(new) /\ old[a + 1] = new[b + 1]
        BY <1>5, <1>6, <2>2
      <3>. QED  BY ONLY <1>4, <2>1, <3>1, old \in Seq(L), new \in Seq(L), HoldsOnEqual
    <2>4. Collected(x.ops, pre) = Collect(g, op)
      <3>1. x.ops = Append(ops, op)
        BY <1>5, <2>1, <2>2
      <3>. QED  BY <1>1, <1>2, <2>3, <3>1, CollectedNext
    <2>5. a + 1 = pre + x.i /\ b + 1 = pre + x.j
      BY <1>5, <1>6, <2>2
    <2>. QED  BY <2>3, <2>4, <2>5 DEF Walked
  <1>8. CASE Deletes(o, s, x)
    <2>1. PICK op : op = Op("del", old[a + 1])
      OBVIOUS
    <2>2. /\ i < Len(o)
          /\ x.i = i + 1 /\ x.j = j /\ x.ops = Append(ops, Op("del", o[i + 1]))
      BY <1>1, <1>8 DEF Deletes
    <2>3. op \in Ops(L) /\ Holds(L, old, new, Collect(g, op), a + 1, b, e)
      <3>1. a < Len(old)
        BY <1>5, <2>2
      <3>. QED  BY ONLY <1>4, <2>1, <3>1, old \in Seq(L), new \in Seq(L), HoldsOnDel
    <2>4. Collected(x.ops, pre) = Collect(g, op)
      <3>1. x.ops = Append(ops, op)
        BY <1>5, <2>1, <2>2
      <3>. QED  BY <1>1, <1>2, <2>3, <3>1, CollectedNext
    <2>5. a + 1 = pre + x.i /\ b = pre + x.j
      BY <1>3, <1>5, <2>2
    <2>. QED  BY <2>3, <2>4, <2>5 DEF Walked
  <1>9. CASE Inserts(n, s, x)
    <2>1. PICK op : op = Op("ins", new[b + 1])
      OBVIOUS
    <2>2. /\ j < Len(n)
          /\ x.i = i /\ x.j = j + 1 /\ x.ops = Append(ops, Op("ins", n[j + 1]))
      BY <1>1, <1>9 DEF Inserts
    <2>3. op \in Ops(L) /\ Holds(L, old, new, Collect(g, op), a, b + 1, e)
      <3>1. b < Len(new)
        BY <1>6, <2>2
      <3>. QED  BY ONLY <1>4, <2>1, <3>1, old \in Seq(L), new \in Seq(L), HoldsOnIns
    <2>4. Collected(x.ops, pre) = Collect(g, op)
      <3>1. x.ops = Append(ops, op)
        BY <1>6, <2>1, <2>2
      <3>. QED  BY <1>1, <1>2, <2>3, <3>1, CollectedNext
    <2>5. a = pre + x.i /\ b + 1 = pre + x.j
      BY <1>3, <1>6, <2>2
    <2>. QED  BY <2>3, <2>4, <2>5 DEF Walked
  <1>10. CASE Stays(o, n, s, x)
    BY <1>10 DEF Stays
  <1>. QED  BY <1>7, <1>8, <1>9, <1>10

(* At least k lines are behind, or all are.                                  *)
Far(o, n, i, j, k) == i + j >= k \/ (i = Len(o) /\ j = Len(n))

(* There are operations enough to go through all lines.                      *)
LEMMA WalkEnds ==
    ASSUME NEW L, NEW o \in Seq(L), NEW n \in Seq(L), NEW w, IsWalk(L, o, n, w),
           NEW N, N = Len(o) + Len(n)
    PROVE  w[N].i = Len(o) /\ w[N].j = Len(n)
  <1>1. PICK lo, ln, t :
          /\ t = LcsTable(o, n)
          /\ lo = Len(o) /\ lo \in Nat /\ ln = Len(n) /\ ln \in Nat
    BY LenProperties
  <1>2. /\ w \in [0..N -> Walks(L, o, n)]
        /\ w[0] = [i |-> 0, j |-> 0, ops |-> <<>>]
        /\ \A k \in 1..N : w[k] = Advance(o, n, t, w[k - 1])
    BY <1>1 DEF IsWalk
  <1>3. N \in Nat
    BY <1>1
  <1>. DEFINE T == {k \in Nat : k <= N => Far(o, n, w[k].i, w[k].j, k)}
  <1>4. 0 \in T
    <2>1. w[0].i = 0 /\ w[0].j = 0
      BY <1>2
    <2>2. Far(o, n, 0, 0, 0)
      BY DEF Far
    <2>. QED  BY <2>1, <2>2
  <1>5. ASSUME NEW k \in Nat, k \in T PROVE k + 1 \in T
    <2>. SUFFICES ASSUME k + 1 <= N PROVE Far(o, n, w[k + 1].i, w[k + 1].j, k + 1)
      OBVIOUS
    <2>1. PICK m, s, x : m = k + 1 /\ s = w[k] /\ x = w[m]
      OBVIOUS
    <2>2. m \in 1..N /\ m - 1 = k /\ k \in 0..N
      BY <1>3, <2>1
    <2>3. x = Advance(o, n, t, s)
      BY <1>2, <2>1, <2>2
    <2>4. s \in Walks(L, o, n)
      BY <1>2, <2>1, <2>2
    <2>5. Equals(o, n, s, x) \/ Deletes(o, s, x) \/ Inserts(n, s, x) \/ Stays(o, n, s, x)
      BY <2>3, <2>4, AdvanceIs
    <2>6. Far(o, n, s.i, s.j, k)
      BY <1>3, <1>5, <2>1, <2>2
    <2>7. s.i \in Nat /\ s.j \in Nat /\ s.i <= lo /\ s.j <= ln
      BY <1>1, <2>4 DEF Walks
    <2>8. \/ x.i = s.i + 1 /\ x.j = s.j + 1 /\ s.i < lo /\ s.j < ln
          \/ x.i = s.i + 1 /\ x.j = s.j /\ s.i < lo
          \/ x.i = s.i /\ x.j = s.j + 1 /\ s.j < ln
          \/ x.i = s.i /\ x.j = s.j /\ s.i = lo /\ s.j = ln
      BY <1>1, <2>5 DEF Equals, Deletes, Inserts, Stays
    <2>9. PICK i, j, i2, j2 : i = s.i /\ j = s.j /\ i2 = x.i /\ j2 = x.j
      OBVIOUS
    <2>10. /\ i \in Nat /\ j \in Nat /\ i <= lo /\ j <= ln
           /\ \/ i2 = i + 1 /\ j2 = j + 1 /\ i < lo /\ j < ln
              \/ i2 = i + 1 /\ j2 = j /\ i < lo
              \/ i2 = i /\ j2 = j + 1 /\ j < ln
              \/ i2 = i /\ j2 = j /\ i = lo /\ j = ln
           /\ i + j >= k \/ (i = lo /\ j = ln)
      BY <1>1, <2>6, <2>7, <2>8, <2>9 DEF Far
    <2>11. i2 + j2 >= k + 1 \/ (i2 = lo /\ j2 = ln)
      BY ONLY <1>1, <2>10, k \in Nat
    <2>. QED  BY <1>1, <2>1, <2>9, <2>11 DEF Far
  <1>. HIDE DEF T
  <1>6. Nat \subseteq T
    BY <1>4, <1>5, Induction
  <1>7. PICK s, i, j : s = w[N] /\ i = s.i /\ j = s.j
    OBVIOUS
  <1>8. Far(o, n, i, j, N)
    BY <1>3, <1>6, <1>7 DEF T
  <1>9. s \in Walks(L, o, n)
    BY <1>2, <1>3, <1>7
  <1>10. i \in Nat /\ j \in Nat /\ i <= lo /\ j <= ln
    BY <1>1, <1>7, <1>9 DEF Walks
  <1>11. i + j >= lo + ln \/ (i = lo /\ j = ln)
    BY <1>1, <1>8 DEF Far
  <1>12. i = lo /\ j = ln
    BY ONLY <1>1, <1>10, <1>11
  <1>. QED  BY <1>1, <1>7, <1>12

LEMMA MiddleHolds ==
    ASSUME NEW L, NEW old \in Seq(L), NEW new \in Seq(L), NEW pre,
           SameStart(old, new, pre),
           NEW o \in Seq(L), Within(old, pre, o),
           NEW n \in Seq(L), Within(new, pre, n)
    PROVE  \E e : Holds(L, old, new, Collected(DiffMiddle(o, n), pre),
                        pre + Len(o), pre + Len(n), e)
  <1>1. PICK w, N, t :
          w = Walk(o, n) /\ N = Len(o) + Len(n) /\ N \in Nat /\ t = LcsTable(o, n)
    BY LenProperties
  <1>2. IsWalk(L, o, n, w)
    BY <1>1, WalkIs
  <1>3. /\ w \in [0..N -> Walks(L, o, n)]
        /\ w[0] = [i |-> 0, j |-> 0, ops |-> <<>>]
        /\ \A k \in 1..N : w[k] = Advance(o, n, t, w[k - 1])
    BY <1>1, <1>2 DEF IsWalk
  <1>4. pre \in Nat
    BY DEF SameStart
  <1>. DEFINE T == {k \in Nat : k <= N => Walked(L, old, new, pre, w[k])}
  <1>5. 0 \in T
    <2>1. Holds(L, old, new, NoGroup(pre), pre, pre, pre)
      BY HoldsAtFirst
    <2>2. Collected(<<>>, pre) = NoGroup(pre)
      BY <1>4, CollectedNone
    <2>3. w[0].i = 0 /\ w[0].j = 0 /\ w[0].ops = <<>>
      BY <1>3
    <2>4. Walked(L, old, new, pre, w[0])
      BY <1>4, <2>1, <2>2, <2>3 DEF Walked
    <2>. QED  BY <2>4
  <1>6. ASSUME NEW k \in Nat, k \in T PROVE k + 1 \in T
    <2>. SUFFICES ASSUME k + 1 <= N PROVE Walked(L, old, new, pre, w[k + 1])
      OBVIOUS
    <2>1. PICK m, s, x : m = k + 1 /\ s = w[k] /\ x = w[m]
      OBVIOUS
    <2>2. m \in 1..N /\ m - 1 = k /\ k \in 0..N
      BY <1>1, <2>1
    <2>3. x = Advance(o, n, t, s)
      BY <1>3, <2>1, <2>2
    <2>4. s \in Walks(L, o, n)
      BY <1>3, <2>1, <2>2
    <2>5. Equals(o, n, s, x) \/ Deletes(o, s, x) \/ Inserts(n, s, x) \/ Stays(o, n, s, x)
      BY <2>3, <2>4, AdvanceIs
    <2>6. Walked(L, old, new, pre, s)
      BY <1>1, <1>6, <2>1, <2>2
    <2>7. Walked(L, old, new, pre, x)
      BY <1>4, <2>4, <2>5, <2>6, WalkedOn
    <2>. QED  BY <2>1, <2>7
  <1>. HIDE DEF T
  <1>7. Nat \subseteq T
    BY <1>5, <1>6, Induction
  <1>8. PICK s : s = w[N]
    OBVIOUS
  <1>9. Walked(L, old, new, pre, s)
    BY <1>1, <1>7, <1>8 DEF T
  <1>10. s.i = Len(o) /\ s.j = Len(n)
    BY <1>1, <1>2, <1>8, WalkEnds
  <1>11. DiffMiddle(o, n) = s.ops
    BY <1>1, <1>8 DEF DiffMiddle
  <1>. QED  BY <1>9, <1>10, <1>11 DEF Walked

-----------------------------------------------------------------------------
(* The hunks of two texts *)

(* Two texts are the same but for o in the one and n in the other.           *)
Differ(L, old, new, pre, o, n, suf) ==
    /\ SameStart(old, new, pre)
    /\ o \in Seq(L) /\ n \in Seq(L)
    /\ Within(old, pre, o) /\ Within(new, pre, n)
    /\ suf \in Nat
    /\ Len(old) = pre + Len(o) + suf /\ Len(new) = pre + Len(n) + suf
    /\ SameLines(old, pre + Len(o), new, pre + Len(n), suf)

(* The hunks are those of the lines in which they differ.                    *)
LEMMA MiddleIs ==
    ASSUME NEW L, NEW old \in Seq(L), NEW new \in Seq(L)
    PROVE  \E pre, o, n, suf :
              /\ Differ(L, old, new, pre, o, n, suf)
              /\ ComputeHunks(old, new) = Flush(Collected(DiffMiddle(o, n), pre))
  <1>1. PICK lo, ln : lo = Len(old) /\ ln = Len(new) /\ lo \in Nat /\ ln \in Nat
    BY LenProperties
  <1>2. PICK pre : pre = CommonPrefix(old, new)
    OBVIOUS
  <1>3. SameStart(old, new, pre) /\ pre \in Nat /\ pre <= lo /\ pre <= ln
    <2>1. SameStart(old, new, pre)
      BY <1>2, PrefixIs
    <2>. QED  BY <1>1, <2>1 DEF SameStart
  <1>4. PICK o1, n1 : o1 = SubSeq(old, pre + 1, lo) /\ n1 = SubSeq(new, pre + 1, ln)
    OBVIOUS
  <1>5. /\ o1 \in Seq(L) /\ Len(o1) = lo - pre
        /\ \A i \in 1..lo - pre : o1[i] = old[pre + i]
    <2>0. pre <= lo /\ lo <= Len(old) /\ o1 = SubSeq(old, pre + 1, lo)
      BY <1>1, <1>3, <1>4
    <2>1. IsCut(L, old, pre, lo, o1)
      BY ONLY <1>1, <1>3, <2>0, old \in Seq(L), CutIs
    <2>. QED  BY <2>1 DEF IsCut
  <1>6. /\ n1 \in Seq(L) /\ Len(n1) = ln - pre
        /\ \A i \in 1..ln - pre : n1[i] = new[pre + i]
    <2>0. pre <= ln /\ ln <= Len(new) /\ n1 = SubSeq(new, pre + 1, ln)
      BY <1>1, <1>3, <1>4
    <2>1. IsCut(L, new, pre, ln, n1)
      BY ONLY <1>1, <1>3, <2>0, new \in Seq(L), CutIs
    <2>. QED  BY <2>1 DEF IsCut
  <1>7. PICK suf : suf = CommonSuffix(o1, n1)
    OBVIOUS
  <1>8. /\ suf \in Nat /\ suf <= Len(o1) /\ suf <= Len(n1)
        /\ \A i \in 1..suf : o1[Len(o1) - suf + i] = n1[Len(n1) - suf + i]
    <2>1. SameEnd(o1, n1, suf)
      BY ONLY <1>5, <1>6, <1>7, SuffixIs
    <2>. QED  BY <2>1 DEF SameEnd
  <1>9. PICK a, b : a = lo - suf /\ b = ln - suf
    OBVIOUS
  <1>10. /\ a \in Nat /\ pre <= a /\ a <= lo /\ a + suf = lo
         /\ b \in Nat /\ pre <= b /\ b <= ln /\ b + suf = ln
    BY <1>1, <1>3, <1>5, <1>6, <1>8, <1>9
  <1>11. PICK o, n : o = SubSeq(old, pre + 1, a) /\ n = SubSeq(new, pre + 1, b)
    OBVIOUS
  <1>12. /\ o \in Seq(L) /\ Len(o) = a - pre
         /\ \A i \in 1..a - pre : o[i] = old[pre + i]
    <2>1. IsCut(L, old, pre, a, o)
      BY ONLY <1>1, <1>3, <1>10, <1>11, old \in Seq(L), CutIs
    <2>. QED  BY <2>1 DEF IsCut
  <1>13. /\ n \in Seq(L) /\ Len(n) = b - pre
         /\ \A i \in 1..b - pre : n[i] = new[pre + i]
    <2>1. IsCut(L, new, pre, b, n)
      BY ONLY <1>1, <1>3, <1>10, <1>11, new \in Seq(L), CutIs
    <2>. QED  BY <2>1 DEF IsCut
  <1>14. Within(old, pre, o) /\ Within(new, pre, n)
    BY <1>1, <1>3, <1>10, <1>12, <1>13 DEF Within
  <1>15. pre + Len(o) = a /\ pre + Len(n) = b
    BY <1>3, <1>10, <1>12, <1>13
  <1>16. SameLines(old, a, new, b, suf)
    <2>1. ASSUME NEW i \in 1..suf PROVE old[a + i] = new[b + i]
      <3>1. PICK j, k : j = Len(o1) - suf + i /\ k = Len(n1) - suf + i
        OBVIOUS
      <3>2. /\ j \in 1..lo - pre /\ pre + j = a + i
            /\ k \in 1..ln - pre /\ pre + k = b + i
        BY <1>1, <1>3, <1>5, <1>6, <1>8, <1>9, <3>1
      <3>3. o1[j] = n1[k] /\ o1[j] = old[pre + j] /\ n1[k] = new[pre + k]
        BY <1>5, <1>6, <1>8, <3>1, <3>2
      <3>. QED  BY <3>2, <3>3
    <2>. QED  BY <1>1, <1>10, <2>1 DEF SameLines
  <1>17. Differ(L, old, new, pre, o, n, suf)
    BY <1>1, <1>3, <1>8, <1>10, <1>12, <1>13, <1>14, <1>15, <1>16 DEF Differ
  <1>18. ComputeHunks(old, new) = Flush(Collected(DiffMiddle(o, n), pre))
    BY <1>1, <1>2, <1>4, <1>7, <1>9, <1>11 DEF ComputeHunks, Collected
  <1>. QED  BY <1>17, <1>18

(* The hunks of two texts turn the one into the other.                       *)
LEMMA HunksTurn ==
    ASSUME NEW L, NEW old \in Seq(L), NEW new \in Seq(L)
    PROVE  Turns(L, old, new, ComputeHunks(old, new), Len(old), Len(new))
  <1>1. PICK lo, ln : lo = Len(old) /\ ln = Len(new) /\ lo \in Nat /\ ln \in Nat
    BY LenProperties
  <1>2. PICK pre, o, n, suf :
          /\ Differ(L, old, new, pre, o, n, suf)
          /\ ComputeHunks(old, new) = Flush(Collected(DiffMiddle(o, n), pre))
    BY MiddleIs
  <1>3. PICK g, e : /\ g = Collected(DiffMiddle(o, n), pre)
                    /\ Holds(L, old, new, g, pre + Len(o), pre + Len(n), e)
    BY <1>2, MiddleHolds DEF Differ
  <1>4. PICK a, b : a = pre + Len(o) /\ b = pre + Len(n)
    OBVIOUS
  <1>5. /\ a \in Nat /\ a <= lo /\ lo = a + suf
        /\ b \in Nat /\ b <= ln /\ ln = b + suf
        /\ suf \in Nat /\ SameLines(old, a, new, b, suf)
    BY <1>1, <1>2, <1>4, LenProperties DEF Differ, SameStart
  <1>6. Turns(L, old, new, Flush(g), a, b)
    BY <1>3, <1>4, FlushTurns
  <1>7. Cut(old, a, lo) = Cut(new, b, ln)
    BY ONLY <1>1, <1>5, old \in Seq(L), new \in Seq(L), SameCuts
  <1>8. Turns(L, old, new, Flush(g), lo, ln)
    <2>1. /\ a \in Nat /\ b \in Nat /\ lo \in Nat /\ ln \in Nat
          /\ a <= lo /\ lo <= Len(old) /\ b <= ln /\ ln <= Len(new)
      BY <1>1, <1>5
    <2>. QED  BY ONLY <1>6, <1>7, <2>1, old \in Seq(L), new \in Seq(L), TurnsOn
  <1>. QED  BY <1>1, <1>2, <1>3, <1>8

LEMMA NoneKept ==
    ASSUME NEW L, NEW old \in Seq(L), NEW hunks \in Seq(HunksOver(L))
    PROVE  PatchAll(old, hunks, {}) = Join(old)
  <1>1. PICK n, p : n = Len(hunks) /\ n \in Nat /\ p = Patched(old, hunks, {})
    BY LenProperties
  <1>. DEFINE Good(g) == g = [k \in 0..Len(hunks) |->
                                IF k = 0 THEN old
                                ELSE LET m == Len(hunks) + 1 - k
                                     IN IF m \in {} THEN Patch(g[k - 1], hunks[m]) ELSE g[k - 1]]
  <1>2. PICK f : Good(f)
    <2>. DEFINE f == [k \in 0..Len(hunks) |-> old]
    <2>1. Good(f)
      BY <1>1
    <2>. QED  BY <2>1
  <1>3. Good(p)
    <2>1. p = CHOOSE g : Good(g)
      BY <1>1 DEF Patched
    <2>. HIDE DEF Good
    <2>. QED  BY <1>2, <2>1
  <1>4. p[0] = old /\ \A k \in 1..n : p[k] = p[k - 1]
    BY <1>1, <1>3
  <1>. HIDE DEF Good
  <1>. DEFINE T == {k \in Nat : k <= n => p[k] = old}
  <1>5. 0 \in T
    BY <1>4
  <1>6. ASSUME NEW k \in Nat, k \in T PROVE k + 1 \in T
    BY <1>1, <1>4, <1>6
  <1>. HIDE DEF T
  <1>7. Nat \subseteq T
    BY <1>5, <1>6, Induction
  <1>8. p[n] = old
    BY <1>1, <1>7 DEF T
  <1>. QED  BY <1>1, <1>8 DEF PatchAll

(* Only what is decided on the hunks there are matters.                      *)
LEMMA OtherNumbers ==
    ASSUME NEW L, NEW old \in Seq(L), NEW hunks \in Seq(HunksOver(L)),
           InOrder(old, hunks), NEW S1, NEW S2,
           \A k \in 1..Len(hunks) : k \in S1 <=> k \in S2
    PROVE  ApplyHunks(old, hunks, S1) = ApplyHunks(old, hunks, S2)
  <1>1. PICK n, r1, r2 : /\ n = Len(hunks) /\ n \in Nat
                         /\ r1 = Rebuilt(old, hunks, S1)
                         /\ r2 = Rebuilt(old, hunks, S2)
    BY LenProperties
  <1>2. Agree(hunks, S1, hunks, S2, n)
    BY <1>1 DEF Agree
  <1>3. r1[n] = r2[n]
    BY <1>1, <1>2, SameRebuilt
  <1>. QED  BY <1>1, <1>3 DEF ApplyHunks

(* What a choice of the hunks of two texts gives.                            *)
LEMMA HunksAre ==
    ASSUME NEW L, NEW old \in Seq(L), NEW new \in Seq(L),
           old # <<Blank>>, new # <<Blank>>,
           NEW hunks, hunks = ComputeHunks(old, new)
    PROVE  /\ hunks \in Seq(HunksOver(L))
           /\ InOrder(old, hunks)
           /\ ApplyHunks(old, hunks, 1..Len(hunks)) = new
           /\ ApplyHunks(old, hunks, {}) = old
           /\ \A S : ApplyHunks(old, hunks, S) = PatchAll(old, hunks, S)
  <1>1. Turns(L, old, new, hunks, Len(old), Len(new))
    BY HunksTurn
  <1>2. hunks \in Seq(HunksOver(L)) /\ InOrder(old, hunks)
    BY <1>1 DEF Turns
  <1>3. \A S : ApplyHunks(old, hunks, S) = PatchAll(old, hunks, S)
    BY <1>2, ApplyIsPatch
  <1>4. ApplyHunks(old, hunks, {}) = old
    <2>1. PatchAll(old, hunks, {}) = Join(old)
      BY <1>2, NoneKept
    <2>. QED  BY <1>3, <2>1 DEF Join
  <1>5. ApplyHunks(old, hunks, Nat) = new
    <2>1. Output(old, hunks) \o Cut(old, Cursor(old, hunks), Len(old)) = Cut(new, 0, Len(new))
      BY <1>1 DEF Turns
    <2>2. Cut(new, 0, Len(new)) = new
      BY SubSeqFull DEF Cut
    <2>3. ApplyHunks(old, hunks, Nat)
            = Join(Output(old, hunks) \o Cut(old, Cursor(old, hunks), Len(old)))
      BY DEF ApplyHunks, Output, Cursor, Cut
    <2>. QED  BY <2>1, <2>2, <2>3 DEF Join
  <1>6. ApplyHunks(old, hunks, 1..Len(hunks)) = ApplyHunks(old, hunks, Nat)
    <2>1. PICK S1, S2 : S1 = 1..Len(hunks) /\ S2 = Nat
      OBVIOUS
    <2>2. \A k \in 1..Len(hunks) : k \in S1 <=> k \in S2
      BY <2>1
    <2>3. ApplyHunks(old, hunks, S1) = ApplyHunks(old, hunks, S2)
      BY <1>2, <2>2, OtherNumbers
    <2>. QED  BY <2>1, <2>3
  <1>. QED  BY <1>2, <1>3, <1>4, <1>5, <1>6

-----------------------------------------------------------------------------
(* How many lines the hunks change *)

Size(h) == Len(h.old) + Len(h.new)

IsCounted(hunks, c) ==
    /\ c \in [0..Len(hunks) -> Nat]
    /\ c[0] = 0
    /\ \A k \in 1..Len(hunks) : c[k] = c[k - 1] + Size(hunks[k])

LEMMA SizeIs ==
    ASSUME NEW L, NEW hunks \in Seq(HunksOver(L)), NEW k \in 1..Len(hunks)
    PROVE  Size(hunks[k]) \in Nat
  <1>1. hunks[k] \in HunksOver(L)
    BY ElementOfSeq
  <1>2. PICK x, y : x = Len(hunks[k].old) /\ y = Len(hunks[k].new)
    OBVIOUS
  <1>3. x \in Nat /\ y \in Nat
    BY <1>1, <1>2, LenProperties DEF HunksOver
  <1>4. x + y \in Nat
    BY ONLY <1>3
  <1>. QED  BY <1>2, <1>4 DEF Size

LEMMA CountedIs ==
    ASSUME NEW L, NEW hunks \in Seq(HunksOver(L)), NEW c, c = Counted(hunks)
    PROVE  IsCounted(hunks, c)
  <1>0. PICK n : n = Len(hunks) /\ n \in Nat
    BY LenProperties
  <1>. DEFINE Step(s, k) == s + Len(hunks[k].old) + Len(hunks[k].new)
              Good(g) == g = [k \in 0..Len(hunks) |-> IF k = 0 THEN 0 ELSE Step(g[k - 1], k)]
  <1>1. ASSUME NEW s \in Nat, NEW k \in 1..n
        PROVE  Step(s, k) \in Nat /\ Step(s, k) = s + Size(hunks[k])
    <2>1. hunks[k] \in HunksOver(L)
      BY <1>0, ElementOfSeq
    <2>2. PICK x, y : x = Len(hunks[k].old) /\ y = Len(hunks[k].new)
      OBVIOUS
    <2>3. x \in Nat /\ y \in Nat
      BY <2>1, <2>2, LenProperties DEF HunksOver
    <2>4. Step(s, k) = s + x + y /\ Size(hunks[k]) = x + y
      BY <2>2 DEF Size
    <2>. HIDE DEF Step
    <2>. QED  BY <2>3, <2>4
  <1>. HIDE DEF Step
  <1>2. PICK f : Good(f)
    <2>. DEFINE F == [p \in Nat \X Nat |-> IF p[2] \in 1..n THEN Step(p[1], p[2]) ELSE p[1]]
    <2>1. F \in [Nat \X Nat -> Nat]
      BY <1>1
    <2>2. PICK f \in [0..n -> Nat] : f[0] = 0 /\ \A k \in 1..n : f[k] = F[<<f[k - 1], k>>]
      <3>1. PICK D, z : D = Nat /\ z = 0
        OBVIOUS
      <3>2. F \in [D \X Nat -> D] /\ z \in D
        BY <2>1, <3>1
      <3>3. CanRun(D, z, F, n)
        <4>. HIDE DEF F
        <4>. QED  BY <1>0, <3>2, Iteration
      <3>. HIDE DEF F
      <3>. QED  BY <3>1, <3>3 DEF CanRun
    <2>3. ASSUME NEW k \in 1..n PROVE f[k] = Step(f[k - 1], k)
      <3>1. f[k - 1] \in Nat /\ k \in Nat
        BY <1>0
      <3>2. F[<<f[k - 1], k>>] = Step(f[k - 1], k)
        BY <3>1
      <3>. HIDE DEF F
      <3>. QED  BY <2>2, <3>2
    <2>4. f = [k \in 0..n |-> IF k = 0 THEN 0 ELSE Step(f[k - 1], k)]
      BY <2>2, <2>3
    <2>. QED  BY <1>0, <2>4
  <1>3. Good(c)
    <2>1. c = CHOOSE g : Good(g)
      BY DEF Counted, Step
    <2>. HIDE DEF Good
    <2>. QED  BY <1>2, <2>1
  <1>4. /\ c[0] = 0
        /\ \A k \in 1..n : c[k] = Step(c[k - 1], k)
        /\ c = [k \in 0..n |-> c[k]]
    BY <1>0, <1>3
  <1>. HIDE DEF Good
  <1>5. \A k \in Nat : k <= n => c[k] \in Nat
    <2>. DEFINE T == {k \in Nat : k <= n => c[k] \in Nat}
    <2>1. 0 \in T
      BY <1>4
    <2>2. ASSUME NEW k \in Nat, k \in T PROVE k + 1 \in T
      <3>. SUFFICES ASSUME k + 1 <= n PROVE c[k + 1] \in Nat
        OBVIOUS
      <3>1. PICK l : l = k + 1
        OBVIOUS
      <3>2. l \in 1..n /\ l - 1 = k /\ c[k] \in Nat
        BY <1>0, <2>2, <3>1
      <3>3. c[l] = Step(c[k], l) /\ Step(c[k], l) \in Nat
        BY <1>1, <1>4, <3>2
      <3>. QED  BY <3>1, <3>3
    <2>. HIDE DEF T
    <2>3. Nat \subseteq T
      BY <2>1, <2>2, Induction
    <2>. QED  BY <2>3 DEF T
  <1>6. c \in [0..n -> Nat]
    BY <1>4, <1>0, <1>5
  <1>7. ASSUME NEW k \in 1..n PROVE c[k] = c[k - 1] + Size(hunks[k])
    <2>1. c[k - 1] \in Nat
      BY <1>0, <1>5
    <2>. QED  BY <1>1, <1>4, <2>1
  <1>. QED  BY <1>0, <1>4, <1>6, <1>7 DEF IsCounted

LEMMA ChangesType ==
    ASSUME NEW L, NEW H \in Seq(HunksOver(L))
    PROVE  Changes(H) \in Nat
  <1>1. PICK n, c : n = Len(H) /\ n \in Nat /\ c = Counted(H)
    BY LenProperties
  <1>2. IsCounted(H, c)
    BY <1>1, CountedIs
  <1>. QED  BY <1>1, <1>2 DEF Changes, IsCounted

LEMMA ChangesMore ==
    ASSUME NEW L, NEW H \in Seq(HunksOver(L)), NEW h \in HunksOver(L)
    PROVE  Changes(Append(H, h)) = Changes(H) + Size(h)
  <1>1. PICK n, G, c, d : /\ n = Len(H) /\ n \in Nat /\ G = Append(H, h)
                          /\ c = Counted(H) /\ d = Counted(G)
    BY LenProperties
  <1>2. /\ G \in Seq(HunksOver(L)) /\ Len(G) = n + 1 /\ G[n + 1] = h
        /\ \A k \in 1..n : G[k] = H[k]
    BY <1>1, AppendProperties
  <1>3. IsCounted(H, c) /\ IsCounted(G, d)
    BY <1>1, <1>2, CountedIs
  <1>. DEFINE T == {k \in Nat : k <= n => c[k] = d[k]}
  <1>4. 0 \in T
    BY <1>3 DEF IsCounted
  <1>5. ASSUME NEW k \in Nat, k \in T PROVE k + 1 \in T
    <2>. SUFFICES ASSUME k + 1 <= n PROVE c[k + 1] = d[k + 1]
      OBVIOUS
    <2>1. PICK l : l = k + 1
      OBVIOUS
    <2>2. l \in 1..n /\ l \in 1..n + 1 /\ l - 1 = k /\ c[l - 1] = d[l - 1]
      BY <1>1, <1>5, <2>1
    <2>3. c[l] = c[l - 1] + Size(H[l])
      BY <1>1, <1>3, <2>2 DEF IsCounted
    <2>4. d[l] = d[l - 1] + Size(G[l])
      BY <1>2, <1>3, <2>2 DEF IsCounted
    <2>5. G[l] = H[l]
      BY <1>2, <2>2
    <2>. QED  BY <2>1, <2>2, <2>3, <2>4, <2>5
  <1>. HIDE DEF T
  <1>6. Nat \subseteq T
    BY <1>4, <1>5, Induction
  <1>7. c[n] = d[n] /\ c[n] \in Nat
    BY <1>1, <1>3, <1>6 DEF T, IsCounted
  <1>8. PICK m : m = n + 1
    OBVIOUS
  <1>9. m \in 1..Len(G) /\ m - 1 = n /\ G[m] = h
    BY <1>1, <1>2, <1>8
  <1>10. d[m] = d[m - 1] + Size(G[m])
    BY <1>3, <1>9 DEF IsCounted
  <1>. QED  BY <1>1, <1>2, <1>7, <1>8, <1>9, <1>10 DEF Changes

LEMMA NoChanges ==
    ASSUME NEW L
    PROVE  Changes(<<>>) = 0
  <1>1. PICK H, c : H = <<>> /\ c = Counted(H)
    OBVIOUS
  <1>2. H \in Seq(HunksOver(L)) /\ Len(H) = 0
    BY <1>1
  <1>3. IsCounted(H, c)
    BY <1>1, <1>2, CountedIs
  <1>. QED  BY <1>1, <1>2, <1>3 DEF Changes, IsCounted

(* The changes collected so far. *)
Cost(g) == Changes(g.hunks) + Len(g.old) + Len(g.new)

LEMMA CostIs ==
    ASSUME NEW L, NEW g \in Groups(L)
    PROVE  Cost(g) \in Nat /\ Changes(Flush(g)) = Cost(g)
  <1>1. /\ g.hunks \in Seq(HunksOver(L)) /\ g.start \in Nat
        /\ g.old \in Seq(L) /\ g.new \in Seq(L)
    BY DEF Groups
  <1>2. PICK h : h = [start |-> g.start, old |-> g.old, new |-> g.new]
    OBVIOUS
  <1>3. h \in HunksOver(L) /\ Size(h) = Len(g.old) + Len(g.new)
    BY <1>1, <1>2 DEF HunksOver, Size
  <1>4. /\ Changes(g.hunks) \in Nat
        /\ Changes(Append(g.hunks, h)) = Changes(g.hunks) + Size(h)
    BY <1>1, <1>3, ChangesMore, ChangesType
  <1>5. PICK x, y, z : x = Len(g.old) /\ y = Len(g.new) /\ z = Changes(g.hunks)
    OBVIOUS
  <1>6. x \in Nat /\ y \in Nat /\ z \in Nat
    BY <1>1, <1>4, <1>5, LenProperties
  <1>7. Cost(g) = z + x + y
    BY <1>5 DEF Cost
  <1>8. CASE g.old = <<>> /\ g.new = <<>>
    <2>1. x = 0 /\ y = 0
      BY <1>5, <1>8
    <2>2. Flush(g) = g.hunks
      BY <1>8 DEF Flush
    <2>. QED  BY <1>5, <1>6, <1>7, <2>1, <2>2
  <1>9. CASE ~(g.old = <<>> /\ g.new = <<>>)
    <2>1. Flush(g) = Append(g.hunks, h)
      BY <1>2, <1>9 DEF Flush
    <2>2. Changes(Flush(g)) = z + (x + y)
      BY <1>3, <1>4, <1>5, <2>1
    <2>3. z + (x + y) = z + x + y /\ z + x + y \in Nat
      BY ONLY <1>6
    <2>. QED  BY ONLY <1>7, <2>2, <2>3
  <1>. QED  BY <1>8, <1>9

LEMMA CollectCost ==
    ASSUME NEW L, NEW g \in Groups(L), NEW op \in Ops(L), NEW x, x = Collect(g, op)
    PROVE  /\ x \in Groups(L) /\ Cost(x) \in Nat
           /\ op.kind = "equal" => Cost(x) = Cost(g)
           /\ op.kind # "equal" => Cost(x) = Cost(g) + 1
  <1>0. IsCollect(L, g, op, x)
    BY CollectIs
  <1>1. x \in Groups(L)
    BY <1>0 DEF IsCollect
  <1>2. Cost(g) \in Nat /\ Cost(x) \in Nat /\ Changes(Flush(g)) = Cost(g)
    BY <1>1, CostIs
  <1>3. CASE op.kind = "equal"
    <2>1. x.hunks = Flush(g) /\ x.old = <<>> /\ x.new = <<>>
      BY <1>0, <1>3 DEF IsCollect
    <2>2. Len(x.old) = 0 /\ Len(x.new) = 0
      BY <2>1
    <2>3. Cost(x) = Cost(g) + 0 + 0
      BY <1>2, <2>1, <2>2 DEF Cost
    <2>. QED  BY <1>1, <1>2, <1>3, <2>3
  <1>7. /\ g.hunks \in Seq(HunksOver(L)) /\ g.old \in Seq(L) /\ g.new \in Seq(L)
        /\ op.line \in L
    BY DEF Groups, Ops
  <1>4. CASE op.kind = "del"
    <2>1. x.hunks = g.hunks /\ x.old = Append(g.old, op.line) /\ x.new = g.new
      BY <1>0, <1>4 DEF IsCollect
    <2>2. Len(x.old) = Len(g.old) + 1
      BY <2>1, <1>7, AppendProperties
    <2>3. PICK a, b, c : a = Changes(g.hunks) /\ b = Len(g.old) /\ c = Len(g.new)
      OBVIOUS
    <2>4. a \in Nat /\ b \in Nat /\ c \in Nat
      BY <1>7, <2>3, ChangesType, LenProperties
    <2>5. Cost(g) = a + b + c /\ Cost(x) = a + (b + 1) + c
      BY <2>1, <2>2, <2>3 DEF Cost
    <2>6. a + (b + 1) + c = a + b + c + 1
      BY ONLY <2>4
    <2>. QED  BY <1>1, <1>2, <1>4, <2>5, <2>6
  <1>5. CASE op.kind = "ins"
    <2>1. x.hunks = g.hunks /\ x.new = Append(g.new, op.line) /\ x.old = g.old
      BY <1>0, <1>5 DEF IsCollect
    <2>2. Len(x.new) = Len(g.new) + 1
      BY <2>1, <1>7, AppendProperties
    <2>3. PICK a, b, c : a = Changes(g.hunks) /\ b = Len(g.old) /\ c = Len(g.new)
      OBVIOUS
    <2>4. a \in Nat /\ b \in Nat /\ c \in Nat
      BY <1>7, <2>3, ChangesType, LenProperties
    <2>5. Cost(g) = a + b + c /\ Cost(x) = a + b + (c + 1)
      BY <2>1, <2>2, <2>3 DEF Cost
    <2>6. a + b + (c + 1) = a + b + c + 1
      BY ONLY <2>4
    <2>. QED  BY <1>1, <1>2, <1>5, <2>5, <2>6
  <1>6. op.kind \in {"equal", "del", "ins"}
    BY DEF Ops
  <1>. QED  BY <1>3, <1>4, <1>5, <1>6

-----------------------------------------------------------------------------
(* Matchings of the lines of two texts *)

InOneOrder(M) == \A p, q \in M : p[1] < q[1] <=> p[2] < q[2]

(* Matchings between the lines at the places A of the one and B of the other. *)
Matched(old, new, A, B) ==
    {M \in SUBSET (A \X B) : InOneOrder(M) /\ \A p \in M : old[p[1]] = new[p[2]]}

(* m is the most lines that can be matched. *)
Most(old, new, A, B, m) ==
    /\ m \in Nat
    /\ \E M \in Matched(old, new, A, B) : Cardinality(M) = m
    /\ \A M \in Matched(old, new, A, B) : Cardinality(M) <= m

Places(A, B) == A \subseteq Nat /\ B \subseteq Nat /\ IsFiniteSet(A) /\ IsFiniteSet(B)

LEMMA MatchedIsFinite ==
    ASSUME NEW old, NEW new, NEW A, NEW B, Places(A, B),
           NEW M \in Matched(old, new, A, B)
    PROVE  IsFiniteSet(M) /\ Cardinality(M) \in Nat
  <1>1. IsFiniteSet(A \X B)
    BY FS_Product DEF Places
  <1>2. M \in SUBSET (A \X B)
    BY DEF Matched
  <1>3. IsFiniteSet(M)
    BY ONLY <1>1, <1>2, FS_Subset
  <1>. QED  BY <1>3, FS_CardinalityType

LEMMA MostNone ==
    ASSUME NEW old, NEW new, NEW A, NEW B, A = {} \/ B = {}
    PROVE  Most(old, new, A, B, 0)
  <1>1. {} \in Matched(old, new, A, B)
    BY DEF Matched, InOneOrder
  <1>2. ASSUME NEW M \in Matched(old, new, A, B) PROVE M = {}
    BY DEF Matched
  <1>3. Cardinality({}) = 0
    BY FS_EmptySet
  <1>. QED  BY <1>1, <1>2, <1>3 DEF Most

(* x and y come first, or last. *)
IsCorner(A, B, x, y) ==
    /\ x \in A /\ y \in B
    /\ \/ (\A k \in A : x <= k) /\ (\A k \in B : y <= k)
       \/ (\A k \in A : k <= x) /\ (\A k \in B : k <= y)

(* A matching has one pair at most at a corner. *)
LEMMA OneAtCorner ==
    ASSUME NEW old, NEW new, NEW A, NEW B, Places(A, B),
           NEW x, NEW y, IsCorner(A, B, x, y),
           NEW M \in Matched(old, new, A, B),
           NEW p \in M, p[1] = x \/ p[2] = y, NEW q \in M, q[1] = x \/ q[2] = y
    PROVE  p = q
  <1>1. /\ p \in A \X B /\ q \in A \X B
        /\ p[1] < q[1] <=> p[2] < q[2]
        /\ q[1] < p[1] <=> q[2] < p[2]
    BY DEF Matched, InOneOrder
  <1>2. PICK p1, p2, q1, q2 : p1 = p[1] /\ p2 = p[2] /\ q1 = q[1] /\ q2 = q[2]
    OBVIOUS
  <1>3. p = <<p1, p2>> /\ q = <<q1, q2>>
    BY <1>1, <1>2
  <1>4. p1 \in A /\ q1 \in A /\ p2 \in B /\ q2 \in B
    BY <1>1, <1>2
  <1>5. p1 \in Nat /\ q1 \in Nat /\ p2 \in Nat /\ q2 \in Nat /\ x \in Nat /\ y \in Nat
    BY <1>4 DEF Places, IsCorner
  <1>6. \/ x <= p1 /\ x <= q1 /\ y <= p2 /\ y <= q2
        \/ p1 <= x /\ q1 <= x /\ p2 <= y /\ q2 <= y
    BY <1>4 DEF IsCorner
  <1>7. /\ p1 < q1 <=> p2 < q2
        /\ q1 < p1 <=> q2 < p2
        /\ p1 = x \/ p2 = y
        /\ q1 = x \/ q2 = y
    BY <1>1, <1>2
  <1>8. p1 = q1 /\ p2 = q2
    BY ONLY <1>5, <1>6, <1>7
  <1>. QED  BY <1>3, <1>8

(* The same line at a corner can always be matched. *)
LEMMA MostCorner ==
    ASSUME NEW old, NEW new, NEW A, NEW B, Places(A, B),
           NEW x, NEW y, IsCorner(A, B, x, y), old[x] = new[y],
           NEW A1, A1 = A \ {x}, NEW B1, B1 = B \ {y},
           NEW m, Most(old, new, A1, B1, m)
    PROVE  Most(old, new, A, B, m + 1)
  <1>0. Places(A1, B1) /\ m \in Nat /\ x \in A /\ y \in B /\ x \in Nat /\ y \in Nat
    BY FS_Subset DEF Places, Most, IsCorner
  <1>1. \E M \in Matched(old, new, A, B) : Cardinality(M) = m + 1
    <2>1. PICK K \in Matched(old, new, A1, B1) : Cardinality(K) = m
      BY DEF Most
    <2>2. PICK c : c = <<x, y>>
      OBVIOUS
    <2>3. PICK M : M = K \cup {c}
      OBVIOUS
    <2>4. /\ K \subseteq A1 \X B1 /\ InOneOrder(K)
          /\ \A p \in K : old[p[1]] = new[p[2]]
      BY DEF Matched
    <2>5. c \notin K /\ c[1] = x /\ c[2] = y /\ c \in A \X B
      BY <1>0, <2>2, <2>4
    <2>6. Cardinality(M) = m + 1
      BY <1>0, <2>1, <2>3, <2>5, MatchedIsFinite, FS_AddElement
    <2>7. M \in SUBSET (A \X B)
      BY <2>3, <2>4, <2>5
    <2>8. \A p \in M : old[p[1]] = new[p[2]]
      BY <2>3, <2>4, <2>5
    <2>9. InOneOrder(M)
      <3>1. ASSUME NEW p \in K PROVE p[1] < x <=> p[2] < y
        <4>1. PICK u, v : u = p[1] /\ v = p[2]
          OBVIOUS
        <4>2. u \in A /\ v \in B /\ u # x /\ v # y
          BY <2>4, <4>1
        <4>3. u \in Nat /\ v \in Nat
          BY <4>2 DEF Places
        <4>4. (x <= u /\ y <= v) \/ (u <= x /\ v <= y)
          BY <4>2 DEF IsCorner
        <4>5. u < x <=> v < y
          BY ONLY <1>0, <4>2, <4>3, <4>4
        <4>. QED  BY <4>1, <4>5
      <3>2. ASSUME NEW p \in K PROVE x < p[1] <=> y < p[2]
        <4>1. PICK u, v : u = p[1] /\ v = p[2]
          OBVIOUS
        <4>2. u \in A /\ v \in B /\ u # x /\ v # y
          BY <2>4, <4>1
        <4>3. u \in Nat /\ v \in Nat
          BY <4>2 DEF Places
        <4>4. (x <= u /\ y <= v) \/ (u <= x /\ v <= y)
          BY <4>2 DEF IsCorner
        <4>5. x < u <=> y < v
          BY ONLY <1>0, <4>2, <4>3, <4>4
        <4>. QED  BY <4>1, <4>5
      <3>3. ~(x < x) /\ ~(y < y)
        BY <1>0
      <3>. SUFFICES ASSUME NEW p \in M, NEW q \in M
                    PROVE  p[1] < q[1] <=> p[2] < q[2]
        BY DEF InOneOrder
      <3>4. CASE p \in K /\ q \in K
        BY <2>4, <3>4 DEF InOneOrder
      <3>5. CASE p \in K /\ q = c
        BY <2>5, <3>1, <3>5
      <3>6. CASE p = c /\ q \in K
        BY <2>5, <3>2, <3>6
      <3>7. CASE p = c /\ q = c
        BY <2>5, <3>3, <3>7
      <3>. QED  BY <2>3, <3>4, <3>5, <3>6, <3>7
    <2>10. M \in Matched(old, new, A, B)
      BY <2>7, <2>8, <2>9 DEF Matched
    <2>. QED  BY <2>6, <2>10
  <1>2. ASSUME NEW M \in Matched(old, new, A, B)
        PROVE  Cardinality(M) <= m + 1
    <2>1. IsFiniteSet(M) /\ Cardinality(M) \in Nat
      BY MatchedIsFinite
    <2>2. /\ M \subseteq A \X B /\ InOneOrder(M)
          /\ \A p \in M : old[p[1]] = new[p[2]]
      BY DEF Matched
    <2>3. ASSUME NEW K, K \subseteq M, \A p \in K : p[1] # x /\ p[2] # y
          PROVE  Cardinality(K) <= m
      <3>1. K \in SUBSET (A1 \X B1)
        BY <2>2, <2>3
      <3>2. InOneOrder(K) /\ \A p \in K : old[p[1]] = new[p[2]]
        BY <2>2, <2>3 DEF InOneOrder
      <3>3. K \in Matched(old, new, A1, B1)
        BY <3>1, <3>2 DEF Matched
      <3>. QED  BY <3>3 DEF Most
    <2>4. CASE \A p \in M : p[1] # x /\ p[2] # y
      <3>1. Cardinality(M) <= m
        BY <2>3, <2>4
      <3>. QED  BY ONLY <1>0, <2>1, <3>1
    <2>5. CASE \E p \in M : p[1] = x \/ p[2] = y
      <3>1. PICK p \in M : p[1] = x \/ p[2] = y
        BY <2>5
      <3>2. PICK K : K = M \ {p}
        OBVIOUS
      <3>3. ASSUME NEW q \in K PROVE q[1] # x /\ q[2] # y
        <4>. SUFFICES ASSUME q[1] = x \/ q[2] = y PROVE FALSE
          OBVIOUS
        <4>1. q \in M /\ q # p
          BY <3>2
        <4>2. p = q
          BY <3>1, <4>1, OneAtCorner
        <4>. QED  BY <4>1, <4>2
      <3>4. Cardinality(K) <= m
        BY <2>3, <3>2, <3>3
      <3>5. Cardinality(K) = Cardinality(M) - 1
        BY <2>1, <3>1, <3>2, FS_RemoveElement
      <3>. QED  BY ONLY <1>0, <2>1, <3>4, <3>5
    <2>. QED  BY <2>4, <2>5
  <1>. QED  BY <1>0, <1>1, <1>2 DEF Most

(* Where the lines at a corner differ, one of them is not matched. *)
LEMMA MostEither ==
    ASSUME NEW old, NEW new, NEW A, NEW B, Places(A, B),
           NEW x, NEW y, IsCorner(A, B, x, y), old[x] # new[y],
           NEW A1, A1 = A \ {x}, NEW B1, B1 = B \ {y},
           NEW d, Most(old, new, A1, B, d), NEW r, Most(old, new, A, B1, r)
    PROVE  Most(old, new, A, B, IF d >= r THEN d ELSE r)
  <1>1. d \in Nat /\ r \in Nat
    BY DEF Most
  <1>2. PICK m : m = IF d >= r THEN d ELSE r
    OBVIOUS
  <1>3. m \in Nat /\ d <= m /\ r <= m /\ (m = d \/ m = r)
    BY <1>1, <1>2
  <1>4. /\ Matched(old, new, A1, B) \subseteq Matched(old, new, A, B)
        /\ Matched(old, new, A, B1) \subseteq Matched(old, new, A, B)
    <2>1. A1 \X B \subseteq A \X B /\ A \X B1 \subseteq A \X B
      OBVIOUS
    <2>. QED  BY <2>1 DEF Matched
  <1>5. \E M \in Matched(old, new, A, B) : Cardinality(M) = m
    <2>1. \E M \in Matched(old, new, A1, B) : Cardinality(M) = d
      BY DEF Most
    <2>2. \E M \in Matched(old, new, A, B1) : Cardinality(M) = r
      BY DEF Most
    <2>. QED  BY <1>3, <1>4, <2>1, <2>2
  <1>6. ASSUME NEW M \in Matched(old, new, A, B)
        PROVE  Cardinality(M) <= m
    <2>1. Cardinality(M) \in Nat
      BY MatchedIsFinite
    <2>2. /\ M \subseteq A \X B /\ InOneOrder(M)
          /\ \A p \in M : old[p[1]] = new[p[2]]
      BY DEF Matched
    <2>3. CASE \A p \in M : p[1] # x
      <3>1. M \in SUBSET (A1 \X B)
        BY <2>2, <2>3
      <3>2. M \in Matched(old, new, A1, B)
        BY <2>2, <3>1 DEF Matched
      <3>3. Cardinality(M) <= d
        BY <3>2 DEF Most
      <3>. QED  BY ONLY <1>1, <1>3, <2>1, <3>3
    <2>4. CASE \A p \in M : p[2] # y
      <3>1. M \in SUBSET (A \X B1)
        BY <2>2, <2>4
      <3>2. M \in Matched(old, new, A, B1)
        BY <2>2, <3>1 DEF Matched
      <3>3. Cardinality(M) <= r
        BY <3>2 DEF Most
      <3>. QED  BY ONLY <1>1, <1>3, <2>1, <3>3
    <2>5. ASSUME NEW p \in M, p[1] = x, NEW q \in M, q[2] = y
          PROVE  FALSE
      <3>1. p = q
        BY <2>5, OneAtCorner
      <3>2. old[p[1]] = new[p[2]]
        BY <2>2
      <3>. QED  BY <2>5, <3>1, <3>2
    <2>. QED  BY <2>3, <2>4, <2>5
  <1>. QED  BY <1>2, <1>3, <1>5, <1>6 DEF Most

LEMMA MostIsOne ==
    ASSUME NEW old, NEW new, NEW A, NEW B, NEW m, NEW k,
           Most(old, new, A, B, m), Most(old, new, A, B, k)
    PROVE  m = k
  <1>1. m \in Nat /\ k \in Nat /\ m <= k /\ k <= m
    BY DEF Most
  <1>. QED  BY <1>1

-----------------------------------------------------------------------------
(* The lines behind a place in both texts *)

(* What lies behind i lines of o and j lines of n, in the texts these are in. *)
Behind(pre, o, i) == pre + i + 1..pre + Len(o)

BestBehind(old, new, pre, o, n, i, j, m) ==
    Most(old, new, Behind(pre, o, i), Behind(pre, n, j), m)

(* One line more. *)
IsBehind(pre, o, i, A) ==
    /\ pre + i + 1 \in A
    /\ \A k \in A : pre + i + 1 <= k
    /\ Behind(pre, o, i + 1) = A \ {pre + i + 1}

LEMMA BehindIs ==
    ASSUME NEW L, NEW o \in Seq(L), NEW pre \in Nat, NEW i \in Nat, i < Len(o),
           NEW A, A = Behind(pre, o, i)
    PROVE  IsBehind(pre, o, i, A)
  <1>1. PICK lo : lo = Len(o) /\ lo \in Nat
    BY LenProperties
  <1>2. PICK a, b : a = pre + i + 1 /\ b = pre + lo
    OBVIOUS
  <1>3. a \in Nat /\ b \in Nat /\ a <= b /\ pre + (i + 1) + 1 = a + 1
    BY <1>1, <1>2
  <1>4. A = a..b /\ Behind(pre, o, i + 1) = a + 1..b
    BY <1>1, <1>2, <1>3 DEF Behind
  <1>5. a + 1..b = (a..b) \ {a} /\ a \in a..b /\ \A k \in a..b : a <= k
    BY ONLY <1>3
  <1>. QED  BY <1>2, <1>4, <1>5 DEF IsBehind

LEMMA BehindPlaces ==
    ASSUME NEW L, NEW o \in Seq(L), NEW n \in Seq(L), NEW pre \in Nat,
           NEW i \in Nat, NEW j \in Nat
    PROVE  Places(Behind(pre, o, i), Behind(pre, n, j))
  <1>1. PICK a, b, c, d : a = pre + i + 1 /\ b = pre + Len(o) /\ c = pre + j + 1 /\ d = pre + Len(n)
    OBVIOUS
  <1>2. a \in Nat /\ b \in Nat /\ c \in Nat /\ d \in Nat
    BY <1>1, LenProperties
  <1>3. IsFiniteSet(a..b) /\ IsFiniteSet(c..d)
    BY <1>2, FS_Interval
  <1>4. a..b \subseteq Nat /\ c..d \subseteq Nat
    BY ONLY <1>2
  <1>. QED  BY <1>1, <1>3, <1>4 DEF Behind, Places

LEMMA NothingBehind ==
    ASSUME NEW L, NEW o \in Seq(L), NEW n \in Seq(L), NEW old, NEW new, NEW pre \in Nat,
           NEW i \in 0..Len(o), NEW j \in 0..Len(n), i = Len(o) \/ j = Len(n)
    PROVE  BestBehind(old, new, pre, o, n, i, j, 0)
  <1>1. Behind(pre, o, i) = {} \/ Behind(pre, n, j) = {}
    BY LenProperties DEF Behind
  <1>. QED  BY <1>1, MostNone DEF BestBehind

(* The first lines behind are the same. *)
LEMMA SameBehind ==
    ASSUME NEW L, NEW old \in Seq(L), NEW new \in Seq(L), NEW pre \in Nat,
           NEW o \in Seq(L), Within(old, pre, o),
           NEW n \in Seq(L), Within(new, pre, n),
           NEW i \in Nat, i < Len(o), NEW j \in Nat, j < Len(n), o[i + 1] = n[j + 1],
           NEW m, BestBehind(old, new, pre, o, n, i + 1, j + 1, m)
    PROVE  BestBehind(old, new, pre, o, n, i, j, m + 1)
  <1>1. PICK A, B, x, y, A1, B1 :
          /\ A = Behind(pre, o, i) /\ B = Behind(pre, n, j)
          /\ x = pre + i + 1 /\ y = pre + j + 1
          /\ A1 = Behind(pre, o, i + 1) /\ B1 = Behind(pre, n, j + 1)
    OBVIOUS
  <1>2. /\ x \in A /\ (\A k \in A : x <= k) /\ A1 = A \ {x}
        /\ y \in B /\ (\A k \in B : y <= k) /\ B1 = B \ {y}
    <2>1. IsBehind(pre, o, i, A) /\ IsBehind(pre, n, j, B)
      BY <1>1, BehindIs
    <2>. QED  BY <1>1, <2>1 DEF IsBehind
  <1>3. Places(A, B) /\ IsCorner(A, B, x, y)
    BY <1>1, <1>2, BehindPlaces DEF IsCorner
  <1>4. old[x] = new[y]
    <2>1. PICK u, v : u = i + 1 /\ v = j + 1
      OBVIOUS
    <2>2. u \in 1..Len(o) /\ v \in 1..Len(n) /\ pre + u = x /\ pre + v = y
      BY <1>1, <2>1, LenProperties
    <2>3. o[u] = old[pre + u] /\ n[v] = new[pre + v]
      BY <2>2 DEF Within
    <2>. QED  BY <2>1, <2>2, <2>3
  <1>5. Most(old, new, A1, B1, m)
    BY <1>1 DEF BestBehind
  <1>6. Most(old, new, A, B, m + 1)
    BY ONLY <1>2, <1>3, <1>4, <1>5, MostCorner
  <1>. QED  BY <1>1, <1>6 DEF BestBehind

(* The first lines behind differ. *)
LEMMA OtherBehind ==
    ASSUME NEW L, NEW old \in Seq(L), NEW new \in Seq(L), NEW pre \in Nat,
           NEW o \in Seq(L), Within(old, pre, o),
           NEW n \in Seq(L), Within(new, pre, n),
           NEW i \in Nat, i < Len(o), NEW j \in Nat, j < Len(n), o[i + 1] # n[j + 1],
           NEW d, BestBehind(old, new, pre, o, n, i + 1, j, d),
           NEW r, BestBehind(old, new, pre, o, n, i, j + 1, r)
    PROVE  BestBehind(old, new, pre, o, n, i, j, IF d >= r THEN d ELSE r)
  <1>1. PICK A, B, x, y, A1, B1 :
          /\ A = Behind(pre, o, i) /\ B = Behind(pre, n, j)
          /\ x = pre + i + 1 /\ y = pre + j + 1
          /\ A1 = Behind(pre, o, i + 1) /\ B1 = Behind(pre, n, j + 1)
    OBVIOUS
  <1>2. /\ x \in A /\ (\A k \in A : x <= k) /\ A1 = A \ {x}
        /\ y \in B /\ (\A k \in B : y <= k) /\ B1 = B \ {y}
    <2>1. IsBehind(pre, o, i, A) /\ IsBehind(pre, n, j, B)
      BY <1>1, BehindIs
    <2>. QED  BY <1>1, <2>1 DEF IsBehind
  <1>3. Places(A, B) /\ IsCorner(A, B, x, y)
    BY <1>1, <1>2, BehindPlaces DEF IsCorner
  <1>4. old[x] # new[y]
    <2>1. PICK u, v : u = i + 1 /\ v = j + 1
      OBVIOUS
    <2>2. u \in 1..Len(o) /\ v \in 1..Len(n) /\ pre + u = x /\ pre + v = y
      BY <1>1, <2>1, LenProperties
    <2>3. o[u] = old[pre + u] /\ n[v] = new[pre + v]
      BY <2>2 DEF Within
    <2>. QED  BY <2>1, <2>2, <2>3
  <1>5. Most(old, new, A1, B, d) /\ Most(old, new, A, B1, r)
    BY <1>1 DEF BestBehind
  <1>6. PICK m : m = IF d >= r THEN d ELSE r
    OBVIOUS
  <1>7. Most(old, new, A, B, m)
    BY ONLY <1>2, <1>3, <1>4, <1>5, <1>6, MostEither
  <1>. QED  BY <1>1, <1>6, <1>7 DEF BestBehind

-----------------------------------------------------------------------------
(* The table *)

(* What holds at the ends, and wherever it holds behind, holds everywhere.    *)
LEMMA FromTheEnds ==
    ASSUME NEW lo \in Nat, NEW ln \in Nat, NEW G,
           \A i \in 0..lo, j \in 0..ln : i = lo \/ j = ln => <<i, j>> \in G,
           \A i \in 0..lo, j \in 0..ln :
                i < lo /\ j < ln /\ <<i + 1, j + 1>> \in G
                  /\ <<i + 1, j>> \in G /\ <<i, j + 1>> \in G => <<i, j>> \in G
    PROVE  \A i \in 0..lo, j \in 0..ln : <<i, j>> \in G
  <1>. DEFINE T == {k \in Nat : \A i \in 0..lo, j \in 0..ln :
                        (lo - i) + (ln - j) <= k => <<i, j>> \in G}
  <1>1. 0 \in T
    <2>. SUFFICES ASSUME NEW i \in 0..lo, NEW j \in 0..ln, (lo - i) + (ln - j) <= 0
                  PROVE  <<i, j>> \in G
      OBVIOUS
    <2>1. i = lo
      OBVIOUS
    <2>. QED  BY <2>1
  <1>2. ASSUME NEW k \in Nat, k \in T PROVE k + 1 \in T
    <2>. SUFFICES ASSUME NEW i \in 0..lo, NEW j \in 0..ln, (lo - i) + (ln - j) <= k + 1
                  PROVE  <<i, j>> \in G
      OBVIOUS
    <2>1. CASE i = lo \/ j = ln
      BY <2>1
    <2>2. CASE i < lo /\ j < ln
      <3>1. PICK x, y : x = i + 1 /\ y = j + 1
        OBVIOUS
      <3>2. /\ x \in 0..lo /\ y \in 0..ln
            /\ (lo - x) + (ln - y) <= k /\ (lo - x) + (ln - j) <= k
            /\ (lo - i) + (ln - y) <= k
        BY <2>2, <3>1
      <3>3. <<x, y>> \in G /\ <<x, j>> \in G /\ <<i, y>> \in G
        BY <1>2, <3>2
      <3>. QED  BY <2>2, <3>1, <3>3
    <2>. QED  BY <2>1, <2>2
  <1>. HIDE DEF T
  <1>3. Nat \subseteq T
    BY <1>1, <1>2, Induction
  <1>. SUFFICES ASSUME NEW i \in 0..lo, NEW j \in 0..ln PROVE <<i, j>> \in G
    OBVIOUS
  <1>4. PICK k : k = (lo - i) + (ln - j)
    OBVIOUS
  <1>5. k \in Nat /\ (lo - i) + (ln - j) <= k
    BY <1>4
  <1>. QED  BY <1>3, <1>5 DEF T

(* Every entry of the table is computed from those behind it. *)
IsTable(o, n, t) ==
    \A i \in 0..Len(o), j \in 0..Len(n) :
        /\ i = Len(o) \/ j = Len(n) => t[<<i, j>>] = 0
        /\ i < Len(o) /\ j < Len(n) =>
              t[<<i, j>>] = IF o[i + 1] = n[j + 1] THEN t[<<i + 1, j + 1>>] + 1
                            ELSE IF t[<<i + 1, j>>] >= t[<<i, j + 1>>]
                            THEN t[<<i + 1, j>>] ELSE t[<<i, j + 1>>]

(* The entries are the most lines that can be matched behind. *)
IsBest(old, new, pre, o, n, t) ==
    \A i \in 0..Len(o), j \in 0..Len(n) : BestBehind(old, new, pre, o, n, i, j, t[<<i, j>>])

(* A table that is computed so is best. *)
LEMMA TableIsBest ==
    ASSUME NEW L, NEW old \in Seq(L), NEW new \in Seq(L), NEW pre \in Nat,
           NEW o \in Seq(L), Within(old, pre, o),
           NEW n \in Seq(L), Within(new, pre, n),
           NEW t, IsTable(o, n, t)
    PROVE  IsBest(old, new, pre, o, n, t)
  <1>1. PICK lo, ln : lo = Len(o) /\ ln = Len(n) /\ lo \in Nat /\ ln \in Nat
    BY LenProperties
  <1>. DEFINE B(i, j) == BestBehind(old, new, pre, o, n, i, j, t[<<i, j>>])
              G == {p \in (0..lo) \X (0..ln) : B(p[1], p[2])}
  <1>. HIDE DEF B
  <1>0. \A i \in 0..lo, j \in 0..ln : <<i, j>> \in G <=> B(i, j)
    OBVIOUS
  <1>. HIDE DEF G
  <1>2. ASSUME NEW i \in 0..lo, NEW j \in 0..ln, i = lo \/ j = ln
        PROVE  <<i, j>> \in G
    <2>1. t[<<i, j>>] = 0
      BY <1>1, <1>2 DEF IsTable
    <2>2. BestBehind(old, new, pre, o, n, i, j, 0)
      BY <1>1, <1>2, NothingBehind
    <2>. QED  BY <1>0, <2>1, <2>2 DEF B
  <1>3. ASSUME NEW i \in 0..lo, NEW j \in 0..ln, i < lo, j < ln,
               <<i + 1, j + 1>> \in G, <<i + 1, j>> \in G, <<i, j + 1>> \in G
        PROVE  <<i, j>> \in G
    <2>1. PICK x, y : x = i + 1 /\ y = j + 1
      OBVIOUS
    <2>2. x \in 0..lo /\ y \in 0..ln /\ i \in Nat /\ j \in Nat
      BY <1>1, <1>3, <2>1
    <2>3. B(x, y) /\ B(x, j) /\ B(i, y)
      BY <1>0, <1>3, <2>1, <2>2
    <2>4. PICK b, d, r : b = t[<<x, y>>] /\ d = t[<<x, j>>] /\ r = t[<<i, y>>]
      OBVIOUS
    <2>5. /\ BestBehind(old, new, pre, o, n, i + 1, j + 1, b)
          /\ BestBehind(old, new, pre, o, n, i + 1, j, d)
          /\ BestBehind(old, new, pre, o, n, i, j + 1, r)
      BY <2>1, <2>3, <2>4 DEF B
    <2>6. t[<<i, j>>] = IF o[i + 1] = n[j + 1] THEN b + 1
                        ELSE IF d >= r THEN d ELSE r
      BY <1>1, <1>3, <2>1, <2>4 DEF IsTable
    <2>7. CASE o[i + 1] = n[j + 1]
      <3>1. BestBehind(old, new, pre, o, n, i, j, b + 1)
        BY <1>1, <1>3, <2>2, <2>5, <2>7, SameBehind
      <3>. QED  BY <1>0, <2>6, <2>7, <3>1 DEF B
    <2>8. CASE o[i + 1] # n[j + 1]
      <3>1. BestBehind(old, new, pre, o, n, i, j, IF d >= r THEN d ELSE r)
        BY <1>1, <1>3, <2>2, <2>5, <2>8, OtherBehind
      <3>. QED  BY <1>0, <2>6, <2>8, <3>1 DEF B
    <2>. QED  BY <2>7, <2>8
  <1>4. \A i \in 0..lo, j \in 0..ln : <<i, j>> \in G
    BY <1>1, <1>2, <1>3, FromTheEnds
  <1>. QED  BY <1>0, <1>1, <1>4 DEF IsBest, B

(* The algorithm's table is one. *)
LEMMA LcsTableIs ==
    ASSUME NEW L, NEW o \in Seq(L), NEW n \in Seq(L)
    PROVE  IsTable(o, n, LcsTable(o, n))
  <1>0. PICK pre, lo, ln : /\ pre = 0 /\ pre \in Nat
                           /\ lo = Len(o) /\ lo \in Nat /\ ln = Len(n) /\ ln \in Nat
    BY LenProperties
  <1>. DEFINE P == (0..Len(o)) \X (0..Len(n))
              B(i, j, m) == BestBehind(o, n, pre, o, n, i, j, m)
              Entry(f, i, j) ==
                  IF i = Len(o) \/ j = Len(n) THEN 0
                  ELSE IF o[i + 1] = n[j + 1] THEN f[<<i + 1, j + 1>>] + 1
                  ELSE IF f[<<i + 1, j>>] >= f[<<i, j + 1>>]
                  THEN f[<<i + 1, j>>] ELSE f[<<i, j + 1>>]
              Good(f) == f = [p \in P |-> Entry(f, p[1], p[2])]
  <1>. HIDE DEF B
  <1>1. Within(o, pre, o) /\ Within(n, pre, n)
    BY <1>0 DEF Within
  <1>2. ASSUME NEW i \in 0..lo, NEW j \in 0..ln, i = lo \/ j = ln
        PROVE  B(i, j, 0)
    BY <1>0, <1>2, NothingBehind DEF B
  <1>3. ASSUME NEW i \in 0..lo, NEW j \in 0..ln, i < lo, j < ln, o[i + 1] = n[j + 1],
               NEW m, B(i + 1, j + 1, m)
        PROVE  B(i, j, m + 1)
    <2>1. i \in Nat /\ j \in Nat /\ i < Len(o) /\ j < Len(n)
      BY <1>0, <1>3
    <2>2. BestBehind(o, n, pre, o, n, i + 1, j + 1, m)
      BY <1>3 DEF B
    <2>3. BestBehind(o, n, pre, o, n, i, j, m + 1)
      BY ONLY <1>0, <1>1, <1>3, <2>1, <2>2, o \in Seq(L), n \in Seq(L), SameBehind
    <2>. QED  BY <2>3 DEF B
  <1>4. ASSUME NEW i \in 0..lo, NEW j \in 0..ln, i < lo, j < ln, o[i + 1] # n[j + 1],
               NEW d, B(i + 1, j, d), NEW r, B(i, j + 1, r)
        PROVE  B(i, j, IF d >= r THEN d ELSE r)
    <2>1. i \in Nat /\ j \in Nat /\ i < Len(o) /\ j < Len(n)
      BY <1>0, <1>4
    <2>2. BestBehind(o, n, pre, o, n, i + 1, j, d) /\ BestBehind(o, n, pre, o, n, i, j + 1, r)
      BY <1>4 DEF B
    <2>3. BestBehind(o, n, pre, o, n, i, j, IF d >= r THEN d ELSE r)
      BY ONLY <1>0, <1>1, <1>4, <2>1, <2>2, o \in Seq(L), n \in Seq(L), OtherBehind
    <2>. QED  BY <2>3 DEF B
  <1>5. ASSUME NEW i, NEW j, NEW m, NEW k, B(i, j, m), B(i, j, k) PROVE m = k
    BY <1>5, MostIsOne DEF B, BestBehind
  <1>6. \A i \in 0..lo, j \in 0..ln : \E m : B(i, j, m)
    <2>. DEFINE G == {p \in (0..lo) \X (0..ln) : \E m : B(p[1], p[2], m)}
    <2>0. \A i \in 0..lo, j \in 0..ln : <<i, j>> \in G <=> \E m : B(i, j, m)
      OBVIOUS
    <2>. HIDE DEF G
    <2>1. ASSUME NEW i \in 0..lo, NEW j \in 0..ln, i = lo \/ j = ln
          PROVE  <<i, j>> \in G
      BY <1>2, <2>0, <2>1
    <2>2. ASSUME NEW i \in 0..lo, NEW j \in 0..ln, i < lo, j < ln,
                 <<i + 1, j + 1>> \in G, <<i + 1, j>> \in G, <<i, j + 1>> \in G
          PROVE  <<i, j>> \in G
      <3>0. i + 1 \in 0..lo /\ j + 1 \in 0..ln
        BY <1>0, <2>2
      <3>1. PICK b, d, r : B(i + 1, j + 1, b) /\ B(i + 1, j, d) /\ B(i, j + 1, r)
        BY <2>0, <2>2, <3>0
      <3>2. CASE o[i + 1] = n[j + 1]
        BY <1>3, <2>0, <2>2, <3>1, <3>2
      <3>3. CASE o[i + 1] # n[j + 1]
        BY <1>4, <2>0, <2>2, <3>1, <3>3
      <3>. QED  BY <3>2, <3>3
    <2>3. \A i \in 0..lo, j \in 0..ln : <<i, j>> \in G
      BY <1>0, <2>1, <2>2, FromTheEnds
    <2>. QED  BY <2>0, <2>3
  <1>7. PICK f : Good(f)
    <2>. DEFINE f == [p \in P |-> CHOOSE m : B(p[1], p[2], m)]
    <2>1. \A i \in 0..lo, j \in 0..ln : B(i, j, f[<<i, j>>])
      <3>. SUFFICES ASSUME NEW i \in 0..lo, NEW j \in 0..ln PROVE B(i, j, f[<<i, j>>])
        OBVIOUS
      <3>1. f[<<i, j>>] = CHOOSE m : B(i, j, m)
        BY <1>0
      <3>2. \E m : B(i, j, m)
        BY <1>6
      <3>. QED  BY <3>1, <3>2
    <2>2. f = [p \in P |-> f[p]]
      OBVIOUS
    <2>. HIDE DEF f
    <2>3. \A i \in 0..lo, j \in 0..ln : f[<<i, j>>] = Entry(f, i, j)
      <3>. SUFFICES ASSUME NEW i \in 0..lo, NEW j \in 0..ln
                    PROVE  f[<<i, j>>] = Entry(f, i, j)
        OBVIOUS
      <3>1. B(i, j, f[<<i, j>>])
        BY <2>1
      <3>2. CASE i = lo \/ j = ln
        <4>1. f[<<i, j>>] = 0
          BY <1>2, <1>5, <3>1, <3>2
        <4>. QED  BY <1>0, <3>2, <4>1
      <3>3. CASE i < lo /\ j < ln
        <4>0. i + 1 \in 0..lo /\ j + 1 \in 0..ln
          BY <1>0, <3>3
        <4>1. PICK b, d, r : b = f[<<i + 1, j + 1>>] /\ d = f[<<i + 1, j>>] /\ r = f[<<i, j + 1>>]
          OBVIOUS
        <4>2. B(i + 1, j + 1, b) /\ B(i + 1, j, d) /\ B(i, j + 1, r)
          BY <2>1, <4>0, <4>1
        <4>3. Entry(f, i, j) = IF o[i + 1] = n[j + 1] THEN b + 1 ELSE IF d >= r THEN d ELSE r
          BY <1>0, <3>3, <4>1
        <4>4. CASE o[i + 1] = n[j + 1]
          <5>1. B(i, j, b + 1)
            BY <1>3, <3>3, <4>2, <4>4
          <5>2. f[<<i, j>>] = b + 1
            BY <1>5, <3>1, <5>1
          <5>. QED  BY <4>3, <4>4, <5>2
        <4>5. CASE o[i + 1] # n[j + 1]
          <5>1. B(i, j, IF d >= r THEN d ELSE r)
            BY <1>4, <3>3, <4>2, <4>5
          <5>2. f[<<i, j>>] = IF d >= r THEN d ELSE r
            BY <1>5, <3>1, <5>1
          <5>. QED  BY <4>3, <4>5, <5>2
        <4>. QED  BY <4>4, <4>5
      <3>. QED  BY <1>0, <3>2, <3>3
    <2>. HIDE DEF Entry
    <2>4. \A p \in P : f[p] = Entry(f, p[1], p[2])
      BY <1>0, <2>3
    <2>5. f = [p \in P |-> Entry(f, p[1], p[2])]
      BY <2>2, <2>4
    <2>. QED  BY <2>5 DEF Good
  <1>8. PICK t : t = LcsTable(o, n)
    OBVIOUS
  <1>9. Good(t)
    <2>1. t = CHOOSE h : Good(h)
      BY <1>8 DEF LcsTable
    <2>. HIDE DEF Good
    <2>. QED  BY <1>7, <2>1
  <1>10. \A i \in 0..Len(o), j \in 0..Len(n) : t[<<i, j>>] = Entry(t, i, j)
    <2>. HIDE DEF Entry
    <2>1. \A p \in P : t[p] = Entry(t, p[1], p[2])
      BY <1>9 DEF Good
    <2>. QED  BY <2>1
  <1>11. IsTable(o, n, t)
    <2>1. ASSUME NEW i \in 0..Len(o), NEW j \in 0..Len(n)
          PROVE  /\ i = Len(o) \/ j = Len(n) => t[<<i, j>>] = 0
                 /\ i < Len(o) /\ j < Len(n) =>
                      t[<<i, j>>] = IF o[i + 1] = n[j + 1] THEN t[<<i + 1, j + 1>>] + 1
                                    ELSE IF t[<<i + 1, j>>] >= t[<<i, j + 1>>]
                                    THEN t[<<i + 1, j>>] ELSE t[<<i, j + 1>>]
      <3>1. t[<<i, j>>] = Entry(t, i, j)
        BY <1>10
      <3>2. i < Len(o) => i # Len(o)
        BY <1>0
      <3>3. j < Len(n) => j # Len(n)
        BY <1>0
      <3>. QED  BY <3>1, <3>2, <3>3
    <2>. QED  BY <2>1 DEF IsTable
  <1>. QED  BY <1>8, <1>11

-----------------------------------------------------------------------------
(* The walk follows the table *)

(* An operation keeps to the best there is: only an equal line counts.        *)
Follows(o, n, t, s, x) ==
    \/ Equals(o, n, s, x) /\ t[<<s.i, s.j>>] = t[<<x.i, x.j>>] + 1
    \/ Deletes(o, s, x) /\ t[<<s.i, s.j>>] = t[<<x.i, x.j>>]
    \/ Inserts(n, s, x) /\ t[<<s.i, s.j>>] = t[<<x.i, x.j>>]
    \/ Stays(o, n, s, x)

LEMMA AdvanceFollows ==
    ASSUME NEW L, NEW o \in Seq(L), NEW n \in Seq(L), NEW t, IsTable(o, n, t),
           NEW s \in Walks(L, o, n), NEW x, x = Advance(o, n, t, s)
    PROVE  Follows(o, n, t, s, x)
  <1>1. PICK lo, ln, i, j : /\ lo = Len(o) /\ lo \in Nat /\ ln = Len(n) /\ ln \in Nat
                            /\ i = s.i /\ j = s.j
    BY LenProperties
  <1>2. i \in Nat /\ j \in Nat /\ i <= lo /\ j <= ln
    BY <1>1 DEF Walks
  <1>3. PICK here, both, down, right :
          /\ here = t[<<i, j>>] /\ both = t[<<i + 1, j + 1>>]
          /\ down = t[<<i + 1, j>>] /\ right = t[<<i, j + 1>>]
    OBVIOUS
  <1>4. i < lo /\ j < ln =>
            here = IF o[i + 1] = n[j + 1] THEN both + 1 ELSE IF down >= right THEN down ELSE right
    <2>1. i \in 0..Len(o) /\ j \in 0..Len(n)
      BY <1>1, <1>2
    <2>. QED  BY <1>1, <1>3, <2>1 DEF IsTable
  <1>5. i = lo \/ j = ln => here = 0
    <2>1. i \in 0..Len(o) /\ j \in 0..Len(n)
      BY <1>1, <1>2
    <2>. QED  BY <1>1, <1>3, <2>1 DEF IsTable
  <1>6. i < lo /\ j = ln => down = 0
    <2>1. i < lo => i + 1 \in 0..Len(o) /\ j \in 0..Len(n)
      BY <1>1, <1>2
    <2>. QED  BY <1>1, <1>3, <2>1 DEF IsTable
  <1>7. i = lo /\ j < ln => right = 0
    <2>1. j < ln => i \in 0..Len(o) /\ j + 1 \in 0..Len(n)
      BY <1>1, <1>2
    <2>. QED  BY <1>1, <1>3, <2>1 DEF IsTable
  <1>8. PICK better \in BOOLEAN : better <=> down >= right
    OBVIOUS
  <1>9. x = IF i < lo /\ j < ln /\ o[i + 1] = n[j + 1]
            THEN [i |-> i + 1, j |-> j + 1, ops |-> Append(s.ops, Op("equal", o[i + 1]))]
            ELSE IF i < lo /\ (j = ln \/ better)
            THEN [i |-> i + 1, j |-> j, ops |-> Append(s.ops, Op("del", o[i + 1]))]
            ELSE IF j < ln
            THEN [i |-> i, j |-> j + 1, ops |-> Append(s.ops, Op("ins", n[j + 1]))]
            ELSE s
    BY <1>1, <1>3, <1>8 DEF Advance
  <1>10. CASE i < lo /\ j < ln /\ o[i + 1] = n[j + 1]
    <2>1. x = [i |-> i + 1, j |-> j + 1, ops |-> Append(s.ops, Op("equal", o[i + 1]))]
      BY <1>9, <1>10
    <2>2. here = both + 1
      BY <1>4, <1>10
    <2>. QED  BY <1>1, <1>3, <1>10, <2>1, <2>2 DEF Follows, Equals
  <1>11. CASE ~(i < lo /\ j < ln /\ o[i + 1] = n[j + 1]) /\ i < lo /\ (j = ln \/ better)
    <2>1. x = [i |-> i + 1, j |-> j, ops |-> Append(s.ops, Op("del", o[i + 1]))]
      BY <1>9, <1>11
    <2>2. here = down
      BY <1>2, <1>1, <1>4, <1>5, <1>6, <1>8, <1>11
    <2>. QED  BY <1>1, <1>3, <1>11, <2>1, <2>2 DEF Follows, Deletes
  <1>12. CASE /\ ~(i < lo /\ j < ln /\ o[i + 1] = n[j + 1])
              /\ ~(i < lo /\ (j = ln \/ better)) /\ j < ln
    <2>1. x = [i |-> i, j |-> j + 1, ops |-> Append(s.ops, Op("ins", n[j + 1]))]
      BY <1>9, <1>12
    <2>2. here = right
      BY <1>2, <1>1, <1>4, <1>5, <1>7, <1>8, <1>12
    <2>. QED  BY <1>1, <1>3, <1>12, <2>1, <2>2 DEF Follows, Inserts
  <1>13. CASE ~(i < lo /\ (j = ln \/ better)) /\ ~(j < ln)
    <2>1. i = lo /\ j = ln
      BY <1>1, <1>2, <1>13
    <2>2. x = s
      BY <1>9, <1>13
    <2>. QED  BY <1>1, <2>1, <2>2 DEF Follows, Stays
  <1>. QED  BY <1>10, <1>11, <1>12, <1>13

(* What has been collected and what is still to match account for the lines   *)
(* that are behind.                                                           *)
Paid(pre, t, s) ==
    Cost(Collected(s.ops, pre)) + t[<<0, 0>>] + t[<<0, 0>>]
        = s.i + s.j + t[<<s.i, s.j>>] + t[<<s.i, s.j>>]

LEMMA PaidOn ==
    ASSUME NEW L, NEW pre \in Nat, NEW o \in Seq(L), NEW n \in Seq(L), NEW t,
           \A i \in 0..Len(o), j \in 0..Len(n) : t[<<i, j>>] \in Nat,
           NEW s \in Walks(L, o, n), NEW x \in Walks(L, o, n),
           Follows(o, n, t, s, x), Paid(pre, t, s)
    PROVE  Paid(pre, t, x)
  <1>1. PICK i, j, i2, j2, ops, g :
          /\ i = s.i /\ j = s.j /\ i2 = x.i /\ j2 = x.j
          /\ ops = s.ops /\ g = Collected(ops, pre)
    OBVIOUS
  <1>2. /\ i \in 0..Len(o) /\ j \in 0..Len(n) /\ i2 \in 0..Len(o) /\ j2 \in 0..Len(n)
        /\ 0 \in 0..Len(o) /\ 0 \in 0..Len(n)
        /\ ops \in Seq(Ops(L))
    BY <1>1, LenProperties DEF Walks
  <1>3. PICK top, here, there, before, after :
          /\ top = t[<<0, 0>>] /\ here = t[<<i, j>>] /\ there = t[<<i2, j2>>]
          /\ before = Cost(g) /\ after = Cost(Collected(x.ops, pre))
    OBVIOUS
  <1>4. top \in Nat /\ here \in Nat /\ there \in Nat
    BY <1>2, <1>3
  <1>5. before + top + top = i + j + here + here
    BY <1>1, <1>3 DEF Paid
  <1>6. ASSUME NEW op \in Ops(L), x.ops = Append(ops, op)
        PROVE  /\ before \in Nat /\ after \in Nat
               /\ op.kind = "equal" => after = before
               /\ op.kind # "equal" => after = before + 1
    <2>1. g \in Groups(L) /\ Collected(x.ops, pre) = Collect(g, op)
      BY <1>1, <1>2, <1>6, CollectedNext
    <2>2. before \in Nat
      BY <1>3, <2>1, CostIs
    <2>3. PICK y : y = Collected(x.ops, pre)
      OBVIOUS
    <2>4. /\ Cost(y) \in Nat
          /\ op.kind = "equal" => Cost(y) = Cost(g)
          /\ op.kind # "equal" => Cost(y) = Cost(g) + 1
      BY ONLY <1>6, <2>1, <2>3, CollectCost
    <2>. QED  BY <1>3, <2>2, <2>3, <2>4
  <1>7. ASSUME NEW kind \in {"equal", "del", "ins"}, NEW line \in L
        PROVE  Op(kind, line) \in Ops(L) /\ Op(kind, line).kind = kind
    BY DEF Op, Ops
  <1>8. (i < Len(o) => o[i + 1] \in L) /\ (j < Len(n) => n[j + 1] \in L)
    BY <1>2, LenProperties
  <1>9. CASE Equals(o, n, s, x) /\ here = there + 1
    <2>1. /\ i < Len(o) /\ i2 = i + 1 /\ j2 = j + 1
          /\ x.ops = Append(ops, Op("equal", o[i + 1]))
      BY <1>1, <1>9 DEF Equals
    <2>2. before \in Nat /\ after = before
      BY <1>6, <1>7, <1>8, <2>1
    <2>3. after + top + top = i2 + j2 + there + there
      BY ONLY <1>2, <1>4, <1>5, <1>9, <2>1, <2>2
    <2>. QED  BY <1>1, <1>3, <2>3 DEF Paid
  <1>10. CASE Deletes(o, s, x) /\ here = there
    <2>1. /\ i < Len(o) /\ i2 = i + 1 /\ j2 = j
          /\ x.ops = Append(ops, Op("del", o[i + 1]))
      BY <1>1, <1>10 DEF Deletes
    <2>2. before \in Nat /\ after = before + 1
      BY <1>6, <1>7, <1>8, <2>1
    <2>3. after + top + top = i2 + j2 + there + there
      BY ONLY <1>2, <1>4, <1>5, <1>10, <2>1, <2>2
    <2>. QED  BY <1>1, <1>3, <2>3 DEF Paid
  <1>11. CASE Inserts(n, s, x) /\ here = there
    <2>1. /\ j < Len(n) /\ i2 = i /\ j2 = j + 1
          /\ x.ops = Append(ops, Op("ins", n[j + 1]))
      BY <1>1, <1>11 DEF Inserts
    <2>2. before \in Nat /\ after = before + 1
      BY <1>6, <1>7, <1>8, <2>1
    <2>3. after + top + top = i2 + j2 + there + there
      BY ONLY <1>2, <1>4, <1>5, <1>11, <2>1, <2>2
    <2>. QED  BY <1>1, <1>3, <2>3 DEF Paid
  <1>12. CASE Stays(o, n, s, x)
    BY <1>12 DEF Stays
  <1>. QED  BY <1>1, <1>3, <1>9, <1>10, <1>11, <1>12 DEF Follows

(* The operations delete and insert the lines that the best matching leaves.  *)
LEMMA MiddleCost ==
    ASSUME NEW L, NEW old \in Seq(L), NEW new \in Seq(L), NEW pre \in Nat,
           NEW o \in Seq(L), Within(old, pre, o),
           NEW n \in Seq(L), Within(new, pre, n)
    PROVE  \E m \in Nat :
              /\ BestBehind(old, new, pre, o, n, 0, 0, m)
              /\ Cost(Collected(DiffMiddle(o, n), pre)) + m + m = Len(o) + Len(n)
  <1>0. PICK lo, ln : lo = Len(o) /\ lo \in Nat /\ ln = Len(n) /\ ln \in Nat
    BY LenProperties
  <1>1. PICK w, N, t :
          /\ w = Walk(o, n) /\ N = Len(o) + Len(n) /\ N \in Nat /\ t = LcsTable(o, n)
    BY <1>0
  <1>2. IsWalk(L, o, n, w)
    BY <1>1, WalkIs
  <1>3. /\ w \in [0..N -> Walks(L, o, n)]
        /\ w[0] = [i |-> 0, j |-> 0, ops |-> <<>>]
        /\ \A k \in 1..N : w[k] = Advance(o, n, t, w[k - 1])
    BY <1>1, <1>2 DEF IsWalk
  <1>4. IsTable(o, n, t)
    BY <1>1, LcsTableIs
  <1>5. IsBest(old, new, pre, o, n, t)
    BY <1>4, TableIsBest
  <1>6. \A i \in 0..Len(o), j \in 0..Len(n) : t[<<i, j>>] \in Nat
    BY <1>5 DEF IsBest, BestBehind, Most
  <1>. DEFINE T == {k \in Nat : k <= N => Paid(pre, t, w[k])}
  <1>7. 0 \in T
    <2>1. w[0].i = 0 /\ w[0].j = 0 /\ w[0].ops = <<>>
      BY <1>3
    <2>2. Cost(Collected(<<>>, pre)) = 0
      <3>1. PICK g : g = NoGroup(pre)
        OBVIOUS
      <3>2. g.hunks = <<>> /\ g.old = <<>> /\ g.new = <<>>
        BY <3>1 DEF NoGroup
      <3>3. Cost(g) = 0
        BY <3>2, NoChanges DEF Cost
      <3>. QED  BY <3>1, <3>3, CollectedNone
    <2>3. PICK top : top = t[<<0, 0>>]
      OBVIOUS
    <2>4. 0 + top + top = 0 + 0 + top + top
      OBVIOUS
    <2>5. Paid(pre, t, w[0])
      BY <2>1, <2>2, <2>3, <2>4 DEF Paid
    <2>. QED  BY <2>5
  <1>8. ASSUME NEW k \in Nat, k \in T PROVE k + 1 \in T
    <2>. SUFFICES ASSUME k + 1 <= N PROVE Paid(pre, t, w[k + 1])
      OBVIOUS
    <2>1. PICK m, s, x : m = k + 1 /\ s = w[k] /\ x = w[m]
      OBVIOUS
    <2>2. m \in 1..N /\ m \in 0..N /\ m - 1 = k /\ k \in 0..N
      BY <1>1, <2>1
    <2>3. x = Advance(o, n, t, s)
      BY <1>3, <2>1, <2>2
    <2>4. s \in Walks(L, o, n) /\ x \in Walks(L, o, n)
      BY <1>3, <2>1, <2>2
    <2>5. Follows(o, n, t, s, x)
      BY <1>4, <2>3, <2>4, AdvanceFollows
    <2>6. Paid(pre, t, s)
      BY <1>1, <1>8, <2>1, <2>2
    <2>7. Paid(pre, t, x)
      BY <1>6, <2>4, <2>5, <2>6, PaidOn
    <2>. QED  BY <2>1, <2>7
  <1>. HIDE DEF T
  <1>9. Nat \subseteq T
    BY <1>7, <1>8, Induction
  <1>10. PICK s : s = w[N]
    OBVIOUS
  <1>11. Paid(pre, t, s)
    BY <1>1, <1>9, <1>10 DEF T
  <1>12. s.i = lo /\ s.j = ln
    BY <1>0, <1>1, <1>2, <1>10, WalkEnds
  <1>13. DiffMiddle(o, n) = s.ops
    BY <1>1, <1>10 DEF DiffMiddle
  <1>14. PICK cost, m : cost = Cost(Collected(DiffMiddle(o, n), pre)) /\ m = t[<<0, 0>>]
    OBVIOUS
  <1>15. t[<<lo, ln>>] = 0
    <2>1. lo \in 0..Len(o) /\ ln \in 0..Len(n)
      BY <1>0
    <2>. QED  BY <1>0, <1>4, <2>1 DEF IsTable
  <1>16. BestBehind(old, new, pre, o, n, 0, 0, m) /\ m \in Nat
    <2>1. 0 \in 0..Len(o) /\ 0 \in 0..Len(n)
      BY LenProperties
    <2>. QED  BY <1>5, <1>6, <1>14, <2>1 DEF IsBest
  <1>17. cost + m + m = lo + ln + 0 + 0
    BY <1>11, <1>12, <1>13, <1>14, <1>15 DEF Paid
  <1>18. cost + m + m = lo + ln
    BY <1>0, <1>17
  <1>. QED  BY <1>0, <1>14, <1>16, <1>18

-----------------------------------------------------------------------------
(* The fewest changes *)

LEMMA RangePlaces ==
    ASSUME NEW a \in Nat, NEW b \in Nat, NEW c \in Nat, NEW d \in Nat
    PROVE  Places(a..b, c..d)
  <1>1. IsFiniteSet(a..b) /\ IsFiniteSet(c..d)
    BY FS_Interval
  <1>2. a..b \subseteq Nat /\ c..d \subseteq Nat
    OBVIOUS
  <1>. QED  BY <1>1, <1>2 DEF Places

(* The same lines after what has been matched, *)
LEMMA MoreAfter ==
    ASSUME NEW old, NEW new, NEW p \in Nat, NEW a \in Nat, NEW b \in Nat, p <= a, p <= b,
           NEW m \in Nat, Most(old, new, p + 1..a, p + 1..b, m),
           NEW n \in Nat, \A i \in 1..n : old[a + i] = new[b + i]
    PROVE  Most(old, new, p + 1..a + n, p + 1..b + n, m + n)
  <1>. DEFINE T == {k \in Nat : k <= n => Most(old, new, p + 1..a + k, p + 1..b + k, m + k)}
  <1>1. 0 \in T
    <2>1. a + 0 = a /\ b + 0 = b /\ m + 0 = m
      OBVIOUS
    <2>. QED  BY <2>1
  <1>2. ASSUME NEW k \in Nat, k \in T PROVE k + 1 \in T
    <2>. SUFFICES ASSUME k + 1 <= n
                  PROVE  Most(old, new, p + 1..a + (k + 1), p + 1..b + (k + 1), m + (k + 1))
      OBVIOUS
    <2>1. PICK A, B, A1, B1, x, y :
            /\ A1 = p + 1..a + k /\ B1 = p + 1..b + k
            /\ A = p + 1..a + (k + 1) /\ B = p + 1..b + (k + 1)
            /\ x = a + (k + 1) /\ y = b + (k + 1)
      OBVIOUS
    <2>2. x \in Nat /\ y \in Nat /\ p + 1 \in Nat /\ p + 1 <= x /\ p + 1 <= y
      BY <2>1
    <2>3. Places(A, B)
      BY <2>1, <2>2, RangePlaces
    <2>4. /\ x \in A /\ (\A i \in A : i <= x) /\ A1 = A \ {x}
          /\ y \in B /\ (\A i \in B : i <= y) /\ B1 = B \ {y}
      BY <2>1, <2>2
    <2>5. IsCorner(A, B, x, y)
      BY <2>4 DEF IsCorner
    <2>6. old[x] = new[y]
      <3>1. PICK i : i = k + 1
        OBVIOUS
      <3>2. i \in 1..n /\ x = a + i /\ y = b + i
        BY <2>1, <3>1
      <3>. QED  BY <3>2
    <2>7. Most(old, new, A1, B1, m + k)
      BY <1>2, <2>1
    <2>8. Most(old, new, A, B, m + k + 1)
      BY ONLY <2>3, <2>4, <2>5, <2>6, <2>7, MostCorner
    <2>9. m + k + 1 = m + (k + 1)
      OBVIOUS
    <2>. QED  BY <2>1, <2>8, <2>9
  <1>. HIDE DEF T
  <1>3. Nat \subseteq T
    BY <1>1, <1>2, Induction
  <1>. QED  BY <1>3 DEF T

(* and before it, are best matched with each other. *)
LEMMA MoreBefore ==
    ASSUME NEW old, NEW new, NEW p \in Nat, NEW a \in Nat, NEW b \in Nat, p <= a, p <= b,
           NEW m \in Nat, Most(old, new, p + 1..a, p + 1..b, m),
           \A i \in 1..p : old[i] = new[i]
    PROVE  Most(old, new, 1..a, 1..b, m + p)
  <1>. DEFINE T == {k \in Nat : k <= p => Most(old, new, p - k + 1..a, p - k + 1..b, m + k)}
  <1>1. 0 \in T
    <2>1. p - 0 = p /\ m + 0 = m
      OBVIOUS
    <2>. QED  BY <2>1
  <1>2. ASSUME NEW k \in Nat, k \in T PROVE k + 1 \in T
    <2>. SUFFICES ASSUME k + 1 <= p
                  PROVE  Most(old, new, p - (k + 1) + 1..a, p - (k + 1) + 1..b, m + (k + 1))
      OBVIOUS
    <2>1. PICK A, B, A1, B1, x :
            /\ A1 = p - k + 1..a /\ B1 = p - k + 1..b
            /\ A = p - (k + 1) + 1..a /\ B = p - (k + 1) + 1..b
            /\ x = p - (k + 1) + 1
      OBVIOUS
    <2>2. x \in 1..p /\ x <= a /\ x <= b /\ p - k + 1 = x + 1
      BY <2>1
    <2>3. A = x..a /\ B = x..b /\ A1 = x + 1..a /\ B1 = x + 1..b
      BY <2>1, <2>2
    <2>4. Places(A, B)
      <3>1. x \in Nat /\ a \in Nat /\ b \in Nat
        BY <2>2
      <3>2. Places(x..a, x..b)
        BY ONLY <3>1, RangePlaces
      <3>. QED  BY <2>3, <3>2
    <2>5. /\ x \in A /\ (\A i \in A : x <= i) /\ A1 = A \ {x}
          /\ x \in B /\ (\A i \in B : x <= i) /\ B1 = B \ {x}
      BY <2>2, <2>3
    <2>6. IsCorner(A, B, x, x)
      BY <2>5 DEF IsCorner
    <2>7. old[x] = new[x]
      BY <2>2
    <2>8. Most(old, new, A1, B1, m + k)
      BY <1>2, <2>1
    <2>9. Most(old, new, A, B, m + k + 1)
      BY ONLY <2>4, <2>5, <2>6, <2>7, <2>8, MostCorner
    <2>10. m + k + 1 = m + (k + 1)
      OBVIOUS
    <2>. QED  BY <2>1, <2>9, <2>10
  <1>. HIDE DEF T
  <1>3. Nat \subseteq T
    BY <1>1, <1>2, Induction
  <1>4. Most(old, new, p - p + 1..a, p - p + 1..b, m + p)
    BY <1>3 DEF T
  <1>5. p - p + 1 = 1
    OBVIOUS
  <1>. QED  BY <1>4, <1>5

(* What the best matching leaves is what has to change. *)
LEMMA FewestIs ==
    ASSUME NEW L, NEW old \in Seq(L), NEW new \in Seq(L), NEW m \in Nat,
           Most(old, new, 1..Len(old), 1..Len(new), m)
    PROVE  FewestChanges(old, new) = Len(old) + Len(new) - 2 * m
  <1>1. PICK K : K = Matched(old, new, 1..Len(old), 1..Len(new))
    OBVIOUS
  <1>2. Matchings(old, new) = K
    <2>1. PICK same : same = {p \in (1..Len(old)) \X (1..Len(new)) : old[p[1]] = new[p[2]]}
      OBVIOUS
    <2>2. Matchings(old, new) = {M \in SUBSET same : InOneOrder(M)}
      BY <2>1 DEF Matchings, InOneOrder
    <2>3. ASSUME NEW M
          PROVE  M \in SUBSET same <=>
                    M \in SUBSET ((1..Len(old)) \X (1..Len(new)))
                        /\ \A p \in M : old[p[1]] = new[p[2]]
      BY <2>1
    <2>. QED  BY <1>1, <2>2, <2>3 DEF Matched
  <1>3. PICK S : S = {Cardinality(M) : M \in K}
    OBVIOUS
  <1>4. Places(1..Len(old), 1..Len(new))
    BY LenProperties, RangePlaces
  <1>5. \A M \in K : Cardinality(M) \in Nat /\ Cardinality(M) <= m
    BY <1>1, <1>4, MatchedIsFinite DEF Most
  <1>6. m \in S /\ \A x \in S : x \in Nat /\ x <= m
    <2>1. \E M \in K : Cardinality(M) = m
      BY <1>1 DEF Most
    <2>. QED  BY <1>3, <1>5, <2>1
  <1>7. Max(S) = m
    <2>1. Max(S) = CHOOSE x \in S : \A y \in S : x >= y
      BY DEF Max
    <2>2. m \in S /\ \A y \in S : m >= y
      BY <1>6
    <2>3. PICK x : x = Max(S)
      OBVIOUS
    <2>4. x \in S /\ \A y \in S : x >= y
      BY <2>1, <2>2, <2>3
    <2>5. x \in Nat /\ x <= m /\ x >= m
      BY <1>6, <2>4
    <2>. QED  BY <2>3, <2>5
  <1>. QED  BY <1>2, <1>3, <1>7 DEF FewestChanges

(* The hunks delete and insert as few lines as possible. *)
LEMMA HunksAreFewest ==
    ASSUME NEW L, NEW old \in Seq(L), NEW new \in Seq(L)
    PROVE  Changes(ComputeHunks(old, new)) = FewestChanges(old, new)
  <1>1. PICK pre, o, n, suf :
          /\ Differ(L, old, new, pre, o, n, suf)
          /\ ComputeHunks(old, new) = Flush(Collected(DiffMiddle(o, n), pre))
    BY MiddleIs
  <1>2. PICK lo, ln : lo = Len(o) /\ ln = Len(n)
    OBVIOUS
  <1>3. /\ o \in Seq(L) /\ n \in Seq(L) /\ Within(old, pre, o) /\ Within(new, pre, n)
        /\ pre \in Nat /\ suf \in Nat /\ lo \in Nat /\ ln \in Nat
        /\ Len(old) = pre + lo + suf /\ Len(new) = pre + ln + suf
        /\ \A i \in 1..pre : old[i] = new[i]
        /\ \A i \in 1..suf : old[pre + lo + i] = new[pre + ln + i]
    BY <1>1, <1>2, LenProperties DEF Differ, SameStart, SameLines
  <1>4. PICK g : g = Collected(DiffMiddle(o, n), pre)
    OBVIOUS
  <1>5. PICK m \in Nat : BestBehind(old, new, pre, o, n, 0, 0, m) /\ Cost(g) + m + m = lo + ln
    BY <1>2, <1>3, <1>4, MiddleCost
  <1>6. g \in Groups(L)
    <2>1. \E e : Holds(L, old, new, g, pre + Len(o), pre + Len(n), e)
      BY <1>1, <1>4, MiddleHolds DEF Differ
    <2>. QED  BY <2>1 DEF Holds
  <1>7. Cost(g) \in Nat /\ Changes(Flush(g)) = Cost(g)
    BY <1>6, CostIs
  <1>8. PICK a, b : a = pre + lo /\ b = pre + ln
    OBVIOUS
  <1>9. a \in Nat /\ b \in Nat /\ pre <= a /\ pre <= b
    BY <1>3, <1>8
  <1>10. Most(old, new, pre + 1..a, pre + 1..b, m)
    <2>1. Behind(pre, o, 0) = pre + 1..a /\ Behind(pre, n, 0) = pre + 1..b
      BY <1>2, <1>3, <1>8 DEF Behind
    <2>. QED  BY <1>5, <2>1 DEF BestBehind
  <1>11. Most(old, new, 1..a, 1..b, m + pre)
    BY ONLY <1>3, <1>9, <1>10, m \in Nat, MoreBefore
  <1>12. Most(old, new, 1..a + suf, 1..b + suf, m + pre + suf)
    <2>1. PICK z, k : z = 0 /\ k = m + pre
      OBVIOUS
    <2>2. z \in Nat /\ z <= a /\ z <= b /\ z + 1 = 1 /\ k \in Nat
      BY <1>3, <1>9, <2>1
    <2>3. \A i \in 1..suf : old[a + i] = new[b + i]
      BY <1>3, <1>8
    <2>4. Most(old, new, z + 1..a, z + 1..b, k)
      BY <1>11, <2>1, <2>2
    <2>5. Most(old, new, z + 1..a + suf, z + 1..b + suf, k + suf)
      BY ONLY <1>3, <1>9, <2>2, <2>3, <2>4, MoreAfter
    <2>. QED  BY <2>1, <2>2, <2>5
  <1>13. PICK all, cost : all = m + pre + suf /\ cost = Cost(g)
    OBVIOUS
  <1>14. all \in Nat /\ a + suf = Len(old) /\ b + suf = Len(new)
    BY <1>3, <1>8, <1>13
  <1>15. FewestChanges(old, new) = Len(old) + Len(new) - 2 * all
    BY <1>12, <1>13, <1>14, FewestIs
  <1>16. Len(old) + Len(new) - 2 * all = cost
    <2>1. cost \in Nat /\ cost + m + m = lo + ln
      BY <1>5, <1>7, <1>13
    <2>. QED  BY ONLY <1>3, <1>13, <2>1, m \in Nat
  <1>. QED  BY <1>1, <1>4, <1>7, <1>13, <1>15, <1>16

-----------------------------------------------------------------------------
(* Invariants of the reviews *)

Calls == Writers \cup Deciders
Labels == {"idle", "read", "overwrite", "stage", "list", "send", "done", "sent",
           "compare", "write"}

(* A list shows reviews that were staged, the one in the store as it is. *)
Shows(v) ==
    v # None =>
        /\ v.review \in 1..staged
        /\ pending # None /\ v.review = pending.review => v.hunks = pending.hunks

(* A decision on its way is on a review that was staged. *)
IsMeant(v) ==
    /\ v.review \in 1..staged
    /\ v.bulk \in BOOLEAN /\ v.value \in BOOLEAN
    /\ v.bulk => v.hunks = {}
    /\ pending # None /\ v.review = pending.review =>
           v.hunks \subseteq DOMAIN pending.hunks

Fields == {"review", "old", "new", "hunks", "accepted", "decided"}

ShapeInv ==
    /\ staged \in Nat
    /\ pending # None => DOMAIN pending = Fields
    /\ pc \in [Calls -> Labels]
    /\ DOMAIN snap = Calls
    /\ DOMAIN decision = Deciders
    /\ applied \in Seq(Range(applied))

StoreInv ==
    /\ pending # None => Reviewing(pending)
    /\ \A d \in Deciders : pc[d] \in {"compare", "write"} =>
            lock = d /\ pending # None /\ Resolved(pending)

ViewInv ==
    /\ Shows(ui)
    /\ \A t \in Calls : Shows(snap[t])
    /\ \A d \in Deciders : pc[d] = "sent" => IsMeant(decision[d])

(* Reviews have names of their own. *)
HistoryInv ==
    /\ \A i \in DOMAIN applied : applied[i].on \in 1..staged
    /\ \A o \in written : /\ o.p.review \in 1..staged
                          /\ pending # None => o.p.review # pending.review

(* Calls that have decided. *)
Acted == {d \in Deciders : pc[d] \notin {"idle", "sent"}}
CountInv == Len(applied) <= Cardinality(Acted)

IsOn(i, k) == applied[i].by.bulk \/ k \in applied[i].by.hunks

(* The review in the store is what the decisions applied to it make of it;  *)
(* when they were all made looking at it, they are on hunks it has.         *)
PendingInv ==
    pending # None =>
        LET hunks == DOMAIN pending.hunks
            r == pending.review
        IN /\ \A k \in hunks :
                /\ k \in pending.decided <=> \E i \in DecisionsOn(r) : IsOn(i, k)
                /\ k \in pending.accepted <=> Wanted(r, k)
           /\ Untouched(r) => pending.decided \subseteq hunks

(* Where the app is, and the review it has not been shown. *)
LinkInv ==
    /\ link \in {"none", "open", "closed"}
    /\ unseen \in {NoReview} \cup 1..staged

ReviewInv == ShapeInv /\ StoreInv /\ ViewInv /\ HistoryInv /\ CountInv

OutcomeInv == PendingInv /\ OutcomeIsReviewed

-----------------------------------------------------------------------------
(* Lemmas *)

LEMMA Moves ==
    ASSUME pc \in [Calls -> Labels], NEW t \in Calls, NEW l \in Labels, Goto(t, l)
    PROVE  /\ pc' \in [Calls -> Labels]
           /\ pc'[t] = l
           /\ \A u \in Calls \ {t} : pc'[u] = pc[u]
  BY DEF Goto

(* What a decision does to a review. *)
LEMMA MarkedShape ==
    ASSUME DOMAIN pending = Fields, NEW v
    PROVE  LET p == Marked(pending, v)
               hunks == DecidedBy(v, pending)
           IN /\ DOMAIN p = Fields
              /\ p.review = pending.review
              /\ p.old = pending.old
              /\ p.new = pending.new
              /\ p.hunks = pending.hunks
              /\ p.decided = pending.decided \cup hunks
              /\ p.accepted = IF v.value THEN pending.accepted \cup hunks
                              ELSE pending.accepted \ hunks
  BY DEF Marked, Fields

(* A sequence of its own elements, and one more of them. *)
LEMMA Appended ==
    ASSUME NEW q, q \in Seq(Range(q)), NEW e
    PROVE  /\ Append(q, e) \in Seq(Range(Append(q, e)))
           /\ Len(q) \in Nat
           /\ Len(Append(q, e)) = Len(q) + 1
           /\ DOMAIN q = 1..Len(q)
           /\ DOMAIN Append(q, e) = 1..Len(q) + 1
           /\ \A i \in 1..Len(q) : Append(q, e)[i] = q[i]
           /\ Append(q, e)[Len(q) + 1] = e
  <1>. DEFINE S == Range(q) \cup {e}
              a == Append(q, e)
  <1>1. q \in Seq(S)
    BY SeqMonotonic
  <1>2. /\ a \in Seq(S)
        /\ Len(q) \in Nat
        /\ Len(a) = Len(q) + 1
        /\ DOMAIN q = 1..Len(q)
        /\ DOMAIN a = 1..Len(q) + 1
        /\ \A i \in 1..Len(q) : a[i] = q[i]
        /\ a[Len(q) + 1] = e
    BY <1>1
  <1>3. Range(a) = S
    BY <1>2 DEF Range
  <1>. QED  BY <1>2, <1>3

(* Calls that have decided stay so, and each one decides once. *)
LEMMA DecisionsCount ==
    ASSUME ReviewAssumption, CountInv, Acted \subseteq Acted',
           \/ applied' = applied /\ Len(applied) \in Nat
           \/ /\ Acted' # Acted
              /\ Len(applied) \in Nat /\ Len(applied') = Len(applied) + 1
    PROVE  CountInv'
  <1>1. IsFiniteSet(Acted) /\ IsFiniteSet(Acted')
    BY FS_Subset DEF ReviewAssumption, Acted
  <1>2. /\ Cardinality(Acted) \in Nat
        /\ Cardinality(Acted') \in Nat
        /\ Cardinality(Acted) <= Cardinality(Acted')
        /\ Acted' # Acted => Cardinality(Acted) # Cardinality(Acted')
    BY <1>1, FS_Subset, FS_CardinalityType
  <1>. QED  BY <1>2 DEF CountInv

LEMMA ReviewInit ==
    ASSUME ReviewAssumption, Init
    PROVE  ReviewInv
  <1>1. ShapeInv
    BY DEF Init, ShapeInv, Calls, Labels
  <1>2. StoreInv /\ HistoryInv
    BY DEF Init, StoreInv, HistoryInv
  <1>3. ViewInv
    BY DEF Init, ViewInv, Shows, Calls
  <1>4. CountInv
    <2>1. Cardinality(Acted) \in Nat
      BY FS_Subset, FS_CardinalityType DEF ReviewAssumption, Acted
    <2>. QED  BY <2>1 DEF Init, CountInv
  <1>. QED  BY <1>1, <1>2, <1>3, <1>4 DEF ReviewInv

(* A step of a call that neither decides nor changes what is listed. *)
LEMMA QuietStep ==
    ASSUME ReviewAssumption, ReviewInv, NEW w \in Writers, NEW l \in Labels,
           Goto(w, l), UNCHANGED <<decision, snap, ui, store>>
    PROVE  ReviewInv'
  <1>. USE DEF ReviewInv
  <1>1. w \in Calls /\ w \notin Deciders
    BY DEF Calls, ReviewAssumption
  <1>2. pc' \in [Calls -> Labels] /\ \A d \in Deciders : pc'[d] = pc[d]
    BY <1>1, Moves DEF ShapeInv, Calls
  <1>3. ShapeInv' /\ StoreInv'
    BY <1>2 DEF ShapeInv, StoreInv, store, Reviewing, Resolved
  <1>4. ViewInv' /\ HistoryInv'
    BY <1>2 DEF ViewInv, HistoryInv, store, Shows, IsMeant
  <1>5. CountInv'
    BY <1>2 DEF CountInv, Acted, store
  <1>. QED  BY <1>3, <1>4, <1>5

-----------------------------------------------------------------------------
(* The steps *)

LEMMA StageKeeps ==
    ASSUME ReviewAssumption, ReviewInv, NEW w \in Writers, Stage(w)
    PROVE  ReviewInv'
  <1>. USE DEF ReviewInv
  <1>0. w \in Calls /\ w \notin Deciders
    BY DEF Calls, ReviewAssumption
  <1>1. CASE HunksOf(base[w], content[w]) = <<>>
    <2>1. Goto(w, "done") /\ UNCHANGED <<decision, snap, ui, store>>
      BY <1>1 DEF Stage, Forget, store
    <2>. QED  BY <2>1, QuietStep DEF Labels
  <1>2. CASE HunksOf(base[w], content[w]) # <<>>
    <2>1. /\ lock = Free
          /\ pending' = NewReview(base[w], content[w])
          /\ staged' = staged + 1
          /\ Goto(w, "list")
          /\ UNCHANGED <<lock, decision, snap, ui, applied, written>>
      BY <1>2 DEF Stage, Replacement, Forget
    <2>2. pc' \in [Calls -> Labels] /\ \A d \in Deciders : pc'[d] = pc[d]
      BY <1>0, <2>1, Moves DEF ShapeInv, Calls, Labels
    <2>3. /\ DOMAIN pending' = Fields
          /\ pending'.review = staged + 1
          /\ Reviewing(pending)'
      BY <2>1 DEF NewReview, Reviewing, Fields, ShapeInv
    <2>4. ShapeInv'
      BY <2>1, <2>2, <2>3 DEF ShapeInv
    <2>5. StoreInv'
      BY <2>1, <2>2, <2>3 DEF StoreInv, ReviewAssumption
    <2>6. ViewInv'
      BY <2>1, <2>2, <2>3 DEF ViewInv, Shows, IsMeant, ShapeInv
    <2>7. HistoryInv'
      BY <2>1, <2>3 DEF HistoryInv, ShapeInv
    <2>8. CountInv'
      BY <2>1, <2>2 DEF CountInv, Acted
    <2>. QED  BY <2>4, <2>5, <2>6, <2>7, <2>8
  <1>. QED  BY <1>1, <1>2

(* What a list shows of the review in the store. *)
LEMMA ViewShows ==
    ASSUME StoreInv
    PROVE  Shows(View(pending))
  BY DEF StoreInv, Shows, View, Reviewing, None

LEMMA ListKeeps ==
    ASSUME ReviewAssumption, ReviewInv, NEW t \in Calls, List(t)
    PROVE  ReviewInv'
  <1>. USE DEF ReviewInv
  <1>1. /\ pc[t] = "list"
        /\ snap' = [snap EXCEPT ![t] = View(pending)]
        /\ Goto(t, "send")
        /\ UNCHANGED <<decision, ui, lock, pending, staged, applied, written>>
    BY DEF List, app, asked, store
  <1>2. /\ pc' \in [Calls -> Labels] /\ pc'[t] = "send"
        /\ \A u \in Calls \ {t} : pc'[u] = pc[u]
    BY <1>1, Moves DEF ShapeInv, Labels
  <1>3. ShapeInv'
    BY <1>1, <1>2 DEF ShapeInv
  <1>4. StoreInv'
    BY <1>1, <1>2 DEF StoreInv, Reviewing, Resolved, Calls
  <1>5. ViewInv'
    <2>1. \A u \in Calls : snap'[u] = IF u = t THEN View(pending) ELSE snap[u]
      BY <1>1 DEF ShapeInv
    <2>2. \A u \in Calls : Shows(snap'[u])
      BY <2>1, ViewShows DEF ViewInv
    <2>. QED  BY <1>1, <1>2, <2>2 DEF ViewInv, Shows, IsMeant, Calls
  <1>6. HistoryInv'
    BY <1>1 DEF HistoryInv
  <1>7. CountInv'
    BY <1>1, <1>2 DEF CountInv, Acted, Calls
  <1>. QED  BY <1>3, <1>4, <1>5, <1>6, <1>7

LEMMA SendKeeps ==
    ASSUME ReviewAssumption, ReviewInv, NEW t \in Calls, SendChanged(t)
    PROVE  ReviewInv'
  <1>. USE DEF ReviewInv
  <1>1. /\ pc[t] = "send"
        /\ ui' = snap[t] \/ ui' = ui
        /\ snap' = [snap EXCEPT ![t] = None]
        /\ Goto(t, "done")
        /\ UNCHANGED <<decision, lock, pending, staged, applied, written>>
    BY DEF SendChanged, asked, store
  <1>2. /\ pc' \in [Calls -> Labels] /\ pc'[t] = "done"
        /\ \A u \in Calls \ {t} : pc'[u] = pc[u]
    BY <1>1, Moves DEF ShapeInv, Labels
  <1>3. ShapeInv'
    BY <1>1, <1>2 DEF ShapeInv
  <1>4. StoreInv'
    BY <1>1, <1>2 DEF StoreInv, Reviewing, Resolved, Calls
  <1>5. ViewInv'
    <2>1. \A u \in Calls : snap'[u] = IF u = t THEN None ELSE snap[u]
      BY <1>1 DEF ShapeInv
    <2>2. Shows(None) /\ \A u \in Calls : Shows(snap'[u])
      BY <2>1 DEF ViewInv, Shows
    <2>. QED  BY <1>1, <1>2, <2>2 DEF ViewInv, Shows, IsMeant, Calls
  <1>6. HistoryInv'
    BY <1>1 DEF HistoryInv
  <1>7. CountInv'
    BY <1>1, <1>2 DEF CountInv, Acted, Calls
  <1>. QED  BY <1>3, <1>4, <1>5, <1>6, <1>7

LEMMA ClickKeeps ==
    ASSUME ReviewAssumption, ReviewInv, NEW d \in Deciders, Click(d)
    PROVE  ReviewInv'
  <1>. USE DEF ReviewInv
  <1>1. /\ pc[d] = "idle"
        /\ ui # None
        /\ Goto(d, "sent")
        /\ UNCHANGED <<snap, ui, lock, pending, staged, applied, written>>
    BY DEF Click, app, store
  <1>2. PICK value \in BOOLEAN, bulk \in BOOLEAN :
          \E hunks \in IF bulk THEN {{}} ELSE {{k} : k \in DOMAIN ui.hunks} :
              decision' = [decision EXCEPT
                              ![d] = Verdict(ui.review, hunks, bulk, value)]
    BY DEF Click
  <1>3. PICK hunks \in IF bulk THEN {{}} ELSE {{k} : k \in DOMAIN ui.hunks} :
          decision' = [decision EXCEPT
                          ![d] = Verdict(ui.review, hunks, bulk, value)]
    BY <1>2
  <1>4. IsMeant(Verdict(ui.review, hunks, bulk, value))
    <2>1. ui.review \in 1..staged
      BY <1>1 DEF ViewInv, Shows
    <2>2. pending # None /\ ui.review = pending.review =>
             hunks \subseteq DOMAIN pending.hunks
      BY <1>1, <1>3 DEF ViewInv, Shows
    <2>. QED  BY <1>3, <2>1, <2>2 DEF IsMeant, Verdict
  <1>5. /\ pc' \in [Calls -> Labels] /\ pc'[d] = "sent"
        /\ \A u \in Calls \ {d} : pc'[u] = pc[u]
    BY <1>1, Moves DEF ShapeInv, Labels, Calls
  <1>6. ShapeInv'
    BY <1>1, <1>3, <1>5 DEF ShapeInv
  <1>7. StoreInv'
    BY <1>1, <1>5 DEF StoreInv, Reviewing, Resolved, Calls
  <1>8. ViewInv'
    <2>1. \A c \in Deciders : pc'[c] = "sent" => IsMeant(decision'[c])
      BY <1>3, <1>4, <1>5 DEF ViewInv, ShapeInv, Calls
    <2>. QED  BY <1>1, <2>1 DEF ViewInv, Shows, IsMeant
  <1>9. HistoryInv' /\ CountInv'
    BY <1>1, <1>5 DEF HistoryInv, CountInv, Acted, Calls
  <1>. QED  BY <1>6, <1>7, <1>8, <1>9

(* What Decide does. *)
LEMMA DecideDoes ==
    ASSUME ReviewInv, NEW d \in Deciders, Decide(d)
    PROVE  /\ pc[d] = "sent" /\ lock = Free
           /\ IsMeant(decision[d])
           /\ decision' = [decision EXCEPT ![d] = NoReview]
           /\ UNCHANGED <<snap, ui, staged, written>>
           /\ \A u \in Calls \ {d} : pc'[u] = pc[u]
           /\ pc' \in [Calls -> Labels]
           /\ \/ /\ pending = None
                 /\ pc'[d] = "done"
                 /\ UNCHANGED <<pending, lock, applied>>
              \/ /\ pending # None
                 /\ pending' = Marked(pending, decision[d])
                 /\ applied' = Append(applied, [on |-> pending.review,
                                                by |-> decision[d]])
                 /\ \/ Resolved(pending') /\ lock' = d /\ pc'[d] = "compare"
                    \/ ~Resolved(pending') /\ lock' = lock /\ pc'[d] = "list"
  <1>1. d \in Calls /\ pc \in [Calls -> Labels]
    BY DEF ReviewInv, ShapeInv, Calls
  <1>2. \A l \in Labels : Goto(d, l) => /\ pc' \in [Calls -> Labels]
                                        /\ pc'[d] = l
                                        /\ \A u \in Calls \ {d} : pc'[u] = pc[u]
    BY <1>1, Moves
  <1>3. pc[d] = "sent" /\ IsMeant(decision[d])
    BY DEF Decide, ReviewInv, ViewInv
  <1>4. CASE pending = None
    BY <1>2, <1>3, <1>4 DEF Decide, Labels, app
  <1>5. CASE pending # None
    BY <1>2, <1>3, <1>5 DEF Decide, Labels, app
  <1>. QED  BY <1>4, <1>5

(* A decision counts its call among those that decided. *)
LEMMA DecideCounts ==
    ASSUME NEW d \in Deciders, pc[d] = "sent",
           pc'[d] \in {"compare", "list", "done"},
           \A u \in Calls \ {d} : pc'[u] = pc[u]
    PROVE  Acted \subseteq Acted' /\ Acted' # Acted
  BY DEF Acted, Calls

LEMMA DecideKeeps ==
    ASSUME ReviewAssumption, ReviewInv, NEW d \in Deciders, Decide(d)
    PROVE  ReviewInv'
  <1>. USE DEF ReviewInv
  <1>1. /\ pc[d] = "sent" /\ lock = Free
        /\ decision' = [decision EXCEPT ![d] = NoReview]
        /\ UNCHANGED <<snap, ui, staged, written>>
        /\ \A u \in Calls \ {d} : pc'[u] = pc[u]
        /\ pc' \in [Calls -> Labels]
    BY DecideDoes
  <1>2. ASSUME pending = None, pc'[d] = "done", UNCHANGED <<pending, lock, applied>>
        PROVE  ReviewInv'
    <2>1. ShapeInv'
      BY <1>1, <1>2 DEF ShapeInv
    <2>2. StoreInv'
      BY <1>1, <1>2 DEF StoreInv, Calls
    <2>3. ViewInv'
      BY <1>1, <1>2 DEF ViewInv, Shows, IsMeant, ShapeInv, Calls
    <2>4. HistoryInv'
      BY <1>1, <1>2 DEF HistoryInv
    <2>5. CountInv'
      <3>1. Acted \subseteq Acted' /\ Len(applied) \in Nat
        BY <1>1, <1>2, DecideCounts, LenProperties DEF ShapeInv
      <3>. QED  BY <1>2, <3>1, DecisionsCount
    <2>. QED  BY <2>1, <2>2, <2>3, <2>4, <2>5
  <1>3. ASSUME pending # None,
               pending' = Marked(pending, decision[d]),
               applied' = Append(applied, [on |-> pending.review,
                                           by |-> decision[d]]),
               \/ Resolved(pending') /\ lock' = d /\ pc'[d] = "compare"
               \/ ~Resolved(pending') /\ lock' = lock /\ pc'[d] = "list"
        PROVE  ReviewInv'
    <2>1. /\ DOMAIN pending' = Fields
          /\ pending'.review = pending.review
          /\ pending'.old = pending.old
          /\ pending'.new = pending.new
          /\ pending'.hunks = pending.hunks
          /\ pending'.accepted \subseteq pending'.decided
      BY <1>3, MarkedShape DEF ShapeInv, StoreInv, Reviewing
    <2>2. /\ applied' \in Seq(Range(applied'))
          /\ Len(applied) \in Nat
          /\ Len(applied') = Len(applied) + 1
          /\ \A i \in DOMAIN applied' :
                \/ applied'[i].on = pending.review
                \/ i \in DOMAIN applied /\ applied'[i] = applied[i]
      <3>. DEFINE e == [on |-> pending.review, by |-> decision[d]]
      <3>1. /\ applied' \in Seq(Range(applied'))
            /\ Len(applied) \in Nat
            /\ Len(applied') = Len(applied) + 1
            /\ DOMAIN applied = 1..Len(applied)
            /\ DOMAIN applied' = 1..Len(applied) + 1
            /\ \A i \in 1..Len(applied) : applied'[i] = applied[i]
            /\ applied'[Len(applied) + 1] = e
        BY <1>3, Appended DEF ShapeInv
      <3>2. e.on = pending.review
        OBVIOUS
      <3>. HIDE DEF e
      <3>. QED  BY <3>1, <3>2
    <2>3. pending.review \in 1..staged
      BY <1>3 DEF StoreInv, Reviewing
    <2>4. ShapeInv'
      BY <1>1, <2>1, <2>2 DEF ShapeInv
    <2>5. StoreInv'
      <3>1. Reviewing(pending)'
        BY <1>1, <1>3, <2>1 DEF StoreInv, Reviewing
      <3>2. pending' # None
        BY <2>1, <2>3 DEF None, ReviewAssumption, ShapeInv
      <3>3. \A c \in Deciders : pc'[c] \in {"compare", "write"} =>
                 c = d /\ lock' = d /\ Resolved(pending')
        BY <1>1, <1>3 DEF StoreInv, ReviewAssumption, Calls
      <3>. QED  BY <3>1, <3>2, <3>3 DEF StoreInv, Resolved
    <2>6. ViewInv'
      <3>1. \A c \in Deciders : pc'[c] = "sent" => c # d
        BY <1>3
      <3>2. \A c \in Deciders \ {d} : decision'[c] = decision[c] /\ pc'[c] = pc[c]
        BY <1>1 DEF ShapeInv, Calls
      <3>. QED  BY <1>1, <1>3, <2>1, <3>1, <3>2 DEF ViewInv, Shows, IsMeant
    <2>7. HistoryInv'
      BY <1>1, <1>3, <2>1, <2>2, <2>3 DEF HistoryInv
    <2>8. CountInv'
      <3>1. Acted \subseteq Acted' /\ Acted' # Acted
        BY <1>1, <1>3, DecideCounts
      <3>. QED  BY <2>2, <3>1, DecisionsCount
    <2>. QED  BY <2>4, <2>5, <2>6, <2>7, <2>8
  <1>. QED  BY <1>2, <1>3, DecideDoes

(* The review is over, and the lock with it. *)
LEMMA ReviewEnds ==
    ASSUME ReviewAssumption, ReviewInv, NEW d \in Deciders,
           pc[d] \in {"compare", "write"},
           pending' = None, lock' = Free, Goto(d, "list"),
           \A o \in written' : o \in written \/ o.p = pending,
           UNCHANGED <<decision, snap, ui, staged, applied>>
    PROVE  ReviewInv'
  <1>. USE DEF ReviewInv
  <1>1. /\ pc' \in [Calls -> Labels] /\ pc'[d] = "list"
        /\ \A u \in Calls \ {d} : pc'[u] = pc[u]
    BY Moves DEF ShapeInv, Labels, Calls
  <1>2. pending # None /\ pending.review \in 1..staged
    BY DEF StoreInv, Reviewing
  <1>3. ShapeInv'
    BY <1>1 DEF ShapeInv
  <1>4. StoreInv'
    <2>1. \A c \in Deciders : pc'[c] \notin {"compare", "write"}
      BY <1>1 DEF StoreInv, ReviewAssumption, Calls
    <2>. QED  BY <2>1 DEF StoreInv
  <1>5. ViewInv'
    BY <1>1 DEF ViewInv, Shows, IsMeant, Calls
  <1>6. HistoryInv'
    BY <1>2 DEF HistoryInv
  <1>7. CountInv'
    BY <1>1 DEF CountInv, Acted, Calls
  <1>. QED  BY <1>3, <1>4, <1>5, <1>6, <1>7

LEMMA CompareKeeps ==
    ASSUME ReviewAssumption, ReviewInv, NEW d \in Deciders, Compare(d)
    PROVE  ReviewInv'
  <1>. USE DEF ReviewInv
  <1>1. /\ pc[d] = "compare"
        /\ UNCHANGED <<decision, snap, ui, staged, applied, written>>
        /\ \/ pending' = None /\ lock' = Free /\ Goto(d, "list")
           \/ Goto(d, "write") /\ UNCHANGED <<pending, lock>>
    BY DEF Compare, app, asked
  <1>2. ASSUME pending' = None, lock' = Free, Goto(d, "list")
        PROVE  ReviewInv'
    BY <1>1, <1>2, ReviewEnds
  <1>3. ASSUME Goto(d, "write"), UNCHANGED <<pending, lock>>
        PROVE  ReviewInv'
    <2>1. /\ pc' \in [Calls -> Labels] /\ pc'[d] = "write"
          /\ \A u \in Calls \ {d} : pc'[u] = pc[u]
      BY <1>3, Moves DEF ShapeInv, Labels, Calls
    <2>2. ShapeInv' /\ StoreInv'
      BY <1>1, <1>3, <2>1 DEF ShapeInv, StoreInv, Reviewing, Resolved, Calls
    <2>3. ViewInv' /\ HistoryInv'
      BY <1>1, <1>3, <2>1 DEF ViewInv, HistoryInv, Shows, IsMeant, Calls
    <2>4. CountInv'
      BY <1>1, <2>1 DEF CountInv, Acted, Calls
    <2>. QED  BY <2>2, <2>3, <2>4
  <1>. QED  BY <1>1, <1>2, <1>3

LEMMA WriteKeeps ==
    ASSUME ReviewAssumption, ReviewInv, NEW d \in Deciders, Write(d)
    PROVE  ReviewInv'
  <1>1. /\ pc[d] = "write"
        /\ pending' = None /\ lock' = Free /\ Goto(d, "list")
        /\ UNCHANGED <<decision, snap, ui, staged, applied>>
    BY DEF Write, app, asked
  <1>2. \A o \in written' : o \in written \/ o.p = pending
    BY DEF Write
  <1>. QED  BY <1>1, <1>2, ReviewEnds

(* Steps that leave the calls' places, the store and the screen alone, or   *)
(* clear the screen.                                                        *)
LEMMA StillKeeps ==
    ASSUME ReviewInv, UNCHANGED <<pc, decision, snap, store>>,
           ui' = ui \/ ui' = None
    PROVE  ReviewInv'
  <1>. USE DEF ReviewInv, store
  <1>1. ShapeInv' /\ StoreInv'
    BY DEF ShapeInv, StoreInv, Reviewing, Resolved
  <1>2. ViewInv' /\ HistoryInv' /\ CountInv'
    BY DEF ViewInv, HistoryInv, CountInv, Shows, IsMeant, Acted
  <1>. QED  BY <1>1, <1>2

LEMMA ReviewStep ==
    ASSUME ReviewAssumption, ReviewInv, [Next]_vars
    PROVE  ReviewInv'
  <1>0. Writers \subseteq Calls /\ Deciders \subseteq Calls
    BY DEF Calls
  <1>1. ASSUME NEW w \in Writers, CallFileWrite(w) \/ ReadOldText(w) \/ Overwrite(w)
        PROVE  ReviewInv'
    <2>1. /\ \E l \in Labels : Goto(w, l)
          /\ UNCHANGED <<decision, snap, ui, store>>
      BY <1>1 DEF CallFileWrite, ReadOldText, Overwrite, Forget, Labels, app, store
    <2>. QED  BY <2>1, QuietStep
  <1>2. ASSUME NEW w \in Writers, Stage(w)
        PROVE  ReviewInv'
    BY <1>2, StageKeeps
  <1>3. ASSUME NEW t \in Calls, List(t)
        PROVE  ReviewInv'
    BY <1>3, ListKeeps
  <1>4. ASSUME NEW t \in Calls, SendChanged(t)
        PROVE  ReviewInv'
    BY <1>4, SendKeeps
  <1>5. ASSUME NEW d \in Deciders, Click(d)
        PROVE  ReviewInv'
    BY <1>5, ClickKeeps
  <1>6. ASSUME NEW d \in Deciders, Decide(d)
        PROVE  ReviewInv'
    BY <1>6, DecideKeeps
  <1>7. ASSUME NEW d \in Deciders, Compare(d)
        PROVE  ReviewInv'
    BY <1>7, CompareKeeps
  <1>8. ASSUME NEW d \in Deciders, Write(d)
        PROVE  ReviewInv'
    BY <1>8, WriteKeeps
  <1>9. ASSUME Connect \/ Edit \/ UNCHANGED vars
        PROVE  ReviewInv'
    <2>1. UNCHANGED <<pc, decision, snap, ui, store>>
      BY <1>9 DEF Edit, Connect, app, asked, store, vars
    <2>. QED  BY <2>1, StillKeeps
  <1>10. ASSUME Disconnect
         PROVE  ReviewInv'
    <2>1. ui' = None /\ UNCHANGED <<pc, decision, snap, store>>
      BY <1>10 DEF Disconnect, asked
    <2>. QED  BY <2>1, StillKeeps
  <1>. QED  BY <1>0, <1>1, <1>2, <1>3, <1>4, <1>5, <1>6, <1>7, <1>8, <1>9, <1>10
            DEF Next, WriterStep, DeciderStep

LEMMA ReviewInvHolds == Spec => []ReviewInv
  <1>1. Init => ReviewInv
    BY ReviewAssumption, ReviewInit
  <1>2. ReviewInv /\ [Next]_vars => ReviewInv'
    BY ReviewAssumption, ReviewStep
  <1>. QED  BY <1>1, <1>2, PTL DEF Spec

LEMMA LinkStep ==
    ASSUME ReviewInv, LinkInv, [Next]_vars
    PROVE  LinkInv'
  <1>1. staged \in Nat
    BY DEF ReviewInv, ShapeInv
  <1>2. ASSUME UNCHANGED <<link, unseen, staged>> PROVE LinkInv'
    BY <1>2 DEF LinkInv
  <1>3. ASSUME NEW w \in Writers,
               CallFileWrite(w) \/ ReadOldText(w) \/ Overwrite(w) \/ List(w)
        PROVE  LinkInv'
    BY <1>2, <1>3 DEF CallFileWrite, ReadOldText, Overwrite, List, app, store
  <1>4. ASSUME NEW w \in Writers, Stage(w) PROVE LinkInv'
    BY <1>1, <1>4 DEF Stage, LinkInv
  <1>5. ASSUME NEW d \in Deciders, Click(d) \/ List(d) PROVE LinkInv'
    BY <1>2, <1>5 DEF Click, List, app, store
  <1>6. ASSUME NEW d \in Deciders, Decide(d) \/ Compare(d) \/ Write(d)
        PROVE  LinkInv'
    BY <1>2, <1>6 DEF Decide, Compare, Write, app
  <1>7. ASSUME NEW t \in Calls, SendChanged(t) PROVE LinkInv'
    BY <1>7 DEF SendChanged, LinkInv, store
  <1>8. ASSUME Connect \/ Disconnect PROVE LinkInv'
    BY <1>8 DEF Connect, Disconnect, LinkInv, store
  <1>9. ASSUME Edit \/ UNCHANGED vars PROVE LinkInv'
    BY <1>2, <1>9 DEF Edit, vars, app, store
  <1>. QED  BY <1>3, <1>4, <1>5, <1>6, <1>7, <1>8, <1>9
            DEF Next, WriterStep, DeciderStep, Calls

(* Whatever agents stage and users decide, lists show reviews that were     *)
(* staged; a decision that goes on to the file holds the store's lock, and  *)
(* the review it resolved is still the one in the store (decideMany,        *)
(* pending.go:82-123).                                                      *)
THEOREM ReviewTypes == Spec => []TypeOK
  <1>1. ReviewInv /\ LinkInv => TypeOK
    <2>. SUFFICES ASSUME ReviewInv, LinkInv PROVE TypeOK
      OBVIOUS
    <2>1. \A v \in {ui} \cup Range(snap) : v = None \/ v.review \in 1..staged
      BY DEF ReviewInv, ViewInv, ShapeInv, Shows, Range
    <2>2. Len(applied) <= Cardinality(Deciders)
      <3>1. /\ Cardinality(Acted) <= Cardinality(Deciders)
            /\ Cardinality(Acted) \in Nat /\ Cardinality(Deciders) \in Nat
        BY ReviewAssumption, FS_Subset, FS_CardinalityType
           DEF Acted, ReviewAssumption
      <3>2. Len(applied) \in Nat
        BY LenProperties DEF ReviewInv, ShapeInv
      <3>. QED  BY <3>1, <3>2 DEF ReviewInv, CountInv
    <2>. QED  BY <2>1, <2>2 DEF TypeOK, ReviewInv, StoreInv, LinkInv
  <1>2. Init => LinkInv
    BY DEF Init, LinkInv
  <1>3. ReviewInv /\ LinkInv /\ [Next]_vars => LinkInv'
    BY LinkStep
  <1>. QED  BY <1>1, <1>2, <1>3, ReviewInvHolds, PTL DEF Spec

-----------------------------------------------------------------------------
(* Only texts that can be in the file are ever reviewed *)

Lines == UNION {Range(text) : text \in Texts}

TextInv ==
    /\ file \in Texts \cup {Missing}
    /\ base \in [Writers -> Texts]
    /\ content \in [Writers -> Texts]
    /\ \A w \in Writers : pc[w] \in {"read", "overwrite", "stage"} =>
            content[w] \in Contents
    /\ pending # None => pending.old \in Texts /\ pending.new \in Contents

LEMMA TextsAre ==
    ASSUME ReviewAssumption, NEW text \in Texts
    PROVE  text \in Seq(Lines) /\ text # <<Blank>>
  <1>1. text \in Seq(Range(text)) /\ text # <<Blank>>
    BY DEF ReviewAssumption
  <1>2. Range(text) \subseteq Lines
    BY DEF Lines
  <1>3. PICK R : R = Range(text)
    OBVIOUS
  <1>4. text \in Seq(R) /\ R \subseteq Lines
    BY <1>1, <1>2, <1>3
  <1>5. text \in Seq(Lines)
    BY ONLY <1>4, SeqMonotonic
  <1>. QED  BY <1>1, <1>5

(* The hunks of a change are those of its texts. *)
LEMMA HunksOfIs ==
    ASSUME NEW x \in Texts, NEW y \in Contents
    PROVE  HunksOf(x, y) = ComputeHunks(x, y)
  <1>. DEFINE Diff(o, n) == [old |-> o, new |-> n, hunks |-> ComputeHunks(o, n)]
  <1>1. Diffs = {Diff(o, n) : o \in Texts, n \in Contents}
    BY DEF Diffs
  <1>2. \A o, n : /\ Diff(o, n).old = o /\ Diff(o, n).new = n
                  /\ Diff(o, n).hunks = ComputeHunks(o, n)
    OBVIOUS
  <1>. HIDE DEF Diff
  <1>3. \E d \in Diffs : d.old = x /\ d.new = y
    BY <1>1, <1>2
  <1>4. ASSUME NEW d \in Diffs, d.old = x, d.new = y
        PROVE  d.hunks = ComputeHunks(x, y)
    <2>1. PICK o \in Texts, n \in Contents : d = Diff(o, n)
      BY <1>1
    <2>2. o = x /\ n = y
      BY <1>2, <1>4, <2>1
    <2>. QED  BY <1>2, <2>1, <2>2
  <1>. QED  BY <1>3, <1>4 DEF HunksOf

(* What the hunks of the review in the store are. *)
LEMMA HunksOfReview ==
    ASSUME ReviewAssumption, ReviewInv, TextInv, pending # None
    PROVE  LET hunks == pending.hunks
           IN /\ pending.old \in Seq(Lines) /\ pending.old # <<Blank>>
              /\ pending.new \in Seq(Lines) /\ pending.new # <<Blank>>
              /\ hunks = ComputeHunks(pending.old, pending.new)
              /\ hunks \in Seq(HunksOver(Lines))
              /\ InOrder(pending.old, hunks)
              /\ ApplyHunks(pending.old, hunks, 1..Len(hunks)) = pending.new
              /\ ApplyHunks(pending.old, hunks, {}) = pending.old
              /\ \A S : ApplyHunks(pending.old, hunks, S)
                            = PatchAll(pending.old, hunks, S)
  <1>1. PICK x, y, h : x = pending.old /\ y = pending.new /\ h = pending.hunks
    OBVIOUS
  <1>2. x \in Texts /\ y \in Contents /\ y \in Texts
    BY <1>1 DEF TextInv, ReviewAssumption
  <1>3. x \in Seq(Lines) /\ x # <<Blank>> /\ y \in Seq(Lines) /\ y # <<Blank>>
    BY <1>2, TextsAre
  <1>4. h = ComputeHunks(x, y)
    BY <1>1, <1>2, HunksOfIs DEF ReviewInv, StoreInv, Reviewing
  <1>5. /\ h \in Seq(HunksOver(Lines))
        /\ InOrder(x, h)
        /\ ApplyHunks(x, h, 1..Len(h)) = y
        /\ ApplyHunks(x, h, {}) = x
        /\ \A S : ApplyHunks(x, h, S) = PatchAll(x, h, S)
    BY ONLY <1>3, <1>4, HunksAre
  <1>. QED  BY <1>1, <1>3, <1>4, <1>5

(* What is written is one of the texts. *)
LEMMA ResultIsText ==
    ASSUME ReviewAssumption, ReviewInv, TextInv, pending # None
    PROVE  ApplyHunks(pending.old, pending.hunks, pending.accepted) \in Texts
  <1>1. PICK x, y, h, S : /\ x = pending.old /\ y = pending.new
                          /\ h = pending.hunks /\ S = pending.accepted
    OBVIOUS
  <1>2. /\ x \in Seq(Lines) /\ h \in Seq(HunksOver(Lines)) /\ InOrder(x, h)
        /\ h = ComputeHunks(x, y)
        /\ \A T : ApplyHunks(x, h, T) = PatchAll(x, h, T)
    BY <1>1, HunksOfReview
  <1>3. x \in Texts /\ y \in Contents
    BY <1>1 DEF TextInv
  <1>4. PICK T : T = S \cap (1..Len(h))
    OBVIOUS
  <1>5. PatchAll(x, h, T) \in Texts
    BY <1>2, <1>3, <1>4 DEF ReviewAssumption
  <1>6. \A k \in 1..Len(h) : k \in S <=> k \in T
    BY <1>4
  <1>7. ApplyHunks(x, h, S) = ApplyHunks(x, h, T)
    BY ONLY <1>2, <1>6, OtherNumbers
  <1>. QED  BY <1>1, <1>2, <1>5, <1>7

LEMMA TextInit ==
    ASSUME ReviewAssumption, Init
    PROVE  TextInv
  BY DEF Init, TextInv, ReviewAssumption

LEMMA WriterTexts ==
    ASSUME ReviewAssumption, ReviewInv, TextInv, NEW w \in Writers,
           CallFileWrite(w) \/ ReadOldText(w) \/ Stage(w) \/ Overwrite(w)
    PROVE  TextInv'
  <1>1. w \in Calls /\ w \notin Deciders /\ pc \in [Calls -> Labels]
    BY DEF Calls, ReviewAssumption, ReviewInv, ShapeInv
  <1>2. <<>> \in Texts /\ Contents \subseteq Texts
    BY DEF ReviewAssumption
  <1>3. \A l \in Labels : Goto(w, l) =>
            /\ pc'[w] = l
            /\ \A u \in Writers \ {w} : pc'[u] = pc[u]
    BY <1>1, Moves DEF Calls
  <1>4. CASE CallFileWrite(w)
    <2>1. PICK text \in Contents : content' = [content EXCEPT ![w] = text]
      BY <1>4 DEF CallFileWrite
    <2>2. /\ pc'[w] \in {"read", "overwrite"}
          /\ \A u \in Writers \ {w} : pc'[u] = pc[u]
          /\ UNCHANGED <<file, base, pending>>
      BY <1>3, <1>4 DEF CallFileWrite, Labels, store
    <2>. QED  BY <1>2, <2>1, <2>2 DEF TextInv
  <1>5. CASE ReadOldText(w)
    <2>1. /\ pc[w] = "read" /\ pc'[w] = "stage"
          /\ \A u \in Writers \ {w} : pc'[u] = pc[u]
          /\ base' = [base EXCEPT ![w] = TextOf(file)]
          /\ UNCHANGED <<file, content, pending>>
      BY <1>3, <1>5 DEF ReadOldText, Labels, store
    <2>2. TextOf(file) \in Texts
      BY <1>2 DEF TextOf, TextInv
    <2>. QED  BY <2>1, <2>2 DEF TextInv
  <1>6. ASSUME Forget(w), pc'[w] = "done" \/ pc'[w] = "list",
               \A u \in Writers \ {w} : pc'[u] = pc[u]
        PROVE  /\ base' \in [Writers -> Texts] /\ content' \in [Writers -> Texts]
               /\ \A u \in Writers : pc'[u] \in {"read", "overwrite", "stage"} =>
                      content'[u] \in Contents
    BY <1>2, <1>6 DEF Forget, TextInv
  <1>7. CASE Stage(w)
    <2>1. /\ pc[w] = "stage" /\ pc'[w] \in {"done", "list"}
          /\ \A u \in Writers \ {w} : pc'[u] = pc[u]
          /\ Forget(w) /\ file' = file
          /\ pending' = pending \/ pending' = NewReview(base[w], content[w])
      BY <1>3, <1>7 DEF Stage, Replacement, Labels
    <2>2. pending' # None => pending'.old \in Texts /\ pending'.new \in Contents
      BY <2>1 DEF NewReview, TextInv
    <2>. QED  BY <1>6, <2>1, <2>2 DEF TextInv
  <1>8. CASE Overwrite(w)
    <2>1. /\ pc[w] = "overwrite" /\ pc'[w] = "done"
          /\ \A u \in Writers \ {w} : pc'[u] = pc[u]
          /\ Forget(w) /\ file' \in {content[w], file, <<>>}
          /\ pending' = pending
      BY <1>3, <1>8 DEF Overwrite, Labels, store
    <2>2. file' \in Texts \cup {Missing}
      BY <1>2, <2>1 DEF TextInv
    <2>. QED  BY <1>6, <2>1, <2>2 DEF TextInv
  <1>. QED  BY <1>4, <1>5, <1>7, <1>8

(* Decisions, lists and other programs do not touch what writers hold. *)
LEMMA OtherTexts ==
    ASSUME ReviewInv, TextInv, UNCHANGED <<base, content>>,
           \A w \in Writers : pc'[w] = pc[w] \/ pc'[w] \in {"send", "done"},
           file' \in Texts \cup {Missing},
           pending' # None => pending # None /\ pending'.old = pending.old
                                             /\ pending'.new = pending.new
    PROVE  TextInv'
  BY DEF TextInv

LEMMA TextStep ==
    ASSUME ReviewAssumption, ReviewInv, TextInv, [Next]_vars
    PROVE  TextInv'
  <1>0. /\ pc \in [Calls -> Labels]
        /\ Writers \subseteq Calls /\ Deciders \subseteq Calls
        /\ Writers \cap Deciders = {}
    BY DEF ReviewInv, ShapeInv, Calls, ReviewAssumption
  <1>1. ASSUME NEW t \in Calls, NEW l \in Labels, Goto(t, l),
               t \in Deciders \/ l \in {"send", "done"}
        PROVE  \A w \in Writers : pc'[w] = pc[w] \/ pc'[w] \in {"send", "done"}
    BY <1>0, <1>1, Moves
  <1>2. file \in Texts \cup {Missing}
    BY DEF TextInv
  <1>3. ASSUME NEW w \in Writers,
               CallFileWrite(w) \/ ReadOldText(w) \/ Stage(w) \/ Overwrite(w)
        PROVE  TextInv'
    BY <1>3, WriterTexts
  <1>4. ASSUME NEW t \in Calls, List(t) \/ SendChanged(t)
        PROVE  TextInv'
    <2>1. \A w \in Writers : pc'[w] = pc[w] \/ pc'[w] \in {"send", "done"}
      BY <1>1, <1>4 DEF List, SendChanged, Labels
    <2>2. UNCHANGED <<base, content, file, pending>>
      BY <1>4 DEF List, SendChanged, asked, store
    <2>. QED  BY <1>2, <2>1, <2>2, OtherTexts
  <1>5. ASSUME NEW d \in Deciders, Click(d) \/ Decide(d)
        PROVE  TextInv'
    <2>1. \A w \in Writers : pc'[w] = pc[w] \/ pc'[w] \in {"send", "done"}
      BY <1>0, <1>1, <1>5 DEF Click, Decide, Labels
    <2>2. /\ UNCHANGED <<base, content, file>>
          /\ \/ pending' = pending
             \/ pending # None /\ pending' = Marked(pending, decision[d])
      BY <1>5 DEF Click, Decide, store
    <2>3. pending' # None => /\ pending # None
                             /\ pending'.old = pending.old
                             /\ pending'.new = pending.new
      <3>1. pending # None => DOMAIN pending = Fields
        BY DEF ReviewInv, ShapeInv
      <3>2. CASE pending' = pending
        BY <3>2
      <3>3. CASE pending # None /\ pending' = Marked(pending, decision[d])
        <4>1. PICK v : v = decision[d]
          OBVIOUS
        <4>2. /\ Marked(pending, v).old = pending.old
              /\ Marked(pending, v).new = pending.new
          BY <3>1, <3>3, MarkedShape
        <4>. QED  BY <3>3, <4>1, <4>2
      <3>. QED  BY <2>2, <3>2, <3>3
    <2>. QED  BY <1>2, <2>1, <2>2, <2>3, OtherTexts
  <1>6. ASSUME NEW d \in Deciders, Compare(d) \/ Write(d)
        PROVE  TextInv'
    <2>1. \A w \in Writers : pc'[w] = pc[w] \/ pc'[w] \in {"send", "done"}
      BY <1>0, <1>1, <1>6 DEF Compare, Write, Labels
    <2>2. UNCHANGED <<base, content>> /\ (pending' = None \/ pending' = pending)
      BY <1>6 DEF Compare, Write, asked
    <2>3. file' \in Texts \cup {Missing}
      <3>1. CASE Compare(d)
        BY <1>2, <3>1 DEF Compare
      <3>2. CASE Write(d)
        <4>1. ApplyHunks(pending.old, pending.hunks, pending.accepted) \in Texts
          BY <3>2, ResultIsText DEF Write, ReviewInv, StoreInv
        <4>. QED  BY <1>2, <3>2, <4>1 DEF Write, ReviewAssumption
      <3>. QED  BY <1>6, <3>1, <3>2
    <2>. QED  BY <2>1, <2>2, <2>3, OtherTexts
  <1>7. ASSUME Connect \/ Disconnect \/ Edit \/ UNCHANGED vars
        PROVE  TextInv'
    <2>1. UNCHANGED <<pc, base, content, pending>>
      BY <1>7 DEF Connect, Disconnect, Edit, vars, asked, store
    <2>2. file' \in Texts \cup {Missing}
      BY <1>2, <1>7 DEF Connect, Disconnect, Edit, vars, ReviewAssumption
    <2>. QED  BY <2>1, <2>2, OtherTexts
  <1>. QED  BY <1>0, <1>3, <1>4, <1>5, <1>6, <1>7 DEF Next, WriterStep, DeciderStep

LEMMA TextInvHolds == Spec => [](ReviewInv /\ TextInv)
  <1>1. Init => TextInv
    BY ReviewAssumption, TextInit
  <1>2. ReviewInv /\ TextInv /\ [Next]_vars => TextInv'
    BY ReviewAssumption, TextStep
  <1>. QED  BY <1>1, <1>2, ReviewInvHolds, PTL DEF Spec

LEMMA ReviewComposes ==
    ASSUME ReviewAssumption, ReviewInv, TextInv
    PROVE  HunksCompose
  <1>. SUFFICES ASSUME pending # None PROVE HunksCompose
    BY DEF HunksCompose
  <1>1. PICK h : h = pending.hunks
    OBVIOUS
  <1>2. h \in Seq(HunksOver(Lines))
    BY <1>1, HunksOfReview
  <1>3. Len(h) \in Nat /\ DOMAIN h = 1..Len(h)
    BY <1>2, LenProperties
  <1>4. /\ ApplyHunks(pending.old, h, 1..Len(h)) = pending.new
        /\ ApplyHunks(pending.old, h, {}) = pending.old
        /\ \A S : ApplyHunks(pending.old, h, S) = PatchAll(pending.old, h, S)
    BY <1>1, HunksOfReview
  <1>. QED  BY <1>1, <1>3, <1>4 DEF HunksCompose

LEMMA ReviewIsMinimal ==
    ASSUME ReviewAssumption, ReviewInv, TextInv
    PROVE  DiffIsMinimal
  <1>. SUFFICES ASSUME pending # None
                PROVE  Changes(pending.hunks) = FewestChanges(pending.old, pending.new)
    BY DEF DiffIsMinimal
  <1>1. PICK x, y : x = pending.old /\ y = pending.new
    OBVIOUS
  <1>2. /\ x \in Seq(Lines) /\ y \in Seq(Lines)
        /\ pending.hunks = ComputeHunks(x, y)
    BY <1>1, HunksOfReview
  <1>3. Changes(ComputeHunks(x, y)) = FewestChanges(x, y)
    BY ONLY <1>2, HunksAreFewest
  <1>. QED  BY <1>1, <1>2, <1>3

(* Whatever agents write and users decide, every choice among the hunks of  *)
(* the review in the store gives the text that patching them in one by one  *)
(* gives; all of them give what the agent wrote, none gives the file as it  *)
(* was; and no diff of the two texts deletes and inserts fewer lines        *)
(* (ComputeHunks, diffMiddle and ApplyHunks, hunk.go:19-131).               *)
THEOREM HunksRight == Spec => []HunksAreRight
  <1>1. ReviewInv /\ TextInv => HunksAreRight
    BY ReviewAssumption, ReviewComposes, ReviewIsMinimal DEF HunksAreRight
  <1>. QED  BY <1>1, TextInvHolds, PTL

-----------------------------------------------------------------------------
(* What decisions add up to *)

(* What was wanted depends only on the decisions on the review. *)
LEMMA SameWanted ==
    ASSUME NEW r, NEW k, DecisionsOn(r)' = DecisionsOn(r),
           \A i \in DecisionsOn(r) : applied'[i] = applied[i]
    PROVE  Wanted(r, k)' = Wanted(r, k)
  <1>. DEFINE single == {j \in DecisionsOn(r) : k \in applied[j].by.hunks}
              bulk == {j \in DecisionsOn(r) : applied[j].by.bulk}
  <1>1. single' = single /\ bulk' = bulk
    OBVIOUS
  <1>2. ASSUME NEW i PROVE IsLastOn(i, r, k)' = IsLastOn(i, r, k)
    <2>1. /\ IsLastOn(i, r, k) =
                \/ i \in single /\ \A j \in single : j <= i
                \/ single = {} /\ i \in bulk /\ \A j \in bulk : i <= j
          /\ IsLastOn(i, r, k)' =
                \/ i \in single' /\ \A j \in single' : j <= i
                \/ single' = {} /\ i \in bulk' /\ \A j \in bulk' : i <= j
      BY Zenon DEF IsLastOn
    <2>. HIDE DEF single, bulk
    <2>. QED  BY <1>1, <2>1, Zenon
  <1>. HIDE DEF single, bulk
  <1>. QED  BY <1>2 DEF Wanted

(* A decision on one review says nothing of the others. *)
LEMMA OthersStay ==
    ASSUME applied \in Seq(Range(applied)), NEW r, NEW v,
           applied' = Append(applied, [on |-> r, by |-> v]), NEW q, q # r
    PROVE  /\ DecisionsOn(q)' = DecisionsOn(q)
           /\ \A i \in DecisionsOn(q) : applied'[i] = applied[i]
           /\ Untouched(q)' = Untouched(q)
           /\ \A k : Wanted(q, k)' = Wanted(q, k)
  <1>. DEFINE e == [on |-> r, by |-> v]
  <1>1. /\ DOMAIN applied = 1..Len(applied)
        /\ DOMAIN applied' = 1..Len(applied) + 1
        /\ \A i \in 1..Len(applied) : applied'[i] = applied[i]
        /\ applied'[Len(applied) + 1] = e
        /\ Len(applied) \in Nat
    BY Appended
  <1>2. DOMAIN applied' = DOMAIN applied \cup {Len(applied) + 1}
    BY <1>1
  <1>3. /\ DecisionsOn(q)' = DecisionsOn(q)
        /\ \A i \in DecisionsOn(q) : applied'[i] = applied[i]
    BY <1>1, <1>2 DEF DecisionsOn
  <1>4. Untouched(q)' = Untouched(q)
    BY <1>3 DEF Untouched
  <1>5. ASSUME NEW k PROVE Wanted(q, k)' = Wanted(q, k)
    BY <1>3, SameWanted
  <1>. QED  BY <1>3, <1>4, <1>5

LEMMA SameHistory ==
    ASSUME applied' = applied, NEW r
    PROVE  /\ DecisionsOn(r)' = DecisionsOn(r)
           /\ Untouched(r)' = Untouched(r)
           /\ \A k : Wanted(r, k)' = Wanted(r, k)
  <1>1. DecisionsOn(r)' = DecisionsOn(r)
    BY DEF DecisionsOn
  <1>2. Untouched(r)' = Untouched(r)
    BY <1>1 DEF Untouched
  <1>3. ASSUME NEW k PROVE Wanted(r, k)' = Wanted(r, k)
    BY <1>1, SameWanted
  <1>. QED  BY <1>1, <1>2, <1>3

(* One on a review is its last. *)
LEMMA OneMore ==
    ASSUME applied \in Seq(Range(applied)), NEW r, NEW v,
           applied' = Append(applied, [on |-> r, by |-> v])
    PROVE  LET n == Len(applied) + 1
           IN /\ DecisionsOn(r)' = DecisionsOn(r) \cup {n}
              /\ \A i \in DecisionsOn(r) :
                    i \in Nat /\ i < n /\ applied'[i] = applied[i]
              /\ applied'[n].by = v
              /\ n \in Nat
              /\ n \notin DecisionsOn(r)
  <1>. DEFINE e == [on |-> r, by |-> v]
  <1>1. /\ DOMAIN applied = 1..Len(applied)
        /\ DOMAIN applied' = 1..Len(applied) + 1
        /\ \A i \in 1..Len(applied) : applied'[i] = applied[i]
        /\ applied'[Len(applied) + 1] = e
        /\ Len(applied) \in Nat
    BY Appended
  <1>2. DOMAIN applied' = DOMAIN applied \cup {Len(applied) + 1}
    BY <1>1
  <1>. QED  BY <1>1, <1>2 DEF DecisionsOn

(* What a decision on the review in the store does to what was wanted. *)
LEMMA BulkDecides ==
    ASSUME NEW n \in Nat, NEW r, NEW k, NEW v, v.bulk, v.hunks = {},
           v.value \in BOOLEAN,
           DecisionsOn(r)' = DecisionsOn(r) \cup {n},
           n \notin DecisionsOn(r), applied'[n].by = v,
           \A i \in DecisionsOn(r) : /\ i \in Nat /\ i < n
                                     /\ applied'[i] = applied[i]
    PROVE  Wanted(r, k)' <=>
             IF \E i \in DecisionsOn(r) : IsOn(i, k)
             THEN Wanted(r, k) ELSE v.value
  <1>. DEFINE single == {j \in DecisionsOn(r) : k \in applied[j].by.hunks}
              bulk == {j \in DecisionsOn(r) : applied[j].by.bulk}
  <1>0. \A i \in single \cup bulk :
            i \in Nat /\ i < n /\ applied'[i] = applied[i]
    OBVIOUS
  <1>1. \A i : IsLastOn(i, r, k)' <=>
               \/ i \in single /\ \A j \in single : j <= i
               \/ /\ single = {} /\ i \in bulk \cup {n}
                  /\ \A j \in bulk \cup {n} : i <= j
    BY DEF IsLastOn
  <1>2. \A i : IsLastOn(i, r, k) <=>
               \/ i \in single /\ \A j \in single : j <= i
               \/ single = {} /\ i \in bulk /\ \A j \in bulk : i <= j
    BY DEF IsLastOn
  <1>3. (\E i \in DecisionsOn(r) : IsOn(i, k)) <=> single # {} \/ bulk # {}
    BY DEF IsOn
  <1>. HIDE DEF single, bulk
  <1>4. CASE single = {} /\ bulk = {}
    <2>1. \A i : IsLastOn(i, r, k)' <=> i = n
      BY <1>1, <1>4
    <2>. QED  BY <1>3, <1>4, <2>1 DEF Wanted
  <1>5. CASE single # {} \/ bulk # {}
    <2>1. \A i : IsLastOn(i, r, k)' <=> IsLastOn(i, r, k)
      BY <1>0, <1>1, <1>2, <1>5
    <2>2. \A i : IsLastOn(i, r, k) => i \in single \cup bulk
      BY <1>2
    <2>. QED  BY <1>0, <1>3, <1>5, <2>1, <2>2 DEF Wanted
  <1>. QED  BY <1>4, <1>5

LEMMA SingleDecides ==
    ASSUME NEW n \in Nat, NEW r, NEW k, NEW v, ~v.bulk,
           v.value \in BOOLEAN,
           DecisionsOn(r)' = DecisionsOn(r) \cup {n},
           n \notin DecisionsOn(r), applied'[n].by = v,
           \A i \in DecisionsOn(r) : /\ i \in Nat /\ i < n
                                     /\ applied'[i] = applied[i]
    PROVE  Wanted(r, k)' <=> IF k \in v.hunks THEN v.value ELSE Wanted(r, k)
  <1>1. CASE k \in v.hunks
    <2>1. \A i : IsLastOn(i, r, k)' <=> i = n
      BY <1>1 DEF IsLastOn
    <2>. QED  BY <1>1, <2>1 DEF Wanted
  <1>2. CASE k \notin v.hunks
    <2>1. \A i : IsLastOn(i, r, k)' <=> IsLastOn(i, r, k)
      BY <1>2 DEF IsLastOn
    <2>2. ~IsLastOn(n, r, k)
      BY DEF IsLastOn
    <2>. QED  BY <1>2, <2>1, <2>2 DEF Wanted
  <1>. QED  BY <1>1, <1>2

LEMMA CountTo == ASSUME NEW n \in Nat PROVE Cardinality(1..n) = n
  BY FS_Interval

(* Every hunk has a decision once as many are counted as there are hunks. *)
LEMMA AllAreDecided ==
    ASSUME HunksCompose, pending # None,
           pending.decided \subseteq DOMAIN pending.hunks
    PROVE  Resolved(pending) <=> pending.decided = DOMAIN pending.hunks
  <1>. DEFINE n == Len(pending.hunks)
  <1>1. n \in Nat /\ DOMAIN pending.hunks = 1..n
    BY DEF HunksCompose
  <1>. HIDE DEF n
  <1>2. IsFiniteSet(1..n) /\ Cardinality(1..n) = n
    BY <1>1, FS_Interval, CountTo
  <1>3. Cardinality(pending.decided) = n <=> pending.decided = 1..n
    BY <1>1, <1>2, FS_Subset
  <1>. QED  BY <1>1, <1>3 DEF Resolved, n

(* A decision keeps the review in the store true to what was decided. *)
LEMMA DecideIsCounted ==
    ASSUME ReviewAssumption, ReviewInv, OutcomeInv, NEW d \in Deciders, Decide(d)
    PROVE  PendingInv'
  <1>1. CASE pending = None
    BY <1>1, DecideDoes DEF PendingInv
  <1>2. ASSUME pending # None PROVE PendingInv'
    <2>1. PICK r, v, n : /\ r = pending.review
                         /\ v = decision[d]
                         /\ n = Len(applied) + 1
      OBVIOUS
    <2>2. /\ IsMeant(v)
          /\ pending' = Marked(pending, v)
          /\ applied' = Append(applied, [on |-> r, by |-> v])
      BY <1>2, <2>1, DecideDoes
    <2>3. /\ pending'.review = r
          /\ pending'.hunks = pending.hunks
          /\ pending'.decided = pending.decided \cup DecidedBy(v, pending)
          /\ pending'.accepted =
                IF v.value THEN pending.accepted \cup DecidedBy(v, pending)
                ELSE pending.accepted \ DecidedBy(v, pending)
      BY <1>2, <2>1, <2>2, MarkedShape DEF ReviewInv, ShapeInv
    <2>4. /\ DecisionsOn(r)' = DecisionsOn(r) \cup {n}
          /\ \A i \in DecisionsOn(r) :
                i \in Nat /\ i < n /\ applied'[i] = applied[i]
          /\ applied'[n].by = v
          /\ n \in Nat
          /\ n \notin DecisionsOn(r)
      BY <2>1, <2>2, OneMore DEF ReviewInv, ShapeInv
    <2>5. /\ v.bulk \in BOOLEAN /\ v.value \in BOOLEAN
          /\ v.bulk => v.hunks = {}
      BY <2>2 DEF IsMeant
    <2>. DEFINE hunks == DOMAIN pending.hunks
    <2>6. \A k \in hunks :
            /\ k \in pending.decided <=> \E i \in DecisionsOn(r) : IsOn(i, k)
            /\ k \in pending.accepted <=> Wanted(r, k)
      BY <1>2, <2>1 DEF OutcomeInv, PendingInv
    <2>7. DecidedBy(v, pending) = IF v.bulk THEN hunks \ pending.decided
                                  ELSE v.hunks
      BY DEF DecidedBy
    <2>8. \A k : (\E i \in DecisionsOn(r)' : IsOn(i, k)') <=>
                    \/ \E i \in DecisionsOn(r) : IsOn(i, k)
                    \/ v.bulk \/ k \in v.hunks
      BY <2>4 DEF IsOn
    <2>9. \A k \in hunks : k \in pending'.decided <=>
                             \E i \in DecisionsOn(r)' : IsOn(i, k)'
      <3>1. \A k \in hunks : k \in pending'.decided <=>
                               k \in pending.decided \/ v.bulk \/ k \in v.hunks
        BY ONLY <2>3, <2>5, <2>7
      <3>. QED  BY <2>6, <2>8, <3>1
    <2>10. \A k \in hunks : k \in pending'.accepted <=> Wanted(r, k)'
      <3>1. CASE v.bulk
        <4>1. \A k : Wanted(r, k)' <=>
                        IF \E i \in DecisionsOn(r) : IsOn(i, k)
                        THEN Wanted(r, k) ELSE v.value
          BY <2>4, <2>5, <3>1, BulkDecides
        <4>2. \A k \in hunks : Wanted(r, k)' <=>
                                 IF k \in pending.decided
                                 THEN k \in pending.accepted ELSE v.value
          BY <2>6, <4>1
        <4>3. \A k \in hunks : k \in pending.accepted => k \in pending.decided
          BY <1>2 DEF ReviewInv, StoreInv, Reviewing
        <4>. QED  BY <2>3, <2>5, <2>7, <3>1, <4>2, <4>3
      <3>2. CASE ~v.bulk
        <4>1. \A k : Wanted(r, k)' <=> IF k \in v.hunks THEN v.value
                                       ELSE Wanted(r, k)
          BY <2>4, <2>5, <3>2, SingleDecides
        <4>. QED  BY <2>3, <2>5, <2>6, <2>7, <3>2, <4>1
      <3>. QED  BY <2>5, <3>1, <3>2
    <2>11. Untouched(r)' => pending'.decided \subseteq hunks
      <3>. SUFFICES ASSUME Untouched(r)' PROVE pending'.decided \subseteq hunks
        OBVIOUS
      <3>1. Untouched(r) /\ v.review = r
        BY <2>4 DEF Untouched
      <3>2. pending.decided \subseteq hunks
        BY <1>2, <2>1, <3>1 DEF OutcomeInv, PendingInv
      <3>3. v.hunks \subseteq hunks
        BY <1>2, <2>1, <2>2, <3>1 DEF IsMeant
      <3>. QED  BY <2>3, <2>7, <3>2, <3>3
    <2>12. \A k : k \in hunks <=> k \in DOMAIN pending'.hunks
      BY <2>3
    <2>. QED  BY <2>3, <2>9, <2>10, <2>11, <2>12 DEF PendingInv
  <1>. QED  BY <1>1, <1>2

(* What an outcome should be. *)
WrittenAsWanted(o) ==
    o.text = PatchAll(o.p.old, o.p.hunks,
                      {k \in DOMAIN o.p.hunks : Wanted(o.p.review, k)})
AllDecided(o) ==
    \A k \in DOMAIN o.p.hunks : \E i \in DecisionsOn(o.p.review) : IsOn(i, k)
Fits(o) ==
    /\ WrittenAsWanted(o)
    /\ Untouched(o.p.review) => AllDecided(o)

LEMMA OutcomesFit == OutcomeIsReviewed <=> \A o \in written : Fits(o)
  BY DEF OutcomeIsReviewed, Fits, WrittenAsWanted, AllDecided, IsOn

(* What was written stays right while nothing else is decided on it. *)
LEMMA OutcomeStays ==
    ASSUME NEW o, Fits(o),
           LET r == o.p.review
           IN /\ DecisionsOn(r)' = DecisionsOn(r)
              /\ \A i \in DecisionsOn(r) : applied'[i] = applied[i]
              /\ Untouched(r)' = Untouched(r)
              /\ \A k : Wanted(r, k)' = Wanted(r, k)
    PROVE  /\ o.text = PatchAll(o.p.old, o.p.hunks,
                           {k \in DOMAIN o.p.hunks : Wanted(o.p.review, k)'})
           /\ Untouched(o.p.review)' =>
                \A k \in DOMAIN o.p.hunks :
                    \E i \in DecisionsOn(o.p.review)' : IsOn(i, k)'
  BY DEF Fits, WrittenAsWanted, AllDecided, IsOn

(* The outcomes are right when each one is one that was, or fits. *)
LEMMA OutcomesGo ==
    ASSUME \A o \in written' :
               /\ Fits(o)
               /\ LET r == o.p.review
                  IN /\ DecisionsOn(r)' = DecisionsOn(r)
                     /\ \A i \in DecisionsOn(r) : applied'[i] = applied[i]
                     /\ Untouched(r)' = Untouched(r)
                     /\ \A k : Wanted(r, k)' = Wanted(r, k)
    PROVE  OutcomeIsReviewed'
  <1>1. \A o \in written' :
          /\ o.text = PatchAll(o.p.old, o.p.hunks,
                          {k \in DOMAIN o.p.hunks : Wanted(o.p.review, k)'})
          /\ Untouched(o.p.review)' =>
               \A k \in DOMAIN o.p.hunks :
                   \E i \in DecisionsOn(o.p.review)' : IsOn(i, k)'
    BY OutcomeStays
  <1>. QED  BY <1>1 DEF OutcomeIsReviewed, IsOn

(* What is written is what was wanted of the review in the store. *)
LEMMA WriteIsReviewed ==
    ASSUME ReviewAssumption, ReviewInv, TextInv, OutcomeInv,
           NEW d \in Deciders, Write(d)
    PROVE  OutcomeInv'
  <1>1. /\ pending # None /\ Resolved(pending)
        /\ pending' = None
        /\ applied' = applied
    BY DEF Write, ReviewInv, StoreInv
  <1>2. PendingInv'
    BY <1>1 DEF PendingInv
  <1>3. PICK o : /\ o.p = pending
                 /\ o.text = ApplyHunks(pending.old, pending.hunks,
                                        pending.accepted)
                 /\ written' = written \/ written' = written \cup {o}
    <2>. DEFINE o == [p |-> pending, text |-> ApplyHunks(pending.old,
                                             pending.hunks, pending.accepted)]
    <2>1. written' = written \/ written' = written \cup {o}
      BY DEF Write
    <2>. QED  BY <2>1
  <1>4. WrittenAsWanted(o)
    <2>0. PICK x, h, S, r : /\ x = pending.old /\ h = pending.hunks
                            /\ S = pending.accepted /\ r = pending.review
      OBVIOUS
    <2>1. PICK T : T = {k \in DOMAIN h : Wanted(r, k)}
      OBVIOUS
    <2>2. /\ x \in Seq(Lines) /\ h \in Seq(HunksOver(Lines)) /\ InOrder(x, h)
          /\ \A U : ApplyHunks(x, h, U) = PatchAll(x, h, U)
      BY <1>1, <2>0, HunksOfReview
    <2>3. DOMAIN h = 1..Len(h)
      BY <2>2, LenProperties
    <2>4. \A k \in 1..Len(h) : k \in S <=> k \in T
      BY <1>1, <2>0, <2>1, <2>3 DEF OutcomeInv, PendingInv
    <2>5. ApplyHunks(x, h, S) = ApplyHunks(x, h, T)
      BY ONLY <2>2, <2>4, OtherNumbers
    <2>6. o.text = PatchAll(x, h, T)
      BY <1>3, <2>0, <2>2, <2>5
    <2>. QED  BY <1>3, <2>0, <2>1, <2>6 DEF WrittenAsWanted
  <1>5. ASSUME Untouched(pending.review) PROVE AllDecided(o)
    <2>1. pending.decided \subseteq DOMAIN pending.hunks
      BY <1>1, <1>5 DEF OutcomeInv, PendingInv
    <2>2. pending.decided = DOMAIN pending.hunks
      BY <1>1, <2>1, ReviewComposes, AllAreDecided
    <2>. QED  BY <1>1, <1>3, <2>2 DEF AllDecided, OutcomeInv, PendingInv
  <1>6. Fits(o)
    BY <1>3, <1>4, <1>5 DEF Fits
  <1>7. \A x \in written' : Fits(x)
    BY <1>3, <1>6, OutcomesFit DEF OutcomeInv
  <1>8. OutcomeIsReviewed'
    BY <1>1, <1>7, SameHistory, OutcomesGo
  <1>. QED  BY <1>2, <1>8 DEF OutcomeInv

(* A decision on the review in the store leaves earlier outcomes alone. *)
LEMMA DecideLeavesOutcomes ==
    ASSUME ReviewInv, OutcomeInv, NEW d \in Deciders, Decide(d)
    PROVE  OutcomeIsReviewed'
  <1>1. written' = written /\ \A x \in written : Fits(x)
    BY DecideDoes, OutcomesFit DEF OutcomeInv
  <1>2. CASE applied' = applied
    BY <1>1, <1>2, SameHistory, OutcomesGo
  <1>3. CASE applied' # applied
    <2>1. PICK r, v : /\ r = pending.review /\ pending # None
                      /\ applied' = Append(applied, [on |-> r, by |-> v])
      BY <1>3, DecideDoes
    <2>2. \A x \in written : x.p.review # r
      BY <2>1 DEF ReviewInv, HistoryInv
    <2>3. ASSUME NEW q, q # r
          PROVE  /\ DecisionsOn(q)' = DecisionsOn(q)
                 /\ \A i \in DecisionsOn(q) : applied'[i] = applied[i]
                 /\ Untouched(q)' = Untouched(q)
                 /\ \A k : Wanted(q, k)' = Wanted(q, k)
      <3>1. applied \in Seq(Range(applied))
        BY DEF ReviewInv, ShapeInv
      <3>2. applied' = Append(applied, [on |-> r, by |-> v])
        BY <2>1
      <3>. QED  BY ONLY <3>1, <3>2, <2>3, OthersStay
    <2>. QED  BY <1>1, <2>2, <2>3, OutcomesGo
  <1>. QED  BY <1>2, <1>3

(* Steps that apply no decision and write no review. *)
LEMMA OutcomesStay ==
    ASSUME OutcomeInv, UNCHANGED <<applied, written>>
    PROVE  OutcomeIsReviewed'
  <1>1. \A x \in written' : Fits(x)
    BY OutcomesFit DEF OutcomeInv
  <1>. QED  BY <1>1, SameHistory, OutcomesGo

LEMMA PendingStays ==
    ASSUME PendingInv, UNCHANGED <<pending, applied>>
    PROVE  PendingInv'
  <1>. SUFFICES ASSUME pending # None PROVE PendingInv'
    BY DEF PendingInv
  <1>1. PICK r : r = pending.review
    OBVIOUS
  <1>2. /\ DecisionsOn(r)' = DecisionsOn(r)
        /\ Untouched(r)' = Untouched(r)
        /\ \A k : Wanted(r, k)' = Wanted(r, k)
    BY SameHistory
  <1>3. /\ \A k \in DOMAIN pending.hunks :
              /\ k \in pending.decided <=> \E i \in DecisionsOn(r) : IsOn(i, k)
              /\ k \in pending.accepted <=> Wanted(r, k)
        /\ Untouched(r) => pending.decided \subseteq DOMAIN pending.hunks
    BY <1>1 DEF PendingInv
  <1>. QED  BY <1>1, <1>2, <1>3 DEF PendingInv, IsOn

(* A review starts with nothing decided: its name is new. *)
LEMMA StageStartsAfresh ==
    ASSUME ReviewInv, OutcomeInv, NEW w \in Writers, Stage(w)
    PROVE  PendingInv'
  <1>1. CASE UNCHANGED pending
    BY <1>1, PendingStays DEF Stage, OutcomeInv
  <1>2. CASE ~UNCHANGED pending
    <2>1. PICK r : r = staged + 1
      OBVIOUS
    <2>2. /\ pending'.review = r
          /\ pending'.decided = {} /\ pending'.accepted = {}
          /\ applied' = applied
      BY <1>2, <2>1 DEF Stage, Replacement, NewReview
    <2>3. DecisionsOn(r)' = {}
      BY <2>1, <2>2 DEF DecisionsOn, ReviewInv, HistoryInv, ShapeInv
    <2>4. \A k : ~Wanted(r, k)'
      BY <2>3 DEF Wanted
    <2>. QED  BY <2>2, <2>3, <2>4 DEF PendingInv
  <1>. QED  BY <1>1, <1>2

LEMMA OutcomeInit ==
    ASSUME Init
    PROVE  OutcomeInv
  BY DEF Init, OutcomeInv, PendingInv, OutcomeIsReviewed

LEMMA OutcomeStep ==
    ASSUME ReviewAssumption, ReviewInv, TextInv, OutcomeInv, [Next]_vars
    PROVE  OutcomeInv'
  <1>. DEFINE Quiet == UNCHANGED <<pending, applied, written>>
  <1>1. ASSUME Quiet PROVE OutcomeInv'
    BY <1>1, PendingStays, OutcomesStay DEF OutcomeInv
  <1>2. ASSUME NEW w \in Writers,
               CallFileWrite(w) \/ ReadOldText(w) \/ Overwrite(w)
        PROVE  OutcomeInv'
    <2>1. Quiet
      BY <1>2 DEF CallFileWrite, ReadOldText, Overwrite, store
    <2>. QED  BY <1>1, <2>1
  <1>3. ASSUME NEW w \in Writers, Stage(w)
        PROVE  OutcomeInv'
    <2>1. UNCHANGED <<applied, written>>
      BY <1>3 DEF Stage
    <2>. QED  BY <1>3, <2>1, StageStartsAfresh, OutcomesStay DEF OutcomeInv
  <1>4. ASSUME NEW t \in Calls, List(t) \/ SendChanged(t)
        PROVE  OutcomeInv'
    <2>1. Quiet
      BY <1>4 DEF List, SendChanged, store
    <2>. QED  BY <1>1, <2>1
  <1>5. ASSUME NEW d \in Deciders, Decide(d)
        PROVE  OutcomeInv'
    BY <1>5, DecideIsCounted, DecideLeavesOutcomes DEF OutcomeInv
  <1>6. ASSUME NEW d \in Deciders, Compare(d)
        PROVE  OutcomeInv'
    <2>1. UNCHANGED <<applied, written>>
      BY <1>6 DEF Compare
    <2>2. PendingInv'
      <3>1. CASE pending' = None
        BY <3>1 DEF PendingInv
      <3>2. CASE UNCHANGED pending
        BY <2>1, <3>2, PendingStays DEF OutcomeInv
      <3>. QED  BY <1>6, <3>1, <3>2 DEF Compare
    <2>. QED  BY <2>1, <2>2, OutcomesStay DEF OutcomeInv
  <1>7. ASSUME NEW d \in Deciders, Write(d)
        PROVE  OutcomeInv'
    BY <1>7, WriteIsReviewed
  <1>8. ASSUME \/ \E d \in Deciders : Click(d)
               \/ Connect \/ Disconnect \/ Edit \/ UNCHANGED vars
        PROVE  OutcomeInv'
    <2>1. Quiet
      BY <1>8 DEF Click, Connect, Disconnect, Edit, store, vars
    <2>. QED  BY <1>1, <2>1
  <1>. QED  BY <1>2, <1>3, <1>4, <1>5, <1>6, <1>7, <1>8
            DEF Next, WriterStep, DeciderStep, Calls

(* However agents, decisions and other programs interleave, what a review   *)
(* leaves in the file is the text that was staged, cut down to the hunks    *)
(* that the decisions applied to that review accepted, whichever review     *)
(* each of them was made looking at; and when they were all made looking at *)
(* it, every hunk had one (decideMany, pending.go:82-123; Stage, :42-58).   *)
THEOREM ReviewOutcomes == Spec => []OutcomeIsReviewed
  <1>1. Init => OutcomeInv
    BY OutcomeInit
  <1>2. ReviewInv /\ TextInv /\ OutcomeInv /\ [Next]_vars => OutcomeInv'
    BY ReviewAssumption, OutcomeStep
  <1>3. OutcomeInv => OutcomeIsReviewed
    BY DEF OutcomeInv
  <1>. QED  BY <1>1, <1>2, <1>3, TextInvHolds, PTL DEF Spec
=============================================================================
