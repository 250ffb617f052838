-------------------------------- MODULE Hunks --------------------------------
(***************************************************************************)
(* The diff algorithm of internal/diffreview/hunk.go: the hunks that turn  *)
(* one text into another, and the text that a choice of hunks gives.       *)
(*                                                                         *)
(* A text is the sequence of its lines.  Splitting the empty text gives no *)
(* line, and joining the single empty line gives the empty text, so        *)
(* <<Blank>> is the one sequence that is not a text.  A hunk is named by   *)
(* its position, as ComputeHunks numbers them.                             *)
(***************************************************************************)
EXTENDS Naturals, Sequences, FiniteSets, SequencesExt

CONSTANT Blank      \* the empty line

Join(lines) == IF lines = <<Blank>> THEN <<>> ELSE lines

CommonPrefix(a, b) ==
    Min({k \in 0..Len(a) : k = Len(a) \/ k >= Len(b) \/ a[k + 1] # b[k + 1]})
CommonSuffix(a, b) == CommonPrefix(Reverse(a), Reverse(b))

(* Length of a longest common subsequence of the lines behind the first i  *)
(* of o and the first j of n, for p = <<i, j>>.                             *)
LcsTable(o, n) ==
    LET t[p \in (0..Len(o)) \X (0..Len(n))] ==
            IF p[1] = Len(o) \/ p[2] = Len(n) THEN 0
            ELSE LET both == t[<<p[1] + 1, p[2] + 1>>]
                     down == t[<<p[1] + 1, p[2]>>]
                     right == t[<<p[1], p[2] + 1>>]
                 IN IF o[p[1] + 1] = n[p[2] + 1] THEN both + 1
                    ELSE IF down >= right THEN down ELSE right
    IN t

Op(kind, line) == [kind |-> kind, line |-> line]

(* One operation: i lines of o and j lines of n are behind it.              *)
Advance(o, n, t, s) ==
    IF s.i < Len(o) /\ s.j < Len(n) /\ o[s.i + 1] = n[s.j + 1]
    THEN [i |-> s.i + 1, j |-> s.j + 1,
          ops |-> Append(s.ops, Op("equal", o[s.i + 1]))]
    ELSE IF s.i < Len(o) /\ (s.j = Len(n) \/ t[<<s.i + 1, s.j>>] >= t[<<s.i, s.j + 1>>])
    THEN [i |-> s.i + 1, j |-> s.j, ops |-> Append(s.ops, Op("del", o[s.i + 1]))]
    ELSE IF s.j < Len(n)
    THEN [i |-> s.i, j |-> s.j + 1, ops |-> Append(s.ops, Op("ins", n[s.j + 1]))]
    ELSE s

Walk(o, n) ==
    LET t == LcsTable(o, n)
        w[k \in 0..Len(o) + Len(n)] ==
            IF k = 0 THEN [i |-> 0, j |-> 0, ops |-> <<>>]
            ELSE Advance(o, n, t, w[k - 1])
    IN w

DiffMiddle(o, n) == Walk(o, n)[Len(o) + Len(n)].ops

(* The lines collected since the last equal one are a hunk, if any.         *)
Flush(s) ==
    IF s.old = <<>> /\ s.new = <<>> THEN s.hunks
    ELSE Append(s.hunks, [start |-> s.start, old |-> s.old, new |-> s.new])

Collect(s, op) ==
    CASE op.kind = "equal" -> [hunks |-> Flush(s), at |-> s.at + 1,
                               start |-> s.at + 1, old |-> <<>>, new |-> <<>>]
      [] op.kind = "del" -> [s EXCEPT !.old = Append(@, op.line), !.at = @ + 1]
      [] op.kind = "ins" -> [s EXCEPT !.new = Append(@, op.line)]

(* Consecutive operations that change something are grouped.                *)
Grouped(ops, pre) ==
    LET g[k \in 0..Len(ops)] ==
            IF k = 0
            THEN [hunks |-> <<>>, at |-> pre, start |-> pre, old |-> <<>>, new |-> <<>>]
            ELSE Collect(g[k - 1], ops[k])
    IN g

ComputeHunks(old, new) ==
    LET pre == CommonPrefix(old, new)
        suf == CommonSuffix(SubSeq(old, pre + 1, Len(old)),
                            SubSeq(new, pre + 1, Len(new)))
        ops == DiffMiddle(SubSeq(old, pre + 1, Len(old) - suf),
                          SubSeq(new, pre + 1, Len(new) - suf))
    IN Flush(Grouped(ops, pre)[Len(ops)])

(* Mutant of Rebuilt: the cursor does not skip the lines a hunk replaces.   *)
RebuiltWithoutSkip(old, hunks, accepted) ==
    LET r[k \in 0..Len(hunks)] ==
            IF k = 0 THEN [out |-> <<>>, cursor |-> 0]
            ELSE LET h == hunks[k]
                     before == SubSeq(old, r[k - 1].cursor + 1, h.start)
                 IN [out |-> r[k - 1].out \o before
                                \o (IF k \in accepted THEN h.new ELSE h.old),
                     cursor |-> h.start]
    IN r

(* What is out, and how far in the old text, after each hunk.               *)
Rebuilt(old, hunks, accepted) ==
    LET r[k \in 0..Len(hunks)] ==
            IF k = 0 THEN [out |-> <<>>, cursor |-> 0]
            ELSE LET h == hunks[k]
                     before == SubSeq(old, r[k - 1].cursor + 1, h.start)
                 IN [out |-> r[k - 1].out \o before
                                \o (IF k \in accepted THEN h.new ELSE h.old),
                     cursor |-> h.start + Len(h.old)]
    IN r

ApplyHunks(old, hunks, accepted) ==
    LET last == Rebuilt(old, hunks, accepted)[Len(hunks)]
    IN Join(last.out \o SubSeq(old, last.cursor + 1, Len(old)))

-----------------------------------------------------------------------------
(* What the algorithm should compute, said without it. *)

(* One hunk, on the text it was computed for. *)
Patch(text, h) ==
    SubSeq(text, 1, h.start) \o h.new
        \o SubSeq(text, h.start + Len(h.old) + 1, Len(text))

(* The chosen hunks one at a time, the last first, so that each still finds *)
(* its lines where it expects them.                                         *)
Patched(text, hunks, accepted) ==
    LET p[k \in 0..Len(hunks)] ==
            IF k = 0 THEN text
            ELSE LET m == Len(hunks) + 1 - k
                 IN IF m \in accepted THEN Patch(p[k - 1], hunks[m]) ELSE p[k - 1]
    IN p

PatchAll(text, hunks, accepted) == Join(Patched(text, hunks, accepted)[Len(hunks)])

(* Places of the same line in both texts, in the same order in both: a      *)
(* common subsequence.                                                      *)
Matchings(old, new) ==
    LET same == {p \in (1..Len(old)) \X (1..Len(new)) : old[p[1]] = new[p[2]]}
    IN {M \in SUBSET same : \A p, q \in M : p[1] < q[1] <=> p[2] < q[2]}

(* The fewest lines to delete and insert, over all common subsequences. *)
FewestChanges(old, new) ==
    Len(old) + Len(new) - 2 * Max({Cardinality(M) : M \in Matchings(old, new)})

(* The lines deleted and inserted, hunk by hunk. *)
Counted(hunks) ==
    LET c[k \in 0..Len(hunks)] ==
            IF k = 0 THEN 0
            ELSE c[k - 1] + Len(hunks[k].old) + Len(hunks[k].new)
    IN c

Changes(hunks) == Counted(hunks)[Len(hunks)]
=============================================================================
