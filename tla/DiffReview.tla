----------------------------- MODULE DiffReview -----------------------------
(***************************************************************************)
(* The review of the changes agents make to a file in gate mode            *)
(* (internal/diffreview/pending.go, internal/mcp/native_file.go, the       *)
(* handlers of internal/diff_review_methods.go, and DiffReviewView.swift). *)
(*                                                                         *)
(* file_write stages a change; the store keeps the newest one; the app     *)
(* shows it and sends decisions; the decision that makes as many as there  *)
(* are hunks writes the file.  Reviews of different files share nothing    *)
(* but the store's lock, so there is one file here.  Any other program may *)
(* change the file or remove it at any time.  The app comes and goes, and  *)
(* sees the lists that are sent while it is connected.                     *)
(***************************************************************************)
EXTENDS Hunks

CONSTANTS
    Writers,        \* calls of file_write
    Deciders,       \* clicks, each with its diffReview request
    Disk,           \* the texts that other programs leave in the file
    Contents,       \* the texts that agents write
    Texts,          \* the texts that are ever in the file, the results of
                    \* reviews included
    Missing,        \* there is no file
    NoReview,
    Free,           \* nobody holds the store's lock
    MaxEdits        \* bound on what other programs do to the file

ASSUME ReviewAssumption ==
    /\ Missing \notin Texts
    /\ Disk \cup Contents \cup {<<>>} \subseteq Texts
    /\ \A text \in Texts : text \in Seq(Range(text)) /\ text # <<Blank>>
    /\ \A old \in Texts, new \in Contents :
          LET hunks == ComputeHunks(old, new)
          IN \A S \in SUBSET (1..Len(hunks)) :
                PatchAll(old, hunks, S) \in Texts
    /\ NoReview \notin Nat
    /\ Free \notin Writers \cup Deciders
    /\ Writers \cap Deciders = {}
    /\ IsFiniteSet(Deciders)
    /\ MaxEdits \in Nat

VARIABLES
    file,           \* what is on disk
    pending,        \* Store.byPath: the review, or NoReview
    lock,           \* who holds Store.mu between two steps
    pc,             \* where each call is
    content,        \* what file_write was given
    decision,       \* what a request decides
    base,           \* file_write's oldText
    snap,           \* what a call listed and has not sent yet
    ui,             \* DiffReviewModel.pending
    link,           \* the app's connection
    unseen,         \* history: the last review, staged while it was open,
                    \* until the app shows that; or NoReview
    staged,         \* number of reviews staged so far, a name for each
    applied,        \* history: the decisions, in the order they were applied
    written,        \* history: the reviews that ended with a write
    edits           \* changes other programs have made

vars == <<file, pending, lock, pc, content, decision, base, snap, ui,
          link, unseen, staged, applied, written, edits>>

store == <<lock, pending, staged, applied, written>>
asked == <<content, decision>>
app == <<ui, link, unseen>>

(* A change that can be proposed, and its hunks: computed once for all. *)
Diffs == {[old |-> old, new |-> new, hunks |-> ComputeHunks(old, new)] :
             old \in Texts, new \in Contents}
HunksOf(old, new) == (CHOOSE d \in Diffs : d.old = old /\ d.new = new).hunks

None == [review |-> NoReview]

(* A PendingView: the hunks, not what has been decided on them. *)
View(p) == IF p = None THEN None ELSE [review |-> p.review, hunks |-> p.hunks]
TextOf(found) == IF found = Missing THEN <<>> ELSE found

Goto(t, label) == pc' = [pc EXCEPT ![t] = label]

Init ==
    /\ file \in Disk \cup {Missing}
    /\ pending = None
    /\ lock = Free
    /\ pc = [t \in Writers \cup Deciders |-> "idle"]
    /\ content = [w \in Writers |-> <<>>]
    /\ decision = [d \in Deciders |-> NoReview]
    /\ base = [w \in Writers |-> <<>>]
    /\ snap = [t \in Writers \cup Deciders |-> None]
    /\ ui = None
    /\ link = "none"
    /\ unseen = NoReview
    /\ staged = 0
    /\ applied = <<>>
    /\ written = {}
    /\ edits = 0

-----------------------------------------------------------------------------
(* file_write *)

(* The gate's mode decides, once, which way the call goes. *)
CallFileWrite(w) ==
    /\ pc[w] = "idle"
    /\ \E text \in Contents : content' = [content EXCEPT ![w] = text]
    /\ \/ Goto(w, "read")           \* ModeGate
       \/ Goto(w, "overwrite")      \* any other mode
    /\ UNCHANGED <<file, decision, base, snap, app, edits, store>>

(* A read that fails counts as the empty text. *)
ReadOldText(w) ==
    /\ pc[w] = "read"
    /\ base' = [base EXCEPT ![w] = TextOf(file)]
    /\ Goto(w, "stage")
    /\ UNCHANGED <<file, content, decision, snap, app, edits, store>>

NewReview(old, new) ==
    [review |-> staged + 1, old |-> old, new |-> new,
     hunks |-> HunksOf(old, new), accepted |-> {}, decided |-> {}]

(* Mutant of Replacement: a review that is replaced hands its decisions on. *)
InheritDecisions(old, new) ==
    IF pending = None THEN NewReview(old, new)
    ELSE [NewReview(old, new) EXCEPT !.accepted = pending.accepted,
                                     !.decided = pending.decided]

(* What the store keeps for the file, whatever it kept before. *)
Replacement(old, new) == NewReview(old, new)

(* The texts a call no longer needs. *)
Forget(w) ==
    /\ content' = [content EXCEPT ![w] = <<>>]
    /\ base' = [base EXCEPT ![w] = <<>>]

(* Mutant of Stage: the change is listed before it is in the store. *)
StageAfterListing(w) ==
    /\ pc[w] = "stage"
    /\ lock = Free
    /\ IF HunksOf(base[w], content[w]) = <<>>
       THEN Goto(w, "done") /\ UNCHANGED <<pending, staged, unseen, snap>>
       ELSE /\ pending' = Replacement(base[w], content[w])
            /\ staged' = staged + 1
            /\ unseen' = IF link = "open" THEN staged' ELSE NoReview
            /\ snap' = [snap EXCEPT ![w] = View(pending)]
            /\ Goto(w, "send")
    /\ Forget(w)
    /\ UNCHANGED <<file, lock, decision, ui, link, applied, written,
                   edits>>

(* Nothing is staged when nothing changes. *)
Stage(w) ==
    /\ pc[w] = "stage"
    /\ lock = Free
    /\ IF HunksOf(base[w], content[w]) = <<>>
       THEN Goto(w, "done") /\ UNCHANGED <<pending, staged, unseen>>
       ELSE /\ pending' = Replacement(base[w], content[w])
            /\ staged' = staged + 1
            /\ unseen' = IF link = "open" THEN staged' ELSE NoReview
            /\ Goto(w, "list")
    /\ Forget(w)
    /\ UNCHANGED <<file, lock, decision, snap, ui, link, applied, written,
                   edits>>

(* os.WriteFile, outside gate mode; it may fail and leave nothing. *)
Overwrite(w) ==
    /\ pc[w] = "overwrite"
    /\ file' \in {content[w], file, <<>>}
    /\ Goto(w, "done")
    /\ Forget(w)
    /\ UNCHANGED <<decision, snap, app, edits, store>>

-----------------------------------------------------------------------------
(* notify: the list is taken under the lock and sent without it *)

List(t) ==
    /\ pc[t] = "list"
    /\ lock = Free
    /\ snap' = [snap EXCEPT ![t] = View(pending)]
    /\ Goto(t, "send")
    /\ UNCHANGED <<file, asked, base, app, edits, store>>

(* Server.Notify: the list is for the app if that is connected, and is      *)
(* shown when it has read it.  Notify returns when every client that does   *)
(* not leave has room for the line.                                         *)
SendChanged(t) ==
    /\ pc[t] = "send"
    /\ ui' = IF link = "open" THEN snap[t] ELSE ui
    /\ unseen' = IF ui'.review = unseen THEN NoReview ELSE unseen
    /\ snap' = [snap EXCEPT ![t] = None]
    /\ Goto(t, "done")
    /\ UNCHANGED <<file, asked, base, link, edits, store>>

-----------------------------------------------------------------------------
(* The app comes and goes.  It does not ask for what is pending: nothing    *)
(* calls diffReview.list.                                                   *)

Connect ==
    /\ link = "none"
    /\ link' = "open"
    /\ UNCHANGED <<file, pc, asked, base, snap, ui, unseen, edits, store>>

Disconnect ==
    /\ link = "open"
    /\ link' = "closed"
    /\ ui' = None
    /\ unseen' = NoReview
    /\ UNCHANGED <<file, pc, asked, base, snap, edits, store>>

-----------------------------------------------------------------------------
(* Decisions *)

(* A decision on some hunks; bulk ones are on all that have none yet. *)
Verdict(review, hunks, bulk, value) ==
    [review |-> review, hunks |-> hunks, bulk |-> bulk, value |-> value]

(* The user decides on what the app shows at that moment. *)
Click(d) ==
    /\ pc[d] = "idle"
    /\ link = "open"
    /\ ui # None
    /\ \E value \in BOOLEAN, bulk \in BOOLEAN :
        \E hunks \in IF bulk THEN {{}} ELSE {{k} : k \in DOMAIN ui.hunks} :
            decision' = [decision EXCEPT
                            ![d] = Verdict(ui.review, hunks, bulk, value)]
    /\ Goto(d, "sent")
    /\ UNCHANGED <<file, content, base, snap, app, edits, store>>

(* The hunks a decision is about, in the review the store has now. *)
DecidedBy(v, p) ==
    IF v.bulk THEN DOMAIN p.hunks \ p.decided ELSE v.hunks

Marked(p, v) ==
    LET hunks == DecidedBy(v, p)
    IN [p EXCEPT !.decided = @ \cup hunks,
                 !.accepted = IF v.value THEN @ \cup hunks
                              ELSE @ \ hunks]

(* Decisions are counted, not compared with the hunks. *)
Resolved(p) == Cardinality(p.decided) = Len(p.hunks)

(* Mutant of Decide: the lock is given back before the file is compared. *)
DecideUnlocked(d) ==
    /\ pc[d] = "sent"
    /\ lock = Free
    /\ IF pending = None
       THEN Goto(d, "done") /\ UNCHANGED <<pending, applied>>
       ELSE LET p == Marked(pending, decision[d])
            IN /\ pending' = p
               /\ applied' = Append(applied,
                                   [on |-> pending.review, by |-> decision[d]])
               /\ IF Resolved(p)
                  THEN Goto(d, "compare")
                  ELSE Goto(d, "list")
    /\ decision' = [decision EXCEPT ![d] = NoReview]
    /\ UNCHANGED <<file, lock, content, base, snap, app, staged, written,
                   edits>>

(* decideMany up to the test; the lock stays held when all is decided. *)
Decide(d) ==
    /\ pc[d] = "sent"
    /\ lock = Free
    /\ IF pending = None
       THEN Goto(d, "done") /\ UNCHANGED <<pending, lock, applied>>
       ELSE LET p == Marked(pending, decision[d])
            IN /\ pending' = p
               /\ applied' = Append(applied,
                                   [on |-> pending.review, by |-> decision[d]])
               /\ IF Resolved(p)
                  THEN lock' = d /\ Goto(d, "compare")
                  ELSE lock' = lock /\ Goto(d, "list")
    /\ decision' = [decision EXCEPT ![d] = NoReview]
    /\ UNCHANGED <<file, content, base, snap, app, staged, written, edits>>

(* The file differs from what the change was made for: it stays as it is. *)
(* A file that cannot be read is not compared.                            *)
Compare(d) ==
    /\ pc[d] = "compare"
    /\ IF file \notin {Missing, pending.old}
       THEN pending' = None /\ lock' = Free /\ Goto(d, "list")
       ELSE Goto(d, "write") /\ UNCHANGED <<pending, lock>>
    /\ UNCHANGED <<file, asked, base, snap, app, staged, applied, written,
                   edits>>

(* Mutant of Write: the app is notified before the lock is given back. *)
WriteAndKeepLock(d) ==
    /\ pc[d] = "write"
    /\ file' = ApplyHunks(pending.old, pending.hunks, pending.accepted)
    /\ written' = written \cup {[p |-> pending, text |-> file']}
    /\ pending' = None
    /\ Goto(d, "list")
    /\ UNCHANGED <<lock, asked, base, snap, app, staged, applied, edits>>

(* The review is over whether the write succeeds or not. *)
Write(d) ==
    /\ pc[d] = "write"
    /\ \/ /\ file' = ApplyHunks(pending.old, pending.hunks, pending.accepted)
          /\ written' = written \cup {[p |-> pending, text |-> file']}
       \/ file' \in {file, <<>>} /\ UNCHANGED written
    /\ pending' = None
    /\ lock' = Free
    /\ Goto(d, "list")
    /\ UNCHANGED <<asked, base, snap, app, staged, applied, edits>>

(* An editor, a build or git changes the file. *)
Edit ==
    /\ edits < MaxEdits
    /\ file' \in (Disk \cup {Missing}) \ {file}
    /\ edits' = edits + 1
    /\ UNCHANGED <<pc, asked, base, snap, app, store>>

-----------------------------------------------------------------------------
WriterStep(w) == ReadOldText(w) \/ Stage(w) \/ Overwrite(w) \/ List(w)

DeciderStep(d) == Decide(d) \/ Compare(d) \/ Write(d) \/ List(d)

Next ==
    \/ \E w \in Writers : CallFileWrite(w) \/ WriterStep(w)
    \/ \E d \in Deciders : Click(d) \/ DeciderStep(d)
    \/ \E t \in Writers \cup Deciders : SendChanged(t)
    \/ Connect \/ Disconnect \/ Edit

Spec == Init /\ [][Next]_vars

(* Goroutines run.  A mutex is fair enough for weak fairness here: every    *)
(* call takes it a bounded number of times.  Nobody has to write or click.  *)
GoroutineFairness ==
    /\ \A w \in Writers : WF_vars(WriterStep(w))
    /\ \A d \in Deciders : WF_vars(DeciderStep(d))

(* What is assumed of the clients: each reads its connection or leaves, so  *)
(* that Notify, which waits for all of them (server.go:76), returns to each *)
(* of the callers, who send once.                                           *)
ClientFairness == WF_vars(\E t \in Writers \cup Deciders : SendChanged(t))

FairSpec == Spec /\ GoroutineFairness /\ ClientFairness

-----------------------------------------------------------------------------
(* Properties *)

Reviewing(p) ==
    /\ p.review \in 1..staged
    /\ p.hunks = HunksOf(p.old, p.new)
    /\ p.accepted \subseteq p.decided

(* What lists show was staged; a decision that compares and writes holds    *)
(* the lock, and the review it resolved is still there (Store.mu and        *)
(* Store.byPath, pending.go:27-30).                                         *)
TypeOK ==
    /\ pending = None \/ Reviewing(pending)
    /\ \A v \in {ui} \cup Range(snap) : v = None \/ v.review \in 1..staged
    /\ \A d \in Deciders : pc[d] \in {"compare", "write"} =>
            lock = d /\ pending # None /\ Resolved(pending)
    /\ link \in {"none", "open", "closed"}
    /\ unseen \in {NoReview} \cup 1..staged
    /\ Len(applied) <= Cardinality(Deciders)

(* Any choice of hunks of the review gives the text that patching them in  *)
(* one by one gives: no line is lost, doubled or moved (ApplyHunks and     *)
(* ComputeHunks, hunk.go:19-88); all of them give what the agent wrote,    *)
(* none gives the file as it was.  The hunks are numbered one by one.      *)
HunksCompose ==
    pending # None =>
        LET Kept(S) == ApplyHunks(pending.old, pending.hunks, S)
        IN /\ Len(pending.hunks) \in Nat
           /\ DOMAIN pending.hunks = 1..Len(pending.hunks)
           /\ Kept(DOMAIN pending.hunks) = pending.new
           /\ Kept({}) = pending.old
           /\ \A S \in SUBSET DOMAIN pending.hunks :
                Kept(S) = PatchAll(pending.old, pending.hunks, S)

(* The user is shown no line as changed that need not change: the hunks    *)
(* delete and insert as few lines as possible, in spite of the trimming    *)
(* and of the ties in the table (diffMiddle, hunk.go:107-131).             *)
DiffIsMinimal ==
    pending # None =>
        Changes(pending.hunks) = FewestChanges(pending.old, pending.new)

(* The decisions on a review, by their place in the history. *)
DecisionsOn(review) == {i \in DOMAIN applied : applied[i].on = review}

(* No decision was taken looking at another review. *)
Untouched(review) ==
    \A i \in DecisionsOn(review) : applied[i].by.review = review

(* The decision on hunk k alone that came last, or else the first on all. *)
IsLastOn(i, review, k) ==
    LET single == {j \in DecisionsOn(review) : k \in applied[j].by.hunks}
        bulk == {j \in DecisionsOn(review) : applied[j].by.bulk}
    IN \/ i \in single /\ \A j \in single : j <= i
       \/ single = {} /\ i \in bulk /\ \A j \in bulk : i <= j

(* What the user said of hunk k. *)
Wanted(review, k) ==
    \E i \in DecisionsOn(review) : IsLastOn(i, review, k) /\ applied[i].by.value

(* What is written is the staged text with exactly those hunks that the    *)
(* decisions applied to this review accepted, each hunk's last one         *)
(* counting; whatever other reviews of the file came before, and whatever  *)
(* was decided at the same time (decideMany, pending.go:82-123).  The code *)
(* knows a hunk by its number, so these decisions include the ones that    *)
(* were made looking at a review that has been replaced.  When there was   *)
(* none of those, nothing is written before every hunk has a decision.     *)
OutcomeIsReviewed ==
    \A o \in written :
        LET hunks == DOMAIN o.p.hunks
        IN /\ o.text = PatchAll(o.p.old, o.p.hunks,
                                {k \in hunks : Wanted(o.p.review, k)})
           /\ Untouched(o.p.review) =>
                \A k \in hunks : \E i \in DecisionsOn(o.p.review) :
                    applied[i].by.bulk \/ k \in applied[i].by.hunks

(* A review that is staged while the app is connected is shown, unless it  *)
(* is replaced or over before that, or the app leaves (Stage and notify,   *)
(* pending.go:42-58 and :125).  It need not stay on the screen: an older   *)
(* list that is sent later hides it.                                       *)
StagedIsShown == []<>(unseen = NoReview \/ unseen # pending.review)

(* Every decision and every file_write is answered, as long as the clients *)
(* let Notify return: nobody is left waiting for the store's lock, in      *)
(* particular not because the callback takes it again (decideMany and      *)
(* List, pending.go:62-70 and :82-123).                                    *)
CallsAnswered == \A t \in Writers \cup Deciders : pc[t] \in {"idle", "done"}

(* Accepting or rejecting all ended the review (pending.go:78-80), or some *)
(* decision on it was meant for another one.                               *)
BulkSettles ==
    pending # None /\ Untouched(pending.review) =>
        \A i \in DecisionsOn(pending.review) : ~applied[i].by.bulk

(* The hunks the user decides on are a correct and smallest description of  *)
(* the change (ComputeHunks and ApplyHunks, hunk.go:19-88).                *)
HunksAreRight == HunksCompose /\ DiffIsMinimal

(* A decision is answered, and one on all hunks is the end of its review.  *)
DecisionsSettle == []<>(CallsAnswered /\ BulkSettles)
=============================================================================
