------------------------- MODULE PendingReviewStore -------------------------
(***************************************************************************)
(* The durable PendingReview of one pull request, as the SQLite store      *)
(* (persist/sqlite_store.zig) keeps it.  Every operation of the store is   *)
(* one BEGIN IMMEDIATE ... COMMIT transaction whose error paths roll back, *)
(* so it is one atomic step: an operator XxxOk(s, ...) that holds when the *)
(* transaction commits, and an operator Xxx(s, ...) for the tables after   *)
(* it.  They take the tables as an argument so that a handler that issues  *)
(* several transactions can be composed from them (DurableSubmission.tla). *)
(***************************************************************************)
EXTENDS Drafts

CONSTANTS
    Legacy,       \* TempIds of the rows a pre-counter database holds
    RetryPoint    \* the retry points that callers checkpoint

ASSUME LegacyAssumption == Legacy \subseteq 1..MaxTempId /\ Body # {}

VARIABLES
    db,       \* the tables
    reserved, \* TempIds handed to a Composer and not yet saved
    used      \* every TempId a Draft of this review ever owned (history)

vars == <<db, reserved, used>>

-----------------------------------------------------------------------------
(* Rows *)

ASSUME RetryPointAssumption == RetryPoint \subseteq Retry

\* Table f with row t set to v (INSERT OR REPLACE).
WithRow(f, t, v) == [x \in DOMAIN f \cup {t} |-> IF x = t THEN v ELSE f[x]]

\* Table f without the rows of S.
WithoutRows(f, S) == [x \in DOMAIN f \ S |-> f[x]]

-----------------------------------------------------------------------------
(* Queries *)

Active(s) == s.run.op # 0

ItemTemps(items) == {items[i].temp : i \in DOMAIN items}
InRun(s, t) == t \in ItemTemps(s.run.items)

Locked(s, t) ==
    \/ t \in DOMAIN s.drafts /\ s.drafts[t].state = "outcome_unknown"
    \/ InRun(s, t)

\* COALESCE(MAX(local_id),0)+1 over the rows S.
NextAbove(S) ==
    CHOOSE n \in 1..MaxTempId + 1 :
        /\ \A t \in S : t < n
        /\ n = 1 \/ n - 1 \in S

\* next_id, or the fallback when no counter row exists.
NextTempId(s) == IF s.counter = 0 THEN NextAbove(DOMAIN s.drafts) ELSE s.counter

\* Mutant: rows are removed without raising the counter to their floor.
TempIdFloorNotRaised(s) == s.counter

\* The counter after retainTempIdFloor.
TempIdFloor(s) ==
    LET floor == NextAbove(DOMAIN s.drafts)
    IN  IF s.counter > floor THEN s.counter ELSE floor

ClosedUnderReplies(s, S) ==
    \A t \in DOMAIN s.drafts :
        s.drafts[t].parent.kind = "draft" /\ s.drafts[t].parent.id \in S => t \in S

\* Mutant: the cascade stops at the direct Replies.
SubtreeDirectOnly(s, root) ==
    {t \in DOMAIN s.drafts : t = root \/ s.drafts[t].parent = DraftParent(root)}

\* The root and every Draft that replies to it, directly or through others.
Subtree(s, root) ==
    {t \in DOMAIN s.drafts :
        \A S \in SUBSET DOMAIN s.drafts :
            root \in S /\ ClosedUnderReplies(s, S) => t \in S}

\* The parent putImpl stores: a Draft that is gone is replaced by the Comment
\* it was posted as, NoParent when it was never posted (DraftParentMissing).
ResolvedParent(s, p) ==
    IF p.kind = "draft" /\ p.id \notin DOMAIN s.drafts
    THEN IF p.id \in DOMAIN s.posted THEN CommentParent(s.posted[p.id]) ELSE NoParent
    ELSE p

-----------------------------------------------------------------------------
(* Draft transactions *)

ReserveTempId(s) == [s EXCEPT !.counter = NextTempId(s) + 1]

PutOk(s, t, p) ==
    /\ ~Locked(s, t)
    /\ p.kind = "draft" => ResolvedParent(s, p) # NoParent

Put(s, t, p, b, a) ==
    [s EXCEPT !.drafts = WithRow(@, t,
        [parent |-> ResolvedParent(s, p), state |-> "draft", comment |-> NoComment,
         body |-> b, anchor |-> a])]

EditDraftBodyOk(s, t, expected) ==
    /\ ~Locked(s, t)
    /\ t \in DOMAIN s.drafts
    /\ s.drafts[t].state \in Editable
    /\ s.drafts[t].parent = expected

EditDraftBody(s, t, b) ==
    [s EXCEPT !.drafts[t] = [WithState(@, Pending) EXCEPT !.body = b]]

ReanchorDraftOk(s, t) ==
    /\ ~Locked(s, t)
    /\ t \in DOMAIN s.drafts
    /\ s.drafts[t].state \in Editable
    /\ s.drafts[t].parent = NoParent
    /\ s.drafts[t].anchor # NoAnchor

ReanchorDraft(s, t, a) ==
    [s EXCEPT !.drafts[t] = [WithState(@, Pending) EXCEPT !.anchor = a]]

\* Mutant: deletion does not ask whether a participant is in the cascade.
DeleteIgnoresRun(s, root, expected, cascade) ==
    /\ root \in DOMAIN s.drafts
    /\ s.drafts[root].parent = expected
    /\ cascade = Subtree(s, root)
    /\ \A t \in cascade : s.drafts[t].state \in Editable

DeleteDraftSubtreeOk(s, root, expected, cascade) ==
    /\ root \in DOMAIN s.drafts
    /\ s.drafts[root].parent = expected
    /\ cascade = Subtree(s, root)
    /\ \A t \in cascade : ~InRun(s, t) /\ s.drafts[t].state \in Editable

DeleteDraftSubtree(s, cascade) ==
    [s EXCEPT !.counter = TempIdFloor(s), !.drafts = WithoutRows(@, cascade)]

ResolveUnknownOk(s, t) ==
    /\ t \in DOMAIN s.drafts
    /\ s.drafts[t].state = "outcome_unknown"
    /\ ~InRun(s, t)

\* resolution is Posted(c) or Pending (unpublished).
ResolveUnknown(s, t, resolution) ==
    [s EXCEPT !.drafts[t] = WithState(@, resolution)]

-----------------------------------------------------------------------------
(* SubmissionRun transactions *)

BeginSubmissionOk(s, items) ==
    /\ items # <<>>
    /\ ~Active(s)
    /\ \A i, j \in DOMAIN items : items[i].temp = items[j].temp => i = j
    /\ \A i \in DOMAIN items :
        /\ items[i].temp \in DOMAIN s.drafts
        /\ s.drafts[items[i].temp].parent = items[i].parent
    /\ s.drafts[items[1].temp].state \in Editable

\* A carried-over Retry-After of the first item becomes the run's retry point.
CarriedRetry(s, t) ==
    IF t \in DOMAIN s.carryovers
    THEN [phase |-> "post", attempt |-> 0, local |-> 0,
          server |-> s.carryovers[t], pending |-> TRUE]
    ELSE NoRetry

BeginSubmission(s, source, items) ==
    LET first == items[1].temp
    IN  [s EXCEPT
          !.drafts[first] = WithState(@, Submitting),
          !.run = [op |-> s.nextOp, items |-> items, current |-> first,
                   retry |-> CarriedRetry(s, first), source |-> source],
          !.nextOp = @ + 1,
          !.carryovers = WithoutRows(@, {first})]

CheckpointSubmissionRetryOk(s, op, t) ==
    Active(s) /\ s.run.op = op /\ s.run.current = t /\ t # NoTemp

CheckpointSubmissionRetry(s, retry) == [s EXCEPT !.run.retry = retry]

CheckpointSubmissionOk(s, op, t, next) ==
    /\ next # t
    /\ Active(s) /\ s.run.op = op
    /\ s.run.current = t
    /\ t \in DOMAIN s.drafts /\ s.drafts[t].state = "submitting"
    /\ next # NoTemp =>
        /\ \E i, j \in DOMAIN s.run.items :
            i < j /\ s.run.items[i].temp = t /\ s.run.items[j].temp = next
        /\ next \in DOMAIN s.drafts /\ s.drafts[next].state \in Editable

\* A failed item keeps the server's Retry-After for its next run.
RetainedCarryovers(s, t, outcome) ==
    IF outcome = Failed /\ s.run.retry.server # NoDelay
    THEN WithRow(s.carryovers, t, s.run.retry.server)
    ELSE s.carryovers

\* Mutant: the outcome and the next intent are bound to each other's rows.
CheckpointSwapsRows(s, t, outcome, next) ==
    [s EXCEPT
      !.drafts = [x \in DOMAIN @ |->
                    IF next # NoTemp /\ x = t THEN WithState(@[x], Submitting)
                    ELSE IF x \in {t, next} THEN WithState(@[x], outcome)
                    ELSE @[x]],
      !.run = [@ EXCEPT !.current = next, !.retry = NoRetry],
      !.carryovers = RetainedCarryovers(s, t, outcome)]

CheckpointSubmission(s, t, outcome, next) ==
    [s EXCEPT
      !.drafts = [x \in DOMAIN @ |->
                    IF x = t THEN WithState(@[x], outcome)
                    ELSE IF x = next THEN WithState(@[x], Submitting)
                    ELSE @[x]],
      !.run = [@ EXCEPT !.current = next, !.retry = NoRetry],
      !.carryovers = RetainedCarryovers(s, t, outcome)]

CompleteAbortedOk(s, op) ==
    /\ Active(s) /\ s.run.op = op
    /\ s.run.current \in DOMAIN s.drafts
    /\ s.drafts[s.run.current].state = "submitting"

\* restore is the pending state the current Draft returns to.
CompleteAborted(s, restore) ==
    [s EXCEPT !.drafts[s.run.current] = WithState(@, restore), !.run = NoRun]

CompletePartialOk(s, op) == Active(s) /\ s.run.op = op /\ s.run.current = NoTemp

CompletePartial(s) == [s EXCEPT !.run = NoRun]

\* Mutant: clean completion does not count the participants left unposted.
CompleteCleanUnchecked(s, op) == CompletePartialOk(s, op)

CompleteCleanOk(s, op) ==
    /\ CompletePartialOk(s, op)
    /\ \A t \in ItemTemps(s.run.items) \cap DOMAIN s.drafts :
        s.drafts[t].state = "posted"

\* Mutant: the posted rows are recorded and remapped, and never removed.
CompleteCleanKeepsRows(s) ==
    LET done == ItemTemps(s.run.items) \cap DOMAIN s.drafts
    IN  [s EXCEPT
          !.posted = [t \in DOMAIN @ \cup done |->
                        IF t \in done THEN s.drafts[t].comment ELSE @[t]],
          !.run = NoRun]

\* Mutant: the posted rows are removed before they are recorded.
CompleteCleanForgets(s) ==
    LET gone == ItemTemps(s.run.items) \cap DOMAIN s.drafts
    IN  [s EXCEPT !.counter = TempIdFloor(s), !.drafts = WithoutRows(@, gone),
                  !.run = NoRun]

\* Mutant: the remap joins on the wrong row, so a Reply follows another thread.
CompleteCleanCrossedRemap(s) ==
    LET gone == ItemTemps(s.run.items) \cap DOMAIN s.drafts
        Remapped(d) == IF d.parent.kind = "draft" /\ d.parent.id \in gone
                       THEN [d EXCEPT !.parent =
                               CommentParent(s.drafts[CHOOSE t \in gone : TRUE].comment)]
                       ELSE d
    IN  [s EXCEPT
          !.counter = TempIdFloor(s),
          !.posted = [t \in DOMAIN @ \cup gone |->
                        IF t \in gone THEN s.drafts[t].comment ELSE @[t]],
          !.drafts = [t \in DOMAIN @ \ gone |-> Remapped(@[t])],
          !.run = NoRun]

\* record, remap, remove: the posted rows move to posted_drafts, and Replies
\* to them, participants or not, now reply to the posted Comment.
CompleteClean(s) ==
    LET gone == ItemTemps(s.run.items) \cap DOMAIN s.drafts
        Remapped(d) == IF d.parent.kind = "draft" /\ d.parent.id \in gone
                       THEN [d EXCEPT !.parent = CommentParent(s.drafts[d.parent.id].comment)]
                       ELSE d
    IN  [s EXCEPT
          !.counter = TempIdFloor(s),
          !.posted = [t \in DOMAIN @ \cup gone |->
                        IF t \in gone THEN s.drafts[t].comment ELSE @[t]],
          !.drafts = [t \in DOMAIN @ \ gone |-> Remapped(@[t])],
          !.run = NoRun]

AbandonSubmissionOk(s, op) ==
    /\ Active(s) /\ s.run.op = op
    /\ s.run.current \in DOMAIN s.drafts
    /\ s.drafts[s.run.current].state = "submitting"

\* Mutant: the run is dropped and its current row is left `submitting`.
AbandonLeavesSubmitting(s) == [s EXCEPT !.run = NoRun]

\* Mutant: an abandoned Draft is taken to be unpublished.
AbandonMeansUnpublished(s) ==
    [s EXCEPT !.drafts[s.run.current] = WithState(@, Pending), !.run = NoRun]

AbandonSubmission(s) ==
    [s EXCEPT !.drafts[s.run.current] = WithState(@, Unknown), !.run = NoRun]
-----------------------------------------------------------------------------
(* The store under any caller *)

\* A database of an older version: pending roots, no counter row yet.
Init ==
    /\ db = [drafts |-> [t \in Legacy |->
                           [parent |-> NoParent, state |-> "draft", comment |-> NoComment,
                            body |-> CHOOSE b \in Body : TRUE, anchor |-> NoAnchor]],
             counter |-> 0, run |-> NoRun, nextOp |-> 1,
             carryovers |-> <<>>, posted |-> <<>>]
    /\ reserved = {}
    /\ used = Legacy

Reserve ==
    /\ NextTempId(db) \in TempId
    /\ db' = ReserveTempId(db)
    /\ reserved' = reserved \cup {NextTempId(db)}
    /\ used' = used \cup {NextTempId(db)}

\* prepareDraft reserves the id when the Composer is saved, so the parent, read
\* when it was opened, is an older Draft; it may be posted or deleted by now.
SaveDraft(t, p, b, a) ==
    /\ t \in reserved
    /\ p.kind = "draft" => p.id \in used /\ p.id < t
    /\ p # NoParent => a = NoAnchor
    /\ PutOk(db, t, p)
    /\ db' = Put(db, t, p, b, a)
    /\ reserved' = reserved \ {t}
    /\ UNCHANGED used

Mutate(ok, after) == ok /\ db' = after /\ UNCHANGED <<reserved, used>>

DraftStep ==
    \E t \in DOMAIN db.drafts :
        \/ \E b \in Body : Mutate(EditDraftBodyOk(db, t, db.drafts[t].parent),
                                  EditDraftBody(db, t, b))
        \/ \E a \in Anchor : Mutate(ReanchorDraftOk(db, t), ReanchorDraft(db, t, a))
        \/ LET cascade == Subtree(db, t)
           IN  Mutate(DeleteDraftSubtreeOk(db, t, db.drafts[t].parent, cascade),
                      DeleteDraftSubtree(db, cascade))
        \/ \E st \in {Posted(c) : c \in CommentId} \cup {Pending} :
               Mutate(ResolveUnknownOk(db, t), ResolveUnknown(db, t, st))

ItemsOf(order) == [i \in DOMAIN order |->
                     [temp |-> order[i], parent |-> db.drafts[order[i]].parent]]

Begin ==
    /\ db.nextOp <= MaxRuns
    /\ \E n \in 1..MaxTempId : \E order \in [1..n -> DOMAIN db.drafts], src \in Source :
        Mutate(BeginSubmissionOk(db, ItemsOf(order)),
               BeginSubmission(db, src, ItemsOf(order)))

CheckpointRetry(op, t) ==
    \E r \in RetryPoint : Mutate(CheckpointSubmissionRetryOk(db, op, t),
                           CheckpointSubmissionRetry(db, r))

Checkpoint(op, t) ==
    \E outcome \in Outcome, next \in DOMAIN db.drafts \cup {NoTemp} :
        Mutate(CheckpointSubmissionOk(db, op, t, next),
               CheckpointSubmission(db, t, outcome, next))

Complete(op) ==
    \/ Mutate(CompleteCleanOk(db, op), CompleteClean(db))
    \/ Mutate(CompletePartialOk(db, op), CompletePartial(db))
    \/ \E st \in {Pending, Failed, Unknown} :
          Mutate(CompleteAbortedOk(db, op), CompleteAborted(db, st))

Abandon(op) == Mutate(AbandonSubmissionOk(db, op), AbandonSubmission(db))

RunStep ==
    \E op \in 1..MaxRuns :
        \/ \E t \in DOMAIN db.drafts : CheckpointRetry(op, t) \/ Checkpoint(op, t)
        \/ Complete(op)
        \/ Abandon(op)

Save == \E t \in reserved, p \in Parent, b \in Body, a \in Anchor \cup {NoAnchor} :
            SaveDraft(t, p, b, a)

Next == Reserve \/ Save \/ DraftStep \/ Begin \/ RunStep

Spec == Init /\ [][Next]_vars

-----------------------------------------------------------------------------
(* Properties *)

\* Every table holds rows of its type.
TypeOK ==
    /\ db = [drafts |-> db.drafts, counter |-> db.counter, run |-> db.run,
             nextOp |-> db.nextOp, carryovers |-> db.carryovers, posted |-> db.posted]
    /\ DOMAIN db.drafts \subseteq TempId
    /\ db.drafts \in [DOMAIN db.drafts -> Draft]
    /\ db.counter \in 0..MaxTempId + 1
    /\ db.run \in Run \cup {NoRun}
    /\ db.nextOp \in 1..MaxRuns + 1
    /\ DOMAIN db.carryovers \subseteq TempId
    /\ db.carryovers \in [DOMAIN db.carryovers -> Delay]
    /\ DOMAIN db.posted \subseteq TempId
    /\ db.posted \in [DOMAIN db.posted -> CommentId]
    /\ reserved \subseteq TempId
    /\ used \subseteq TempId

\* A Draft is `submitting` exactly while it is the current item of the active
\* SubmissionRun, so a row that may have been POSTed is always recoverable and
\* no other path (put, edit, delete, resolve) can move it.
SubmittingIsCurrent ==
    /\ \A t \in DOMAIN db.drafts :
        db.drafts[t].state = "submitting" <=> Active(db) /\ db.run.current = t
    /\ Active(db) /\ db.run.current # NoTemp => db.run.current \in DOMAIN db.drafts

\* The frozen participant graph: while a run is active every participant row
\* exists with the parent recorded at the start, so initFrozen accepts it.
FrozenGraph ==
    \A i \in DOMAIN db.run.items :
        /\ db.run.items[i].temp \in DOMAIN db.drafts
        /\ db.drafts[db.run.items[i].temp].parent = db.run.items[i].parent

\* A Reply never dangles: its parent Draft is in the table (cascade deletion,
\* parent resolution in put and the remap of clean completion keep it so).
ParentsExist ==
    \A t \in DOMAIN db.drafts :
        db.drafts[t].parent.kind = "draft" => db.drafts[t].parent.id \in DOMAIN db.drafts

\* "A TempId is never reused" (retainTempIdFloor): the next id handed out was
\* never owned by any Draft, and saving a reserved id replaces no row.
TempIdsFresh ==
    /\ NextTempId(db) \notin used
    /\ reserved \cap (DOMAIN db.drafts \cup DOMAIN db.posted) = {}

\* ADR-0007, one representation: a Draft recorded as posted_drafts has no row
\* left, so it cannot be submitted a second time.
OneRepresentation == DOMAIN db.posted \cap DOMAIN db.drafts = {}

\* A known publication is never forgotten: the CommentId of a posted row stays
\* on the row, or moves to posted_drafts with the row's removal.
PostedKept ==
    \A t \in DOMAIN db.drafts :
        db.drafts[t].state = "posted" =>
            \/ t \in DOMAIN db'.drafts /\ db'.drafts[t].state = "posted"
               /\ db'.drafts[t].comment = db.drafts[t].comment
            \/ t \in DOMAIN db'.posted /\ db'.posted[t] = db.drafts[t].comment
PostedStaysKnown == [][PostedKept]_vars

\* A Reply stays in its thread: its parent only ever changes from a Draft to
\* the very Comment that Draft was published as.
ThreadKept ==
    \A t \in DOMAIN db.drafts \cap DOMAIN db'.drafts :
        LET p == db.drafts[t].parent
        IN  \/ db'.drafts[t].parent = p
            \/ p.kind = "draft" /\ p.id \in DOMAIN db'.posted
               /\ db'.drafts[t].parent = CommentParent(db'.posted[p.id])
RepliesKeepThread == [][ThreadKept]_vars

-----------------------------------------------------------------------------
(* The inductive invariant of the proofs (PendingReviewStore_proofs.tla) *)

\* A posted row carries its CommentId.
PostedHasComment ==
    \A t \in DOMAIN db.drafts :
        db.drafts[t].state = "posted" => db.drafts[t].comment \in CommentId

\* The counter bounds every id ever owned; without a counter row nothing was
\* ever reserved, removed or recorded.
TempIdBounds ==
    /\ DOMAIN db.drafts \cup DOMAIN db.posted \cup reserved \subseteq used
    /\ IF db.counter = 0
       THEN used = DOMAIN db.drafts
       ELSE \A t \in used : t < db.counter
    /\ reserved \cap (DOMAIN db.drafts \cup DOMAIN db.posted) = {}
    /\ OneRepresentation

IInv ==
    /\ TypeOK
    /\ SubmittingIsCurrent
    /\ FrozenGraph
    /\ ParentsExist
    /\ PostedHasComment
    /\ TempIdBounds

=============================================================================
