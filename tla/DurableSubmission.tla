-------------------------- MODULE DurableSubmission -------------------------
(***************************************************************************)
(* A SubmissionRun as Presentation drives it (tui/presentation.zig): the   *)
(* engine of Submission.tla between the store of PendingReviewStore.tla    *)
(* and Bitbucket, in several processes that share the database and the     *)
(* per-review OS lock, any of which may be killed.                         *)
(*                                                                         *)
(* A handler runs to its end in one step, as Presentation is a single      *)
(* thread; it is an operator from the process and the tables to the set of *)
(* its results, one for each store transaction that may fail.  A kill      *)
(* between two transactions of a handler is a failed transaction followed  *)
(* by Crash.  Allocation failure is modelled where the code has a phase    *)
(* for it (admission_paused) and nowhere else.                             *)
(***************************************************************************)
EXTENDS Submission

CONSTANTS
    Proc,        \* processes
    Pending0,    \* the Drafts of the PendingReview, all pending
    MaxCrashes,  \* bound: processes killed
    MaxFaults    \* bound: failed transactions, launches and allocations

Free == "free"   \* nobody holds the lock

ASSUME EnvironmentAssumption ==
    /\ MaxCrashes \in Nat /\ MaxFaults \in Nat
    /\ DOMAIN Pending0 \subseteq TempId
    /\ \A t \in DOMAIN Pending0 : Pending0[t] \in Draft
    /\ 1 \in Source
    /\ Free \notin Proc

VARIABLES
    db,       \* the tables
    comments, \* Bitbucket's Comments
    head,     \* the pull request's source commit
    lock,     \* the process holding the review's OS lock, or Free
    ui,       \* the processes
    crashes,
    faults

vars == <<db, comments, head, lock, ui, crashes, faults>>

Store == INSTANCE PendingReviewStore
           WITH reserved <- {}, used <- {}, Legacy <- {}, RetryPoint <- {}

-----------------------------------------------------------------------------
(* Process state *)

\* A queued or issued command; `draft` is the row PostDraft.create copied.
Command(kind, op, t, parent, draft, retry) ==
    [kind |-> kind, op |-> op, temp |-> t, parent |-> parent, draft |-> draft,
     retry |-> retry]
NoDraft == [body |-> "none"]
NoOutcome == [state |-> "none", comment |-> NoComment]

NoAdmission == [kind |-> "none"]
NoPersistence == [temp |-> NoTemp]
NoDuplicate == [outcome |-> NoOutcome, checkpointDone |-> FALSE]
NoDurable == [op |-> 0]
NoNotice == [op |-> 0]

Down == [up |-> FALSE, d |-> NoDurable, queue |-> <<>>, issued |-> {},
         notice |-> NoNotice, gate |-> "off", loaded |-> NoSource]

\* A store call: it commits, or fails (f counts the injected failures).
Attempt(ok, s, after) ==
    IF ok THEN {[done |-> TRUE, db |-> after, f |-> 0], [done |-> FALSE, db |-> s, f |-> 1]}
          ELSE {[done |-> FALSE, db |-> s, f |-> 0]}
NoCall(s) == {[done |-> TRUE, db |-> s, f |-> 0]}

Result(x, s, f) == [x |-> x, db |-> s, f |-> f]
Settled(x, d, s) == {Result([x EXCEPT !.d = d], s, 0)}

Enqueue(x, d, cmd) == [x EXCEPT !.d = d, !.queue = Append(@, cmd)]
destroy(x) == [x EXCEPT !.d = NoDurable]

\* Mutant: the POST is made for the item the checkpoint is about to leave.
PostOfTheCurrentItem(d, step) ==
    Command("post", d.op, d.current, step.parent, d.review[d.current], NoRetry)

PostCommand(d, step) ==
    Command("post", d.op, step.temp, step.parent, d.review[step.temp], NoRetry)
WaitCommand(d) ==
    Command("wait", d.op, Current(d.m), NoComment, NoDraft, d.m.retry)
RecoveryCommand(d) ==
    Command("check_recovery", d.op, NoTemp, NoComment, NoDraft, NoRetry)

\* The machine after advance(), and the step it returned.
Advanced(d) == [d EXCEPT !.m = advance(d.review, d.m)]
NextStep(d) == StepOf(d.review, Advanced(d).m)

\* DurableSubmission.create.
create(review, m, op, current, source, recovered) ==
    [op |-> op, current |-> current, review |-> review, m |-> m, source |-> source,
     recovered |-> recovered, sourceChanged |-> FALSE, policyCheck |-> FALSE,
     phase |-> "recovery_check_queued", admission |-> NoAdmission,
     persistence |-> NoPersistence, wait |-> NoRetry, duplicate |-> NoDuplicate]

\* Mutant: the current item is not moved on.
RecordKeepsCurrent(d, t, outcome, next) ==
    [d EXCEPT !.review = [u \in DOMAIN @ |->
                            IF u = next THEN WithState(@[u], Submitting)
                            ELSE IF u = t THEN WithState(@[u], outcome)
                            ELSE @[u]]]

recordCheckpoint(d, t, outcome, next) ==
    [d EXCEPT !.current = next,
              !.review = [u \in DOMAIN @ |->
                            IF u = next THEN WithState(@[u], Submitting)
                            ELSE IF u = t THEN WithState(@[u], outcome)
                            ELSE @[u]]]

AllPosted(review) == \A t \in DOMAIN review : review[t].state = "posted"

-----------------------------------------------------------------------------
(* Store calls *)

Retrying(s, d, t, retry) ==
    Attempt(Store!CheckpointSubmissionRetryOk(s, d.op, t), s,
            Store!CheckpointSubmissionRetry(s, retry))

\* Mutant: the outcome is checkpointed without the next intent.
CheckpointingOutcomeOnly(s, d, t, outcome, next) ==
    Attempt(Store!CheckpointSubmissionOk(s, d.op, t, next), s,
            Store!CheckpointSubmission(s, t, outcome, NoTemp))

Checkpointing(s, d, t, outcome, next) ==
    Attempt(Store!CheckpointSubmissionOk(s, d.op, t, next), s,
            Store!CheckpointSubmission(s, t, outcome, next))

\* completeSubmission; restore is the pending state of an abort.
Completing(s, op, completion, restore) ==
    CASE completion = "clean" ->
           Attempt(Store!CompleteCleanOk(s, op), s, Store!CompleteClean(s))
      [] completion = "partial" ->
           Attempt(Store!CompletePartialOk(s, op), s, Store!CompletePartial(s))
      [] completion = "aborted" ->
           Attempt(Store!CompleteAbortedOk(s, op), s, Store!CompleteAborted(s, restore))

-----------------------------------------------------------------------------
(* DurableSubmission *)

\* What is left to persist: the terminal retry point, the outcome with the next
\* intent, and the completion.
Persistence(t, outcome, next, completion, restore, retry) ==
    [temp |-> t, outcome |-> outcome, next |-> next, completion |-> completion,
     restore |-> restore, retry |-> retry, retryDone |-> FALSE, checkpointDone |-> FALSE]

NoStep == Step("none", NoTemp, NoComment)

\* Resumable: each finished transaction is marked in d before the next starts.
retryPersistence(x, s) ==
    LET d == x.d
        p == d.persistence
        d1 == [d EXCEPT !.persistence.retryDone = @ \/ p.retry # NoRetry]
        d2 == IF p.checkpointDone \/ p.outcome = NoOutcome THEN d1
              ELSE [recordCheckpoint(d1, p.temp, p.outcome, p.next.temp)
                      EXCEPT !.persistence.checkpointDone = TRUE]
        Retried == IF p.retryDone \/ p.retry = NoRetry THEN NoCall(s)
                   ELSE Retrying(s, d, p.temp, p.retry)
        Checkpointed(s1) == IF p.checkpointDone \/ p.outcome = NoOutcome THEN NoCall(s1)
                            ELSE Checkpointing(s1, d, p.temp, p.outcome, p.next.temp)
        Completed(s2) == IF p.completion = "none" THEN NoCall(s2)
                         ELSE Completing(s2, d.op, p.completion, p.restore)
        After(c) ==
            IF p.completion # "none" THEN destroy(x)
            ELSE Enqueue(x, [d2 EXCEPT !.persistence = NoPersistence, !.phase = "post_queued"],
                         PostCommand(d, p.next))
    IN  UNION {IF ~a.done THEN {Result(x, a.db, a.f)} ELSE
          UNION {IF ~b.done THEN {Result([x EXCEPT !.d = d1], b.db, b.f)} ELSE
            {IF ~c.done THEN Result([x EXCEPT !.d = d2], c.db, c.f)
             ELSE Result(After(c), c.db, 0) : c \in Completed(b.db)}
          : b \in Checkpointed(a.db)}
        : a \in Retried}

Persist(x, d, s, persistence) ==
    retryPersistence([x EXCEPT !.d = [d EXCEPT !.persistence = persistence,
                                               !.phase = "persistence_paused"]], s)

\* The wait of the machine is checkpointed, then queued.
ScheduleWait(x, d, s) ==
    {IF r.done THEN Result(Enqueue(x, [d EXCEPT !.phase = "wait_queued"], WaitCommand(d)), r.db, r.f)
     ELSE Result([x EXCEPT !.d = [d EXCEPT !.wait = d.m.retry, !.phase = "wait_retry_paused"]],
                 r.db, r.f)
     : r \in Retrying(s, d, Current(d.m), d.m.retry)}

\* Mutant: the check of a moved source is treated like any policy check.
QueueIgnoresMovedSource(x) ==
    LET d == Advanced(x.d)
        step == NextStep(x.d)
    IN  IF step.kind \in {"post", "check"} /\ step.temp = d.current
        THEN Enqueue(x, [d EXCEPT !.policyCheck = step.kind = "check",
                                  !.phase = "duplicate_queued"],
                     Command("find_duplicate", d.op, step.temp, step.parent,
                             d.review[step.temp], NoRetry))
        ELSE [x EXCEPT !.d = [d EXCEPT !.phase = "duplicate_check_paused"]]

\* Refuses any step but post and check, and any item but the current one.
queueDuplicateCheck(x) ==
    LET d == Advanced(x.d)
        step == NextStep(x.d)
    IN  IF step.kind \in {"post", "check"} /\ step.temp = d.current
        THEN Enqueue(x, [d EXCEPT !.policyCheck = step.kind = "check" /\ ~d.sourceChanged,
                                  !.phase = "duplicate_queued"],
                     Command("find_duplicate", d.op, step.temp, step.parent,
                             d.review[step.temp], NoRetry))
        ELSE [x EXCEPT !.d = [d EXCEPT !.phase = "duplicate_check_paused"]]

\* A definite retryable rejection that spent the budget keeps its Retry-After.
TerminalRetry(m) ==
    IF m.terminalDelay = NoDelay THEN NoRetry
    ELSE [phase |-> "post", attempt |-> max_attempts, local |-> 0,
          server |-> m.terminalDelay, pending |-> FALSE]

OutcomeOf(reply) == CASE reply.outcome = "posted" -> Posted(reply.id)
                      [] reply.outcome = "rejected" -> Failed
                      [] reply.outcome = "ambiguous" -> Unknown

acceptPost(x, s, t, reply) ==
    LET reported == [x.d EXCEPT !.m = report(@, reply)]
        d == Advanced(reported)
        step == NextStep(reported)
        row == d.review[t]
    IN  CASE step.kind = "post" ->
               Persist(x, d, s, Persistence(t, OutcomeOf(reply), step, "none", NoOutcome,
                                            TerminalRetry(d.m)))
          [] step.kind = "done" ->
               Persist(x, d, s, Persistence(t, OutcomeOf(reply), NoStep,
                                            IF isClean(d.m) THEN "clean" ELSE "partial",
                                            NoOutcome, TerminalRetry(d.m)))
          [] step.kind = "aborted" /\ row.state \in {"draft", "failed", "outcome_unknown"} ->
               Persist(x, d, s, Persistence(t, NoOutcome, NoStep, "aborted",
                                            [state |-> row.state, comment |-> row.comment], NoRetry))
          [] step.kind = "aborted" /\ row.state \notin {"draft", "failed", "outcome_unknown"} ->
               Settled(x, d, s)   \* error.InvalidSubmissionState
          [] step.kind = "wait" -> ScheduleWait(x, d, s)
          [] step.kind = "check" -> {Result(queueDuplicateCheck([x EXCEPT !.d = d]), s, 0)}

\* DurableSubmission.completeWait; any error parks the completed wait.
processSubmissionWait(x, s, cmd) ==
    LET waited == [x.d EXCEPT !.m = completeWait(@)]
        d == Advanced(waited)
        step == NextStep(waited)
        Parked(e) == [x EXCEPT !.d = [e EXCEPT !.phase = "admission_paused",
                                               !.admission = [kind |-> "wait", cmd |-> cmd]]]
    IN  {IF ~r.done THEN Result(Parked(x.d), r.db, r.f)
         ELSE IF step.kind = "post"
         THEN Result(Enqueue(x, [d EXCEPT !.phase = "post_queued"], PostCommand(d, step)), r.db, r.f)
         ELSE Result(Parked(d), r.db, r.f)
         : r \in Retrying(s, x.d, cmd.temp, [cmd.retry EXCEPT !.pending = FALSE])}

-----------------------------------------------------------------------------
(* Answers to the source check and the duplicate guard *)

\* A fresh run meets a moved head before its first POST: everything is undone.
abortChangedSubmission(x, s) ==
    {IF r.done THEN Result([destroy(x) EXCEPT !.gate = "stale"], r.db, r.f)
     ELSE Result([x EXCEPT !.d.phase = "recovery_check_paused"], r.db, r.f)
     : r \in Completing(s, x.d.op, "aborted", Pending)}

\* observed is the head that was read, or NoSource when the read failed.
acceptRecoveryCheck(x0, s, observed) ==
    LET same == [x0 EXCEPT !.gate = IF x0.d.recovered THEN @ ELSE "off"]
        d == Advanced(x0.d)
        step == NextStep(x0.d)
    IN  CASE observed = NoSource ->
               Settled(x0, [x0.d EXCEPT !.phase = "recovery_check_paused"], s)
          [] observed # NoSource /\ observed # x0.d.source /\ x0.d.recovered ->
               {Result(queueDuplicateCheck([x0 EXCEPT !.gate = "stale", !.d.sourceChanged = TRUE]),
                       s, 0)}
          [] observed # NoSource /\ observed # x0.d.source /\ ~x0.d.recovered ->
               abortChangedSubmission(x0, s)
          [] observed = x0.d.source /\ step.kind = "wait" ->
               {Result(Enqueue(same, [d EXCEPT !.phase = "wait_queued"], WaitCommand(d)), s, 0)}
          [] observed = x0.d.source /\ step.kind = "post" /\ ~d.recovered ->
               {Result(Enqueue(same, [d EXCEPT !.phase = "post_queued"], PostCommand(d, step)), s, 0)}
          [] observed = x0.d.source
               /\ (step.kind = "check" \/ (step.kind = "post" /\ d.recovered)) ->
               {Result(queueDuplicateCheck(same), s, 0)}
          [] OTHER -> Settled(same, [d EXCEPT !.phase = "recovery_check_paused"], s)

persistDuplicateResolution(x, s) ==
    LET d == x.d
        outcome == d.duplicate.outcome
        d1 == IF d.duplicate.checkpointDone THEN d
              ELSE [recordCheckpoint(d, d.current, outcome, NoTemp)
                      EXCEPT !.duplicate.checkpointDone = TRUE]
        clean == AllPosted(d1.review)
        Checkpointed == IF d.duplicate.checkpointDone THEN NoCall(s)
                        ELSE Checkpointing(s, d, d.current, outcome, NoTemp)
        Finished == [destroy(x) EXCEPT !.gate = IF clean /\ d.sourceChanged THEN "off" ELSE @]
    IN  UNION {IF ~a.done THEN {Result(x, a.db, a.f)} ELSE
          {IF b.done THEN Result(Finished, b.db, b.f)
           ELSE Result([x EXCEPT !.d = d1], b.db, b.f)
           : b \in Completing(a.db, d.op, IF clean THEN "clean" ELSE "partial", NoOutcome)}
        : a \in Checkpointed}

\* The outcome of the machine's last decided item, for the item just checked.
LastOutcome(m) ==
    LET last == m.results[m.idx - 1]
    IN  CASE last.status = "posted" -> Posted(last.id)
          [] last.status = "outcome_unknown" -> Unknown
          [] last.status = "failed" -> Failed
          [] OTHER -> NoOutcome

advanceAfterPolicyCheck(x, s, t) ==
    LET d == Advanced(x.d)
        step == NextStep(x.d)
    IN  CASE step.kind = "post" ->
               {Result(Enqueue(x, [d EXCEPT !.phase = "post_queued"], PostCommand(d, step)), s, 0)}
          [] step.kind = "check" -> {Result(queueDuplicateCheck(x), s, 0)}
          [] step.kind = "wait" -> ScheduleWait(x, d, s)
          [] step.kind = "done" /\ LastOutcome(d.m) # NoOutcome ->
               Persist(x, d, s, Persistence(t, LastOutcome(d.m), NoStep,
                                            IF isClean(d.m) THEN "clean" ELSE "partial",
                                            NoOutcome, NoRetry))
          [] step.kind = "done" /\ LastOutcome(d.m) = NoOutcome -> Settled(x, d, s)

acceptDuplicateCheck(x, s, t, reply) ==
    CASE x.d.policyCheck ->
           advanceAfterPolicyCheck([x EXCEPT !.d.policyCheck = FALSE,
                                             !.d.m = reportCheck(@, reply)], s, t)
      [] ~x.d.policyCheck /\ reply.outcome \in {"ambiguous", "rejected"} ->
           Settled(x, [x.d EXCEPT !.phase = "duplicate_check_paused"], s)
      [] OTHER ->
           persistDuplicateResolution(
             [x EXCEPT !.d.phase = "duplicate_persistence_paused",
                       !.d.duplicate = [outcome |-> IF reply.outcome = "found"
                                                    THEN Posted(reply.id) ELSE Unknown,
                                        checkpointDone |-> FALSE]], s)

-----------------------------------------------------------------------------
(* Processes *)

\* Process p leaves the handler with result r; a destroyed DurableSubmission
\* has released the lock.
Handled(p, r) ==
    /\ faults + r.f <= MaxFaults
    /\ faults' = faults + r.f
    /\ db' = r.db
    /\ ui' = [ui EXCEPT ![p] = r.x]
    /\ lock' = IF lock = p /\ r.x.d = NoDurable THEN Free ELSE lock

Init ==
    /\ db = [drafts |-> Pending0, counter |-> MaxTempId + 1, run |-> NoRun, nextOp |-> 1,
             carryovers |-> <<>>, posted |-> <<>>]
    /\ comments = <<>>
    /\ head = 1
    /\ lock = Free
    /\ ui = [p \in Proc |-> Down]
    /\ crashes = 0
    /\ faults = 0

\* The Notice of discoverRecovery: a probe of the lock tells who owns the run.
discoverRecovery ==
    IF ~Store!Active(db) THEN NoNotice
    ELSE [op |-> db.run.op, current |-> db.run.current, source |-> db.run.source,
          ownership |-> IF lock = Free THEN "recoverable" ELSE "running_elsewhere"]

Launch(p) ==
    /\ ~ui[p].up
    /\ ui' = [ui EXCEPT ![p] = [Down EXCEPT !.up = TRUE, !.loaded = head,
                                            !.notice = discoverRecovery]]
    /\ UNCHANGED <<db, comments, head, lock, crashes, faults>>

\* The process is killed: the OS drops its lock, and a POST on its way may
\* have reached Bitbucket.
Crash(p) ==
    /\ ui[p].up /\ crashes < MaxCrashes
    /\ crashes' = crashes + 1
    /\ ui' = [ui EXCEPT ![p] = Down]
    /\ lock' = IF lock = p THEN Free ELSE lock
    /\ \/ UNCHANGED comments
       \/ \E c \in ui[p].issued : c.kind = "post" /\ comments' \in Created(comments, c.temp, c.draft, c.parent)
    /\ UNCHANGED <<db, head, faults>>

HeadMoves ==
    /\ head + 1 \in Source
    /\ head' = head + 1
    /\ UNCHANGED <<db, comments, lock, ui, crashes, faults>>

\* A complete Candidate Session of the current head is published.
Reload(p) ==
    /\ ui[p].up
    /\ ui[p].loaded # head \/ ui[p].gate = "stale"
    /\ ui' = [ui EXCEPT ![p].loaded = head,
                        ![p].gate = IF @ = "off" THEN @ ELSE "reloaded"]
    /\ UNCHANGED <<db, comments, head, lock, crashes, faults>>

\* The ancestors of a subtree's root, up to the first posted one, are pending
\* (staleSubtreeEligible; every Draft here is review-level).
StaleEligible(review, root) ==
    /\ initSubtreeOk(review, root)
    /\ ParentDraft(review, root) # NoTemp =>
         review[ParentDraft(review, root)].state \in Editable \cup {"posted"}

GateOpen(p, root) ==
    \/ ui[p].gate = "off"
    \/ ui[p].gate = "reloaded" /\ root # NoTemp /\ StaleEligible(db.drafts, root)

\* startSubmissionSelection: the whole review (root = NoTemp) or one subtree.
\* The PendingReview is loaded, then beginSubmission commits; the read back
\* of the run may still fail and destroys the driver of a durable run.
StartSubmission(p, root) ==
    LET x == ui[p]
        m0 == IF root = NoTemp THEN init(db.drafts) ELSE initSubtree(db.drafts, root)
        m == advance(db.drafts, m0)
        rest == SubSeq(m.order, m.idx, Len(m.order))
        items == [i \in DOMAIN rest |-> [temp |-> rest[i], parent |-> db.drafts[rest[i]].parent]]
        begun == Store!BeginSubmission(db, x.loaded, items)
        restored == IF begun.run.retry = NoRetry THEN m ELSE restoreRetry(m, begun.run.retry)
        d == create(db.drafts, restored, begun.run.op, begun.run.current, x.loaded, FALSE)
    IN  /\ x.up /\ x.d = NoDurable /\ lock = Free
        /\ db.nextOp <= MaxRuns
        /\ GateOpen(p, root)
        /\ root # NoTemp => initSubtreeOk(db.drafts, root)
        /\ StepOf(db.drafts, m).kind = "post"
        /\ Store!BeginSubmissionOk(db, items)
        /\ \/ /\ lock' = p
              /\ db' = begun
              /\ ui' = [ui EXCEPT ![p] = Enqueue(x, d, RecoveryCommand(d))]
              /\ UNCHANGED faults
           \/ /\ faults < MaxFaults
              /\ faults' = faults + 1
              /\ db' = begun
              /\ UNCHANGED <<lock, ui>>
        /\ UNCHANGED <<comments, head, crashes>>

\* Mutant: an interrupted run is taken up as if nothing had been sent.
RecoveredAsFresh(run) ==
    Advanced(create(db.drafts, initFrozen(db.drafts, run.items), run.op, run.current,
                    run.source, FALSE))

\* DurableSubmission.recover: the retry point is restored into the machine
\* before advance() has passed the settled items.
Recovered(run) ==
    LET m0 == initFrozen(db.drafts, run.items)
        m == IF run.retry # NoRetry THEN restoreRetry(m0, run.retry)
             ELSE [m0 EXCEPT !.attempts[m0.idx] = 1, !.ambiguous[m0.idx] = TRUE]
    IN  Advanced(create(db.drafts, m, run.op, run.current, run.source, TRUE))

\* recoverSubmission with a Notice: the run is claimed if it is still the one
\* the Notice describes; one with no current item is completed at once.
RecoverSubmission(p) ==
    LET x == ui[p]
        known == [x EXCEPT !.notice = NoNotice]
        d == Recovered(db.run)
        step == StepOf(d.review, d.m)
    IN  /\ x.up /\ x.d = NoDurable
        /\ x.notice # NoNotice /\ x.notice.ownership = "recoverable"
        /\ \/ /\ lock # Free
              /\ ui' = [ui EXCEPT ![p].notice.ownership = "running_elsewhere"]
              /\ UNCHANGED <<db, lock, faults>>
           \/ /\ lock = Free /\ ~Store!Active(db)
              /\ ui' = [ui EXCEPT ![p] = known]
              /\ UNCHANGED <<db, lock, faults>>
           \/ /\ lock = Free /\ Store!Active(db)
              /\ <<x.notice.op, x.notice.current, x.notice.source>>
                   # <<db.run.op, db.run.current, db.run.source>>
              /\ ui' = [ui EXCEPT ![p].notice = discoverRecovery]
              /\ UNCHANGED <<db, lock, faults>>
           \/ /\ lock = Free /\ Store!Active(db)
              /\ <<x.notice.op, x.notice.current, x.notice.source>>
                   = <<db.run.op, db.run.current, db.run.source>>
              /\ IF db.run.current = NoTemp
                 THEN \E r \in Completing(db, db.run.op,
                                          IF AllPosted(db.drafts) THEN "clean" ELSE "partial",
                                          NoOutcome) :
                        Handled(p, Result(IF r.done THEN known ELSE x, r.db, r.f))
                 ELSE /\ step.kind \in {"post", "check", "wait"} /\ step.temp = db.run.current
                      /\ ui' = [ui EXCEPT ![p] = Enqueue(known, d, RecoveryCommand(d))]
                      /\ lock' = p
                      /\ UNCHANGED <<db, faults>>
        /\ UNCHANGED <<comments, head, crashes>>

\* takeCommand: the head of the queue is issued, and the phase follows when
\* the command is the current item's.
AwaitingPhase(kind) ==
    CASE kind = "post" -> "awaiting_post"
      [] kind = "wait" -> "awaiting_wait"
      [] kind = "check_recovery" -> "awaiting_recovery_check"
      [] kind = "find_duplicate" -> "awaiting_duplicate"
QueuedPhase(kind) ==
    CASE kind = "post" -> "post_queued"
      [] kind = "wait" -> "wait_queued"
      [] kind = "check_recovery" -> "recovery_check_queued"
      [] kind = "find_duplicate" -> "duplicate_queued"

Concerns(d, c) == d # NoDurable /\ d.op = c.op
                  /\ (c.kind = "check_recovery" \/ d.current = c.temp)

TakeCommand(p) ==
    LET x == ui[p]
        c == Head(x.queue)
        taken == [x EXCEPT !.queue = Tail(@), !.issued = @ \cup {c}]
    IN  /\ x.up /\ x.queue # <<>>
        /\ ui' = [ui EXCEPT ![p] =
                    IF Concerns(x.d, c) /\ x.d.phase = QueuedPhase(c.kind)
                    THEN [taken EXCEPT !.d.phase = AwaitingPhase(c.kind)] ELSE taken]
        /\ UNCHANGED <<db, comments, head, lock, crashes, faults>>

Expected(x, c) == Concerns(x.d, c) /\ x.d.phase = AwaitingPhase(c.kind)
Consumed(x, c) == [x EXCEPT !.issued = @ \ {c}]

\* A completion of command c reaches process p: dropped when it is stale.
Complete(p, c, results) ==
    IF Expected(ui[p], c) THEN \E r \in results : Handled(p, r)
    ELSE Handled(p, Result(Consumed(ui[p], c), db, 0))

\* The completion is parked when the queue cannot grow.
Parked(x, admission) ==
    {Result([x EXCEPT !.d.admission = admission, !.d.phase = "admission_paused"], db, 1)}

PostCompleted(p, c) ==
    LET x == Consumed(ui[p], c)
    IN  /\ c.kind = "post"
        /\ \E a \in post(comments, c.temp, c.draft, c.parent) :
            /\ comments' = a.comments
            /\ Complete(p, c, acceptPost(x, db, c.temp, a.reply)
                     \cup Parked(x, [kind |-> "post", cmd |-> c, reply |-> a.reply]))
        /\ UNCHANGED <<head, crashes>>

\* Mutant: the failed launch is acknowledged and forgotten.
LaunchFailureForgotten(p, c) ==
    /\ c.kind \in {"post", "wait"}
    /\ Complete(p, c, {Result(Consumed(ui[p], c), db, 1)})
    /\ UNCHANGED <<comments, head, crashes>>

\* The command could not be started: it is kept for an explicit retry.
LaunchFailed(p, c) ==
    LET x == Consumed(ui[p], c)
    IN  /\ c.kind \in {"post", "wait"}
        /\ Complete(p, c, {Result([x EXCEPT !.d.phase = IF c.kind = "post" THEN "post_retry_paused"
                                                       ELSE "wait_retry_paused",
                                            !.d.wait = c.retry], db, 1)})
        /\ UNCHANGED <<comments, head, crashes>>

WaitCompleted(p, c) ==
    LET x == Consumed(ui[p], c)
    IN  /\ c.kind = "wait"
        /\ Complete(p, c, processSubmissionWait(x, db, c)
                 \cup Parked(x, [kind |-> "wait", cmd |-> c]))
        /\ UNCHANGED <<comments, head, crashes>>

\* The read of the source commit, and of the published Comments, may fail.
RecoveryChecked(p, c, observed) ==
    /\ c.kind = "check_recovery"
    /\ Complete(p, c, acceptRecoveryCheck(Consumed(ui[p], c), db, observed))
    /\ UNCHANGED <<comments, head, crashes>>

DuplicateChecked(p, c, reply) ==
    /\ c.kind = "find_duplicate"
    /\ Complete(p, c, acceptDuplicateCheck(Consumed(ui[p], c), db, c.temp, reply))
    /\ UNCHANGED <<comments, head, crashes>>

\* Mutant: a POST that could not be launched is not taken up again.
ResumeLaunchOnlyWaits(x, s) ==
    IF x.d.phase = "post_retry_paused" THEN {}
    ELSE {IF r.done
          THEN Result(Enqueue(x, [x.d EXCEPT !.phase = "wait_queued", !.wait = NoRetry],
                              Command("wait", x.d.op, x.d.current, NoComment, NoDraft, x.d.wait)),
                      r.db, r.f)
          ELSE Result(x, r.db, r.f)
          : r \in Retrying(s, x.d, x.d.current, x.d.wait)}

\* A command that could not be launched, or a wait that was not checkpointed.
ResumeLaunch(x, s) ==
    LET d == Advanced(x.d)
        step == NextStep(x.d)
    IN  IF x.d.phase = "post_retry_paused"
        THEN IF step.kind = "post"
             THEN {Result(Enqueue(x, [d EXCEPT !.phase = "post_queued"], PostCommand(d, step)), s, 0)}
             ELSE {}
        ELSE {IF r.done
              THEN Result(Enqueue(x, [x.d EXCEPT !.phase = "wait_queued", !.wait = NoRetry],
                                  Command("wait", x.d.op, x.d.current, NoComment, NoDraft, x.d.wait)),
                          r.db, r.f)
              ELSE Result(x, r.db, r.f)
              : r \in Retrying(s, x.d, x.d.current, x.d.wait)}

ResumeAdmission(x, s) ==
    LET a == x.d.admission
        y == [x EXCEPT !.d.admission = NoAdmission, !.d.phase = AwaitingPhase(a.kind)]
    IN  IF a.kind = "post" THEN acceptPost(y, s, a.cmd.temp, a.reply)
        ELSE processSubmissionWait(y, s, a.cmd)

\* What resumes an active run: submit, recover or quit.
resumeDurableSubmission(x, s) ==
    LET phase == x.d.phase
        byPhase == {"post_retry_paused", "wait_retry_paused", "recovery_check_paused",
                    "duplicate_check_paused", "duplicate_persistence_paused"}
    IN  CASE phase \in {"post_retry_paused", "wait_retry_paused"} -> ResumeLaunch(x, s)
          [] phase = "recovery_check_paused" ->
               {Result(Enqueue(x, [x.d EXCEPT !.phase = "recovery_check_queued"],
                               RecoveryCommand(x.d)), s, 0)}
          [] phase = "duplicate_check_paused" -> {Result(queueDuplicateCheck(x), s, 0)}
          [] phase = "duplicate_persistence_paused" -> persistDuplicateResolution(x, s)
          [] phase \notin byPhase /\ x.d.admission # NoAdmission -> ResumeAdmission(x, s)
          [] phase \notin byPhase /\ x.d.admission = NoAdmission
               /\ x.d.persistence # NoPersistence -> retryPersistence(x, s)
          [] OTHER -> {}

Resume(p) ==
    /\ ui[p].up /\ ui[p].d # NoDurable
    /\ \E r \in resumeDurableSubmission(ui[p], db) : Handled(p, r)
    /\ UNCHANGED <<comments, head, crashes>>

\* Abandon recovery: the current Draft becomes outcome_unknown.
AbandonRecovered(p) ==
    LET x == ui[p]
        left == Kept(x.queue, {c \in Members(x.queue) : c.op # x.d.op})
    IN  /\ x.up /\ x.d # NoDurable
        /\ x.d.recovered /\ x.d.current # NoTemp
        /\ \E r \in Attempt(Store!AbandonSubmissionOk(db, x.d.op), db, Store!AbandonSubmission(db)) :
            Handled(p, Result(IF r.done THEN [destroy(x) EXCEPT !.queue = left] ELSE x, r.db, r.f))
        /\ UNCHANGED <<comments, head, crashes>>

\* The reviewer's answer to an outcome_unknown Draft.  The code cannot check
\* it; here it is true: a linked Comment is the Draft's, and a Draft is called
\* unpublished when no Comment of it exists or is on its way.
ResolveUnknown(p, t) ==
    LET made == CommentsBy(comments, t)
        onItsWay == \E q \in Proc : \E c \in ui[q].issued : c.kind = "post" /\ c.temp = t
    IN  /\ ui[p].up
        /\ Store!ResolveUnknownOk(db, t)
        /\ \/ \E c \in made : db' = Store!ResolveUnknown(db, t, Posted(c))
           \/ made = {} /\ ~onItsWay /\ db' = Store!ResolveUnknown(db, t, Pending)
        /\ UNCHANGED <<comments, head, lock, ui, crashes, faults>>

Completion(p) ==
    \E c \in ui[p].issued :
        \/ PostCompleted(p, c) \/ WaitCompleted(p, c) \/ LaunchFailed(p, c)
        \/ \E observed \in {head} \cup {NoSource : e \in CheckErrors} :
             RecoveryChecked(p, c, observed)
        \/ c.kind = "find_duplicate" /\ \E reply \in findExisting(comments, c.draft, c.parent) :
             DuplicateChecked(p, c, reply)

\* A read that is answered.
ReadAnswered(p) ==
    \E c \in ui[p].issued :
        \/ RecoveryChecked(p, c, head)
        \/ c.kind = "find_duplicate" /\ \E reply \in findExisting(comments, c.draft, c.parent) :
             reply.outcome \in {"found", "missing"} /\ DuplicateChecked(p, c, reply)

ProcessStep(p) ==
    \/ Launch(p) \/ Reload(p) \/ Crash(p)
    \/ \E root \in DOMAIN db.drafts \cup {NoTemp} : StartSubmission(p, root)
    \/ RecoverSubmission(p) \/ TakeCommand(p) \/ Completion(p) \/ Resume(p)
    \/ AbandonRecovered(p)
    \/ \E t \in DOMAIN db.drafts : ResolveUnknown(p, t)

Next == HeadMoves \/ \E p \in Proc : ProcessStep(p)

\* Processes run, requests end, a read that is repeated for ever is answered
\* at last, and the reviewer keeps resuming what is paused and recovering what
\* was interrupted.
Fairness ==
    \A p \in Proc : /\ WF_vars(Launch(p)) /\ WF_vars(TakeCommand(p)) /\ WF_vars(Completion(p))
                    /\ WF_vars(Resume(p)) /\ WF_vars(RecoverSubmission(p))
                    /\ SF_vars(ReadAnswered(p))

Spec == Init /\ [][Next]_vars
LiveSpec == Spec /\ Fairness

-----------------------------------------------------------------------------
(* Properties *)

Busy(p) == ui[p].d # NoDurable

\* The driver and its durable run never diverge, whatever call failed: it
\* holds the lock, and its operation and current item are the run's.
OwnerMatchesRun ==
    \A p \in Proc : Busy(p) =>
        /\ lock = p
        /\ db.run.op = ui[p].d.op
        /\ db.run.current = ui[p].d.current

\* The commands process x has queued or under way.
CommandsOf(x) == x.issued \cup ToSet(x.queue)

\* ADR-0007: "Before a POST, the Draft's `submitting` intent is persisted."
\* Every POST of the active run that is queued or under way is for the Draft
\* the run row names as current.
IntentBeforePost ==
    \A p \in Proc : \A c \in CommandsOf(ui[p]) :
        c.kind = "post" /\ c.op = db.run.op => c.temp = db.run.current

\* The driver of process p has asked for a publication check of an item that is
\* not the run's last: advanceAfterPolicyCheck may then go on to an item that the
\* run row does not name.
CheckInside(p) == Busy(p) /\ ui[p].d.policyCheck /\ ui[p].d.m.idx < Len(ui[p].d.m.order)
NoCheckInside == \A p \in Proc : ~CheckInside(p)

\* The same of a single step, after any kills, failures and recoveries: a POST is
\* queued only when the run row names its Draft (ADR-0007), but for the answer of a
\* check inside a run.  Where no check is inside a run, IntentBeforePost says as much,
\* so no run checks this one: it is for the theorem PostsIntended.
NewPosts(p) == {c \in CommandsOf(ui'[p]) \ CommandsOf(ui[p]) : c.kind = "post"}
PostsAreIntended ==
    [][\A p \in Proc : \A c \in NewPosts(p) : c.temp = db'.run.current \/ CheckInside(p)]_vars

\* "An ambiguous POST is never blindly repeated" (m16-operations.md), across
\* kills, failed transactions, abandoned runs and processes.
AtMostOneComment == \A t \in TempId : Cardinality(CommentsBy(comments, t)) <= 1

\* "An ambiguous POST is never blindly repeated" (m16-operations.md): while
\* the run's durable retry point says that a publication check is owed, no
\* POST of its current Draft is queued or under way.
NoBlindRepeat ==
    \A p \in Proc : \A c \in CommandsOf(ui[p]) :
        c.kind = "post" /\ c.op = db.run.op /\ c.temp = db.run.current =>
            db.run.retry.phase # "publication_check"

\* A posted row, or a posted_drafts record, names the Draft's own Comment
\* (ADR-0007: "the server-assigned `CommentId` a Draft received when
\* Submission POSTed it").
PostedRowsAreTrue ==
    /\ \A t \in DOMAIN db.drafts :
        db.drafts[t].state = "posted" => db.drafts[t].comment \in CommentsBy(comments, t)
    /\ \A t \in DOMAIN db.posted : db.posted[t] \in CommentsBy(comments, t)

\* A row the reviewer may edit or submit (again) is not on Bitbucket: a Draft
\* that could have been published is never taken for a pending one.
PendingIsUnpublished ==
    \A t \in DOMAIN db.drafts :
        db.drafts[t].state \in Editable => CommentsBy(comments, t) = {}

\* What the tables say of every Draft is true of Bitbucket.
RowsAreTrue == PostedRowsAreTrue /\ PendingIsUnpublished

\* A Reply is published only under the Comment its parent became, whichever
\* run or selective retry published the parent.
ReplyUnderItsParent ==
    \A c \in DOMAIN comments :
        LET p == Pending0[comments[c].by].parent
        IN  p.kind = "draft" => comments[c].parent \in CommentsBy(comments, p.id)

\* "A changed SourceCommit enters the Stale repair gate without a POST"
\* (m16-operations.md): once the driver of a recovered run has seen the source
\* move, no process has a POST of that run queued or under way, whatever is
\* answered, resumed or reloaded until the run ends.
StaleGateBlocksPosts ==
    \A p \in Proc : Busy(p) /\ ui[p].d.sourceChanged =>
        \A q \in Proc : \A c \in CommandsOf(ui[q]) :
            ~(c.kind = "post" /\ c.op = db.run.op)

\* A queued phase has its command in the queue and an awaiting phase has it
\* under way, so the run can go on.
NotStranded(p) ==
    \A kind \in {"post", "wait", "check_recovery", "find_duplicate"} :
        /\ ui[p].d.phase = QueuedPhase(kind) =>
             \E c \in ToSet(ui[p].queue) : c.kind = kind /\ Concerns(ui[p].d, c)
        /\ ui[p].d.phase = AwaitingPhase(kind) =>
             \E c \in ui[p].issued : c.kind = kind /\ Concerns(ui[p].d, c)

\* A driver never waits for nothing, whatever launch, transaction or allocation
\* fails under it, in a run of several items whose answers are all definite: the
\* command it has queued or under way is for the item the checkpoints have led to.
NeverStranded == \A p \in Proc : Busy(p) => NotStranded(p)

\* The same after kills and recoveries, by this process or another, unless an auth
\* rejection has aborted the recovered run (acceptPost refuses to restore a row that
\* a checkpoint has made submitting).  This is as long as no check is asked
\* for inside a run: advanceAfterPolicyCheck may POST an item that is not the current
\* one, or return for a skipped one.
StrandedOnlyByAbort == \A p \in Proc : Busy(p) /\ ~ui[p].d.m.aborted => NotStranded(p)

\* Every SubmissionRun a process drives ends, one way or another, and with it
\* the lock is given back.
DriverEnds == \A p \in Proc : Busy(p) ~> ~Busy(p)

=============================================================================
