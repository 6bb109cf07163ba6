----------------------------- MODULE Submission -----------------------------
(***************************************************************************)
(* The Submission engine (review/submission.zig): a clock-free machine     *)
(* over one PendingReview that says what to do next (post, check, wait,    *)
(* done, aborted) and is told what came of it.  The machine is a record m  *)
(* and its methods are operators on it, so that the durable driver can be  *)
(* composed from them (DurableSubmission.tla); SubmissionMachine.tla runs  *)
(* it alone against Bitbucket.                                             *)
(***************************************************************************)
EXTENDS Bitbucket, SequencesExt, Queues

-----------------------------------------------------------------------------
(* The machine *)

NoResult == [status |-> "none", id |-> NoComment]
Decided(status) == [status |-> status, id |-> NoComment]
PostedAs(c) == [status |-> "posted", id |-> c]
ItemResult == [status: {"none", "posted", "failed", "skipped", "outcome_unknown"},
               id: CommentId \cup {NoComment}]

\* Before the n-th retry: one second, then two.
backoffMs(n) == CASE n = 0 -> 0 [] n = 1 -> 1 [] OTHER -> 2

classifyPolicy(e) ==
    CASE e \in {"Unauthorized", "Forbidden"} -> "abort"
      [] e \in {"RateLimited", "ServerError"} -> "retry"
      [] OTHER -> "fail"

\* The result a Draft brings to a new machine.
Prefilled(review, t, settle_failures) ==
    IF t \notin DOMAIN review THEN NoResult
    ELSE CASE review[t].state = "posted" -> PostedAs(review[t].comment)
           [] review[t].state = "failed" /\ settle_failures -> Decided("failed")
           [] review[t].state = "outcome_unknown" -> Decided("outcome_unknown")
           [] OTHER -> NoResult

initOrder(review, order, settle_failures) ==
    [order |-> order, idx |-> 1,
     attempts |-> [i \in DOMAIN order |-> 0],
     checks |-> [i \in DOMAIN order |-> 0],
     ambiguous |-> [i \in DOMAIN order |-> FALSE],
     results |-> [i \in DOMAIN order |-> Prefilled(review, order[i], settle_failures)],
     mustWait |-> FALSE, retry |-> NoRetry, terminalDelay |-> NoDelay,
     aborted |-> FALSE]

-----------------------------------------------------------------------------
(* Which Drafts, in which order *)

ParentDraft(review, t) ==
    IF t \in DOMAIN review /\ review[t].parent.kind = "draft"
    THEN review[t].parent.id ELSE NoTemp

\* Passes over the Drafts in insertion (TempId) order, each emitting what has
\* become ready, until a pass emits nothing: one pass per Draft is enough.  A last
\* pass emits the members of a cycle.  The v-th visit is to one TempId.
topologicalOrder(review) ==
    LET parentReady(t, order) ==
            LET p == ParentDraft(review, t)
            IN  p \notin DOMAIN review \/ p \in Members(order)
        passes == MaxTempId * MaxTempId
        emitted[v \in 0..(passes + MaxTempId)] ==
            IF v = 0 THEN <<>>
            ELSE LET t == 1 + ((v - 1) % MaxTempId)
                     order == emitted[v - 1]
                 IN  IF /\ t \in DOMAIN review /\ t \notin Members(order)
                        /\ v > passes \/ parentReady(t, order)
                     THEN Append(order, t) ELSE order
    IN  emitted[passes + MaxTempId]

\* t is root or reaches it through at most |review| parents.
descendsFrom(review, root, t) ==
    LET up[k \in 0..Cardinality(DOMAIN review)] ==
            IF k = 0 THEN t ELSE ParentDraft(review, up[k - 1])
    IN  \E k \in DOMAIN up : up[k] = root

InSubtree(review, root) == {t \in DOMAIN review : descendsFrom(review, root, t)}

init(review) == initOrder(review, topologicalOrder(review), FALSE)

initSubtreeOk(review, root) ==
    /\ root \in DOMAIN review
    /\ review[root].state \in Editable
    /\ \A t \in InSubtree(review, root) : review[t].state \in Editable \cup {"posted"}

initSubtree(review, root) ==
    initOrder(review,
              Kept(topologicalOrder(review),
                   {t \in InSubtree(review, root) : review[t].state # "posted"}),
              FALSE)

initFrozenOk(review, items) ==
    \A i \in DOMAIN items : /\ items[i].temp \in DOMAIN review
                            /\ review[items[i].temp].parent = items[i].parent

initFrozen(review, items) ==
    initOrder(review, [i \in DOMAIN items |-> items[i].temp], TRUE)

-----------------------------------------------------------------------------
(* advance *)

Ended(m) == m.idx > Len(m.order)
Current(m) == m.order[m.idx]

\* Mutant: a Reply whose parent is not posted goes out as a root.
ParentIdsRootLike(review, m, t) ==
    LET p == review[t].parent
        at == {i \in DOMAIN m.order : m.order[i] = p.id}
    IN  CASE p.kind = "comment" -> {p.id}
          [] p.kind = "draft" /\ at # {} -> {m.results[i].id : i \in at}
          [] OTHER -> {NoComment}

\* The Comment a Reply must be posted under: NoComment for a root.
ParentIds(review, m, t) ==
    LET p == review[t].parent
        at == {i \in DOMAIN m.order : m.order[i] = p.id}
    IN  CASE p.kind = "none" -> {NoComment}
          [] p.kind = "comment" -> {p.id}
          [] p.kind = "draft" /\ at # {} ->
                {m.results[i].id : i \in {j \in at : m.results[j].status = "posted"}}
          [] OTHER -> {review[q].comment : q \in {x \in DOMAIN review \cap {p.id} :
                                                    review[x].state = "posted"}}

\* resolveParent: blocked when no posted parent is known.
Blocked(review, m, t) == ParentIds(review, m, t) = {}
resolveParent(review, m, t) == CHOOSE c \in ParentIds(review, m, t) : TRUE

\* The loop of advance passes over the current item.
Skippable(review, m) ==
    /\ ~m.aborted /\ ~Ended(m)
    /\ \/ m.results[m.idx] # NoResult
       \/ Current(m) \notin DOMAIN review
       \/ review[Current(m)].state = "posted"
       \/ Blocked(review, m, Current(m))

\* Mutant: a blocked Reply is passed over and no result is recorded.
SkipUnrecorded(review, m) == [m EXCEPT !.idx = @ + 1]

SkipItem(review, m) ==
    LET t == Current(m)
        result == IF m.results[m.idx] # NoResult \/ t \notin DOMAIN review
                  THEN m.results[m.idx]
                  ELSE IF review[t].state = "posted" THEN PostedAs(review[t].comment)
                  ELSE Decided("skipped")
    IN  [m EXCEPT !.idx = @ + 1, !.results[m.idx] = result]

\* The loop of advance, one turn for each item of the order.
Turn(review, m) == IF Skippable(review, m) THEN SkipItem(review, m) ELSE m

Passed(review, m) ==
    LET passed[n \in 0..Len(m.order)] ==
            IF n = 0 THEN m ELSE Turn(review, passed[n - 1])
    IN  passed[Len(m.order)]

\* The machine advance leaves behind (the loop moves idx and fills results),
\* and the step it returns.
advance(review, m) ==
    LET passed == Passed(review, m)
    IN  [m EXCEPT !.idx = passed.idx, !.results = passed.results]

Step(kind, t, parent) == [kind |-> kind, temp |-> t, parent |-> parent]
StepOf(review, m) ==
    CASE m.aborted -> Step("aborted", NoTemp, NoComment)
      [] ~m.aborted /\ Ended(m) -> Step("done", NoTemp, NoComment)
      [] OTHER -> Step(CASE m.mustWait -> "wait"
                         [] ~m.mustWait /\ m.ambiguous[m.idx] -> "check"
                         [] OTHER -> "post",
                       Current(m), resolveParent(review, m, Current(m)))

isClean(m) == /\ ~m.aborted
              /\ \A i \in DOMAIN m.results : m.results[i].status \in {"none", "posted"}

-----------------------------------------------------------------------------
(* report, reportCheck and the retry policy *)

completeWait(m) == [m EXCEPT !.mustWait = FALSE]

Decide(m, result) ==
    [m EXCEPT !.results[m.idx] = result, !.idx = @ + 1]

WaitPoint(phase, attempt, local, after) ==
    [phase |-> phase, attempt |-> attempt, local |-> local, server |-> after, pending |-> TRUE]

setWait(m, after) ==
    [m EXCEPT !.retry = WaitPoint("post", m.attempts[m.idx], backoffMs(m.attempts[m.idx]), after),
              !.mustWait = TRUE]

\* The POST budget stays in `attempt`; the backoff tells which check failed.
setCheckWait(m, after) ==
    [m EXCEPT !.retry = WaitPoint("publication_check", m.attempts[m.idx],
                                  backoffMs(m.checks[m.idx]), after),
              !.mustWait = TRUE]

scheduleRetryOrFail(m, after) ==
    LET spent == [m EXCEPT !.attempts[m.idx] = @ + 1]
    IN  IF spent.attempts[m.idx] >= max_attempts
        THEN Decide([spent EXCEPT !.terminalDelay = after], Decided("failed"))
        ELSE setWait([spent EXCEPT !.ambiguous[m.idx] = FALSE], after)

\* Mutant: checks that never got an answer count as proof of absence.
CheckExhaustionFails(m, after) ==
    LET spent == [m EXCEPT !.checks[m.idx] = @ + 1]
    IN  IF spent.checks[m.idx] >= max_attempts
        THEN Decide(spent, Decided("failed"))
        ELSE setCheckWait(spent, after)

scheduleCheckRetryOrUnknown(m, after) ==
    LET spent == [m EXCEPT !.checks[m.idx] = @ + 1]
    IN  IF spent.checks[m.idx] >= max_attempts
        THEN Decide(spent, Decided("outcome_unknown"))
        ELSE setCheckWait(spent, after)

\* Mutant: a lost response is retried like a 5xx.
ReportBlindRetry(m0, reply) ==
    LET m == [m0 EXCEPT !.terminalDelay = NoDelay]
        policy == classifyPolicy(reply.err)
    IN  CASE reply.outcome = "posted" -> Decide(m, PostedAs(reply.id))
          [] reply.outcome = "rejected" /\ policy = "abort" -> [m EXCEPT !.aborted = TRUE]
          [] reply.outcome = "ambiguous" \/ policy = "retry" -> scheduleRetryOrFail(m, reply.after)
          [] OTHER -> Decide(m, Decided("failed"))

\* Mutant: a lost response does not spend a POST attempt.
ReportFreeAmbiguity(m0, reply) ==
    LET m == [m0 EXCEPT !.terminalDelay = NoDelay]
        policy == classifyPolicy(reply.err)
    IN  CASE reply.outcome = "posted" ->
               Decide([m EXCEPT !.ambiguous[m.idx] = FALSE], PostedAs(reply.id))
          [] reply.outcome = "ambiguous" ->
               [m EXCEPT !.ambiguous[m.idx] = TRUE, !.checks[m.idx] = 0]
          [] reply.outcome = "rejected" /\ policy = "abort" -> [m EXCEPT !.aborted = TRUE]
          [] reply.outcome = "rejected" /\ policy = "retry" -> scheduleRetryOrFail(m, reply.after)
          [] OTHER -> Decide(m, Decided("failed"))

report(m0, reply) ==
    LET m == [m0 EXCEPT !.terminalDelay = NoDelay]
        policy == classifyPolicy(reply.err)
    IN  CASE reply.outcome = "posted" ->
               Decide([m EXCEPT !.ambiguous[m.idx] = FALSE], PostedAs(reply.id))
          [] reply.outcome = "ambiguous" ->
               [m EXCEPT !.attempts[m.idx] = @ + 1, !.ambiguous[m.idx] = TRUE,
                         !.checks[m.idx] = 0]
          [] reply.outcome = "rejected" /\ policy = "abort" -> [m EXCEPT !.aborted = TRUE]
          [] reply.outcome = "rejected" /\ policy = "retry" -> scheduleRetryOrFail(m, reply.after)
          [] OTHER -> Decide(m, Decided("failed"))

\* Mutant: an absent Comment leaves the item in doubt, to be checked again.
ReportCheckKeepsDoubt(m, reply) ==
    LET policy == classifyPolicy(reply.err)
    IN  CASE reply.outcome = "found" ->
               Decide([m EXCEPT !.ambiguous[m.idx] = FALSE], PostedAs(reply.id))
          [] reply.outcome = "missing" ->
               IF m.attempts[m.idx] >= max_attempts
               THEN Decide(m, Decided("outcome_unknown")) ELSE setWait(m, reply.after)
          [] reply.outcome = "ambiguous" \/ (reply.outcome = "rejected" /\ policy = "retry") ->
               scheduleCheckRetryOrUnknown(m, reply.after)
          [] OTHER -> Decide(m, Decided("outcome_unknown"))

reportCheck(m, reply) ==
    LET policy == classifyPolicy(reply.err)
        absent == [m EXCEPT !.ambiguous[m.idx] = FALSE, !.checks[m.idx] = 0]
    IN  CASE reply.outcome = "found" ->
               Decide([m EXCEPT !.ambiguous[m.idx] = FALSE], PostedAs(reply.id))
          [] reply.outcome = "missing" ->
               IF m.attempts[m.idx] >= max_attempts
               THEN Decide(absent, Decided("outcome_unknown"))
               ELSE setWait(absent, reply.after)
          [] reply.outcome = "ambiguous" \/ (reply.outcome = "rejected" /\ policy = "retry") ->
               scheduleCheckRetryOrUnknown(m, reply.after)
          [] OTHER -> Decide(m, Decided("outcome_unknown"))

\* Mutant: the retry point of a check is restored as one of a POST.
RestoreForgetsCheck(m, retry) ==
    [m EXCEPT !.retry = retry, !.attempts[m.idx] = retry.attempt, !.checks[m.idx] = 0,
              !.ambiguous[m.idx] = ~retry.pending, !.mustWait = retry.pending]

\* A durable retry point, replayed at the current item.
restoreRetry(m, retry) ==
    LET checking == retry.phase = "publication_check"
    IN  [m EXCEPT !.retry = retry,
                  !.attempts[m.idx] = retry.attempt,
                  !.checks[m.idx] = CASE ~checking -> 0
                                      [] checking /\ retry.local = backoffMs(1) -> 1
                                      [] OTHER -> 2,
                  !.ambiguous[m.idx] = checking \/ ~retry.pending,
                  !.mustWait = retry.pending]

=============================================================================
