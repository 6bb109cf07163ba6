-------------------------- MODULE SubmissionMachine -------------------------
(***************************************************************************)
(* The Submission engine run against Bitbucket by a caller that carries    *)
(* out every step and reports what came of it, with nothing persisted: the *)
(* contract of review/submission.zig by itself.  Each iteration of the     *)
(* loop in advance() is an action of its own; nothing else can run between *)
(* two of them.                                                            *)
(***************************************************************************)
EXTENDS Submission

CONSTANT Reviews  \* the PendingReviews a Submission is started on

\* What the store can hold (PendingReviewStore): a Reply's parent is an older
\* Draft, and nothing is `submitting`.
ASSUME ReviewsAssumption ==
    \A r \in Reviews :
        /\ DOMAIN r \subseteq TempId
        /\ \A t \in DOMAIN r :
            /\ r[t] \in Draft
            /\ r[t].state # "submitting"
            /\ r[t].state = "posted" <=> r[t].comment # NoComment
            /\ r[t].parent.kind = "draft" =>
                 r[t].parent.id \in DOMAIN r /\ r[t].parent.id < t

\* Earlier runs told the truth: no two Drafts became one Comment, and a Reply was
\* only posted under a posted parent.
Consistent(r) ==
    \A t \in DOMAIN r : r[t].state = "posted" =>
        /\ \A u \in DOMAIN r : r[u].state = "posted" /\ r[u].comment = r[t].comment => u = t
        /\ r[t].parent.kind = "draft" => r[r[t].parent.id].state = "posted"

\* The duplicate guard can tell the Drafts apart whatever their parents become.
Distinguishable(r) == \A t, u \in DOMAIN r : r[t].body = r[u].body => t = u

VARIABLES
    review,   \* the PendingReview: read by the machine, never written
    m,        \* the machine
    call,     \* the step the caller is carrying out
    comments, \* Bitbucket
    sends     \* POSTs sent for each Draft (history)

vars == <<review, m, call, comments, sends>>

NoCall == Step("none", NoTemp, NoComment)
Terminal == call.kind \in {"done", "aborted"}

\* Drafts posted by an earlier run are on Bitbucket already.
AlreadyPosted(r) ==
    [c \in {r[t].comment : t \in {x \in DOMAIN r : r[x].state = "posted"}} |->
        LET t == CHOOSE x \in DOMAIN r : r[x].state = "posted" /\ r[x].comment = c
            p == r[t].parent
        IN  [by |-> t, body |-> r[t].body, anchor |-> r[t].anchor,
             parent |-> CASE p.kind = "none" -> NoComment
                          [] p.kind = "comment" -> p.id
                          [] p.kind = "draft" -> r[p.id].comment]]

Init ==
    /\ review \in Reviews
    /\ \/ m = init(review)
       \/ \E root \in DOMAIN review :
             initSubtreeOk(review, root) /\ m = initSubtree(review, root)
    /\ call = NoCall
    /\ comments = AlreadyPosted(review)
    /\ sends = [t \in TempId |-> 0]

Skip ==
    /\ call = NoCall
    /\ Skippable(review, m)
    /\ m' = SkipItem(review, m)
    /\ UNCHANGED <<review, call, comments, sends>>

Issue ==
    /\ call = NoCall
    /\ ~Skippable(review, m)
    /\ call' = StepOf(review, m)
    /\ UNCHANGED <<review, m, comments, sends>>

Post ==
    /\ call.kind = "post"
    /\ \E a \in post(comments, call.temp, review[call.temp], call.parent) :
        /\ comments' = a.comments
        /\ m' = report(m, a.reply)
    /\ sends' = [sends EXCEPT ![call.temp] = @ + 1]
    /\ call' = NoCall
    /\ UNCHANGED review

Check ==
    /\ call.kind = "check"
    /\ \E reply \in findExisting(comments, review[call.temp], call.parent) :
        m' = reportCheck(m, reply)
    /\ call' = NoCall
    /\ UNCHANGED <<review, comments, sends>>

Wait ==
    /\ call.kind = "wait"
    /\ m' = completeWait(m)
    /\ call' = NoCall
    /\ UNCHANGED <<review, comments, sends>>

Finished == Terminal /\ UNCHANGED vars

Next == Skip \/ Issue \/ Post \/ Check \/ Wait \/ Finished

\* The caller carries out every step it is given, and every request ends
\* (Bitbucket answers or the transport gives up).
Fairness == WF_vars(Skip \/ Issue \/ Post \/ Check \/ Wait)

Spec == Init /\ [][Next]_vars /\ Fairness

-----------------------------------------------------------------------------
(* Properties *)

Positions == DOMAIN m.order

\* "An ambiguous POST is never blindly repeated" (m16-operations.md): whatever
\* is lost, rejected or retried, no Draft becomes two Comments.
AtMostOneComment == \A t \in TempId : Cardinality(CommentsBy(comments, t)) <= 1

\* A Reply is published only under the Comment its parent became, whichever
\* run published the parent.
ReplyUnderItsParent ==
    \A c \in DOMAIN comments :
        LET p == review[comments[c].by].parent
        IN  CASE p.kind = "none" -> comments[c].parent = NoComment
              [] p.kind = "comment" -> comments[c].parent = p.id
              [] p.kind = "draft" -> /\ comments[c].parent \in DOMAIN comments
                                     /\ comments[comments[c].parent].by = p.id

\* What the machine decided is true of Bitbucket: `posted` names the Draft's
\* own Comment, `failed` and `skipped` mean there is none; and when it stops,
\* a Comment it does not know of is at most an `outcome_unknown`.
ResultsAreTrue ==
    /\ \A i \in Positions :
        LET made == CommentsBy(comments, m.order[i])
        IN  CASE m.results[i].status = "posted" -> made = {m.results[i].id}
              [] m.results[i].status \in {"failed", "skipped"} -> made = {}
              [] OTHER -> Terminal /\ m.results[i] = NoResult => made = {}

\* "Duplicate-guard reads receive their own budget": no Draft is POSTed more
\* than max_attempts times, every send is one the budget has counted, and no
\* Draft is looked for more often than the other budget allows.
BudgetsKept ==
    \A i \in Positions :
        /\ sends[m.order[i]] <= max_attempts
        /\ m.results[i] = NoResult /\ ~m.aborted => sends[m.order[i]] = m.attempts[i]
        /\ m.checks[i] <= max_attempts

\* When the batch is done every item is decided, and a Reply was skipped
\* exactly when it was open and its parent is not published.
DoneIsComplete ==
    call.kind = "done" =>
        \A i \in Positions :
            /\ m.results[i] # NoResult
            /\ m.results[i].status = "skipped" <=>
                 /\ review[m.order[i]].state \in Editable
                 /\ Blocked(review, m, m.order[i])

\* Every Submission ends: retries, checks and waits are bounded.
Terminates == <>Terminal

=============================================================================
