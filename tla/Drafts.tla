------------------------------- MODULE Drafts -------------------------------
(***************************************************************************)
(* The vocabulary of review/draft.zig and review/store.zig that the store, *)
(* the Submission engine and its durable driver share: a Draft's row, its  *)
(* lifecycle, a SubmissionRun and its retry checkpoint.                    *)
(***************************************************************************)
EXTENDS Integers, Sequences

CONSTANTS
    MaxTempId,    \* bound: TempIds are 1..MaxTempId (u64 in the code)
    MaxRuns,      \* bound: at most this many SubmissionRuns are begun
    MaxCommentId, \* bound: server CommentIds are 1..MaxCommentId
    Delay,        \* server Retry-After values, in seconds
    Body,         \* Draft bodies
    Anchor,       \* inline Anchors
    Source        \* source commits of the pull request

ASSUME BoundsAssumption ==
    /\ MaxTempId \in Nat /\ MaxRuns \in Nat /\ MaxCommentId \in Nat
    /\ Delay \subseteq Nat

\* review/submission.zig max_attempts, and the longest backoff in seconds.
max_attempts == 3
MaxBackoff == 2

TempId == 1..MaxTempId
CommentId == 1..MaxCommentId
NoTemp == 0       \* SQL NULL in current_temp_id
NoComment == 0    \* SQL NULL in state_id
NoDelay == -1     \* SQL NULL in retry_server_ms
NoAnchor == "no anchor"
NoSource == 0

NoParent == [kind |-> "none", id |-> 0]
DraftParent(t) == [kind |-> "draft", id |-> t]
CommentParent(c) == [kind |-> "comment", id |-> c]
Parent == {NoParent} \cup {DraftParent(t) : t \in TempId}
                     \cup {CommentParent(c) : c \in CommentId}

DraftState == {"draft", "submitting", "posted", "failed", "outcome_unknown"}
Editable == {"draft", "failed"}

Draft == [parent: Parent, state: DraftState, comment: CommentId \cup {NoComment},
          body: Body, anchor: Anchor \cup {NoAnchor}]

NoRetry == [phase |-> "none", attempt |-> 0, local |-> 0, server |-> NoDelay,
            pending |-> FALSE]
Retry == [phase: {"post", "publication_check"}, attempt: 0..max_attempts,
          local: 0..MaxBackoff, server: Delay \cup {NoDelay}, pending: BOOLEAN]

Item == [temp: TempId, parent: Parent]

NoRun == [op |-> 0, items |-> <<>>, current |-> NoTemp, retry |-> NoRetry,
          source |-> NoSource]
Run == [op: 1..MaxRuns, items: Seq(Item), current: TempId \cup {NoTemp},
        retry: Retry \cup {NoRetry}, source: Source]

Posted(c) == [state |-> "posted", comment |-> c]
Failed == [state |-> "failed", comment |-> NoComment]
Unknown == [state |-> "outcome_unknown", comment |-> NoComment]
Pending == [state |-> "draft", comment |-> NoComment]
Submitting == [state |-> "submitting", comment |-> NoComment]
Outcome == {Posted(c) : c \in CommentId} \cup {Failed, Unknown}

\* The row of Draft d with the state columns of st.
WithState(d, st) == [d EXCEPT !.state = st.state, !.comment = st.comment]

=============================================================================
