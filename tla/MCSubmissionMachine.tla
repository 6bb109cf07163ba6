------------------------- MODULE MCSubmissionMachine ------------------------
(* Instances of SubmissionMachine for TLC. *)
EXTENDS SubmissionMachine

\* A Reply's parent is older; the published parent is Comment MaxCommentId.
Rows(t) == {[parent |-> p, state |-> st.state, comment |-> st.comment,
             body |-> t, anchor |-> NoAnchor]
            : p \in {NoParent, CommentParent(MaxCommentId)} \cup {DraftParent(q) : q \in 1..t - 1},
              st \in {Pending, Failed, Unknown, Posted(t)}}

ReviewsOf(n) ==
    {r \in [1..n -> UNION {Rows(t) : t \in 1..n}] :
        (\A t \in 1..n : r[t] \in Rows(t)) /\ Consistent(r)}

\* Two levels of Replies, as a chain and as siblings.
Nested == {r \in ReviewsOf(3) :
             /\ \A t \in 1..3 : r[t].state = "draft"
             /\ r[1].parent = NoParent /\ r[2].parent = DraftParent(1)
             /\ r[3].parent.kind = "draft"}

\* Every PendingReview of two Drafts, and the nested ones of three; the bodies
\* are distinct.
MCReviews == ReviewsOf(2) \cup Nested

\* What the theorems that need more than ReviewsAssumption ask for.
ASSUME TheoremHypotheses ==
    /\ \A r \in Reviews : Consistent(r) /\ Distinguishable(r)
    /\ "MalformedResponse" \notin PostErrors
=============================================================================
