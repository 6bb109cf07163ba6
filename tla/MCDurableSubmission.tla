------------------------- MODULE MCDurableSubmission ------------------------
(* Instances of DurableSubmission for TLC. *)
EXTENDS DurableSubmission

PendingDraft(t, p) == [parent |-> p, state |-> "draft", comment |-> NoComment,
                       body |-> t, anchor |-> NoAnchor]

One == [t \in {1} |-> PendingDraft(t, NoParent)]
Thread == [t \in {1, 2} |-> PendingDraft(t, IF t = 1 THEN NoParent ELSE DraftParent(1))]
Roots == [t \in {1, 2} |-> PendingDraft(t, NoParent)]

\* The processes are interchangeable.
ProcSymmetry == Permutations(Proc)
=============================================================================
