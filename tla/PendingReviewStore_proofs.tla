---------------------- MODULE PendingReviewStore_proofs ----------------------
(* Proofs about PendingReviewStore, for every value of its constants. *)
EXTENDS PendingReviewStore, NaturalsInduction, WellFoundedInduction, TLAPS

-----------------------------------------------------------------------------
(* Lemmas about the operators *)

\* MAX(local_id)+1 exists and lies above every row.
LEMMA NextAboveIsAbove ==
    ASSUME NEW S \in SUBSET TempId
    PROVE  /\ NextAbove(S) \in 1..MaxTempId + 1
           /\ \A t \in S : t < NextAbove(S)
<1> DEFINE R == {ss \in Nat \X Nat : ss[1] < ss[2]}
<1> DEFINE U == {n \in Nat : n >= 1 /\ \A t \in S : t < n}
<1>1. MaxTempId + 1 \in U
  BY BoundsAssumption DEF TempId
<1>2. IsWellFoundedOn(R, Nat)
  BY NatLessThanWellFounded, Zenon DEF OpToRel
<1>3. PICK n \in U : \A m \in U : ~(<<m, n>> \in R)
  <2> HIDE DEF R
  <2> QED BY <1>2, <1>1, WFMin, Zenon
<1>4. \A m \in U : n <= m
  <2> TAKE m \in U
  <2>1. <<m, n>> \in Nat \X Nat
    OBVIOUS
  <2>2. ~(m < n)
    BY <1>3, <2>1
  <2> QED BY <2>2
<1>5. n <= MaxTempId + 1 /\ n \in 1..MaxTempId + 1
  BY <1>1, <1>4, BoundsAssumption
<1>6. n = 1 \/ n - 1 \in S
  <2>1. SUFFICES ASSUME n # 1 PROVE n - 1 \in S
    OBVIOUS
  <2>2. n - 1 \notin U /\ n - 1 \in Nat /\ n - 1 >= 1
    BY <1>4, <2>1
  <2>3. PICK t \in S : ~(t < n - 1)
    BY <2>2
  <2>4. t \in Nat /\ t < n
    BY BoundsAssumption DEF TempId
  <2> QED BY <2>3, <2>4
<1> QED
  BY <1>5, <1>6 DEF NextAbove

\* The recursive CTE's closure: a Reply to a member is a member.
LEMMA SubtreeClosed ==
    ASSUME NEW s, NEW root, NEW t \in DOMAIN s.drafts,
           s.drafts[t].parent.kind = "draft",
           s.drafts[t].parent.id \in Subtree(s, root)
    PROVE  t \in Subtree(s, root)
  BY DEF Subtree, ClosedUnderReplies

\* The state columns that the transactions write.
LEMMA StateColumns ==
    \A st \in Outcome \cup {Pending, Submitting} :
        /\ st.state \in DraftState
        /\ st.comment \in CommentId \cup {NoComment}
        /\ st.state = "posted" => st.comment \in CommentId
        /\ st.state = "submitting" => st = Submitting
  BY DEF Outcome, Posted, Failed, Unknown, Pending, Submitting, DraftState

\* Writing them keeps the row a Draft and keeps its parent.
LEMMA WithStateRow ==
    ASSUME NEW d \in Draft, NEW st \in Outcome \cup {Pending, Submitting}
    PROVE  /\ WithState(d, st) \in Draft
           /\ WithState(d, st).parent = d.parent
           /\ WithState(d, st).state = st.state
           /\ WithState(d, st).comment = st.comment
<1>1. st.state \in DraftState /\ st.comment \in CommentId \cup {NoComment}
  BY StateColumns
<1> QED BY <1>1 DEF WithState, Draft

\* The ids handed out next lie above every id in the tables.
LEMMA FloorIsAbove ==
    ASSUME IInv
    PROVE  /\ TempIdFloor(db) \in 1..MaxTempId + 1
           /\ \A t \in used : t < TempIdFloor(db)
           /\ NextTempId(db) \in 1..MaxTempId + 1
           /\ \A t \in used : t < NextTempId(db)
<1>1. DOMAIN db.drafts \in SUBSET TempId /\ db.counter \in 0..MaxTempId + 1
  BY DEF IInv, TypeOK
<1>2. \A t \in used : t \in Nat
  BY BoundsAssumption DEF IInv, TypeOK, TempId
<1> QED
  BY <1>1, <1>2, NextAboveIsAbove, BoundsAssumption
  DEF IInv, TempIdBounds, TempIdFloor, NextTempId

-----------------------------------------------------------------------------
(* The inductive invariant *)

\* The database of an older version satisfies the invariant.
LEMMA InitIInv == Init => IInv
<1> SUFFICES ASSUME Init PROVE IInv
  OBVIOUS
<1>1. TypeOK
  <2>1. NoRun \in Run \cup {NoRun} /\ NoParent \in Parent
    BY DEF Parent
  <2>2. (CHOOSE b \in Body : TRUE) \in Body
    BY LegacyAssumption
  <2>3. db.drafts \in [DOMAIN db.drafts -> Draft]
    BY <2>1, <2>2 DEF Init, Draft, DraftState, NoComment
  <2> QED BY <2>1, <2>3, LegacyAssumption, BoundsAssumption DEF Init, TypeOK, TempId
<1>2. SubmittingIsCurrent
  BY DEF Init, SubmittingIsCurrent, Active, NoRun
<1>3. FrozenGraph
  BY DEF Init, FrozenGraph, NoRun
<1>4. ParentsExist /\ PostedHasComment
  BY DEF Init, ParentsExist, PostedHasComment, NoParent
<1>5. TempIdBounds
  BY DEF Init, TempIdBounds, OneRepresentation
<1> QED BY <1>1, <1>2, <1>3, <1>4, <1>5 DEF IInv
\* What every step keeps of the rows it does not settle.
History == PostedKept /\ ThreadKept

\* A step keeps both when it keeps the posted rows and every parent.
LEMMA RowsKept ==
    ASSUME \A x \in DOMAIN db.drafts : db.drafts[x].state = "posted" =>
               x \in DOMAIN db'.drafts /\ db'.drafts[x] = db.drafts[x],
           \A x \in DOMAIN db.drafts \cap DOMAIN db'.drafts :
               db'.drafts[x].parent = db.drafts[x].parent
    PROVE  History
  BY DEF History, PostedKept, ThreadKept

\* A transaction that rewrites one row and keeps its parent.
LEMMA RowUpdate ==
    ASSUME IInv, NEW t \in DOMAIN db.drafts, NEW row \in Draft,
           row.parent = db.drafts[t].parent,
           db.drafts[t].state \notin {"submitting", "posted"}, row.state # "submitting",
           row.state = "posted" => row.comment \in CommentId,
           db' = [db EXCEPT !.drafts[t] = row], UNCHANGED <<reserved, used>>
    PROVE  IInv' /\ History
<1>1. /\ db'.drafts = [db.drafts EXCEPT ![t] = row]
      /\ db'.counter = db.counter /\ db'.run = db.run /\ db'.nextOp = db.nextOp
      /\ db'.carryovers = db.carryovers /\ db'.posted = db.posted
  BY DEF IInv, TypeOK
<1>2. DOMAIN db'.drafts = DOMAIN db.drafts
  BY <1>1
<1>3. TypeOK'
  BY <1>1, <1>2 DEF IInv, TypeOK
<1>4. SubmittingIsCurrent'
  BY <1>1, <1>2 DEF IInv, SubmittingIsCurrent, Active
<1>5. FrozenGraph' /\ ParentsExist' /\ PostedHasComment'
  BY <1>1, <1>2 DEF IInv, TypeOK, FrozenGraph, ParentsExist, PostedHasComment
<1>6. TempIdBounds'
  BY <1>1, <1>2 DEF IInv, TempIdBounds, OneRepresentation
<1>7. History
  BY <1>1, <1>2, RowsKept
<1> QED BY <1>3, <1>4, <1>5, <1>6, <1>7 DEF IInv

\* reserveTempId only raises the counter past the id it hands out.
LEMMA ReserveStep == IInv /\ Reserve => IInv' /\ History
<1> SUFFICES ASSUME IInv, Reserve PROVE IInv' /\ History
  OBVIOUS
<1> DEFINE n == NextTempId(db)
<1>1. /\ n \in TempId /\ n + 1 \in 1..MaxTempId + 1
      /\ \A t \in used : t < n
  BY FloorIsAbove, BoundsAssumption DEF Reserve, TempId
<1>2. /\ db'.counter = n + 1
      /\ db'.drafts = db.drafts /\ db'.run = db.run /\ db'.nextOp = db.nextOp
      /\ db'.carryovers = db.carryovers /\ db'.posted = db.posted
      /\ reserved' = reserved \cup {n} /\ used' = used \cup {n}
  BY DEF Reserve, ReserveTempId, IInv, TypeOK
<1> HIDE DEF n
<1>3. TypeOK'
  BY <1>1, <1>2 DEF Reserve, ReserveTempId, IInv, TypeOK
<1>4. n \notin used
  BY <1>1, BoundsAssumption DEF TempId
<1>5. TempIdBounds'
  BY <1>1, <1>2, <1>4, BoundsAssumption DEF IInv, TypeOK, TempIdBounds, OneRepresentation, TempId
<1>6. SubmittingIsCurrent' /\ FrozenGraph' /\ ParentsExist' /\ PostedHasComment'
  BY <1>2 DEF IInv, SubmittingIsCurrent, FrozenGraph, ParentsExist, PostedHasComment, Active
<1>7. History
  BY <1>2, RowsKept
<1> QED BY <1>3, <1>5, <1>6, <1>7 DEF IInv

\* put adds a row for a reserved id, under a parent that exists.
LEMMA SaveStep == IInv /\ Save => IInv' /\ History
<1> SUFFICES ASSUME IInv, NEW t \in reserved, NEW p \in Parent, NEW b \in Body,
                    NEW a \in Anchor \cup {NoAnchor}, SaveDraft(t, p, b, a)
             PROVE  IInv' /\ History
  BY DEF Save
<1> DEFINE q == ResolvedParent(db, p)
           row == [parent |-> q, state |-> "draft", comment |-> NoComment, body |-> b, anchor |-> a]
<1>1. t \in TempId /\ t \notin DOMAIN db.drafts /\ t \notin DOMAIN db.posted /\ t \in used
  BY DEF IInv, TypeOK, TempIdBounds
<1>2. q \in Parent /\ (q.kind = "draft" => q.id \in DOMAIN db.drafts)
  <2>1. CASE p.kind = "draft" /\ p.id \notin DOMAIN db.drafts
    <3>1. p.id \in DOMAIN db.posted
      BY <2>1 DEF SaveDraft, PutOk, ResolvedParent
    <3>2. q = CommentParent(db.posted[p.id]) /\ db.posted[p.id] \in CommentId
      BY <2>1, <3>1 DEF ResolvedParent, IInv, TypeOK
    <3> QED BY <3>2 DEF CommentParent, Parent
  <2>2. CASE ~(p.kind = "draft" /\ p.id \notin DOMAIN db.drafts)
    BY <2>2 DEF ResolvedParent
  <2> QED BY <2>1, <2>2
<1>3. row \in Draft
  BY <1>2 DEF Draft, DraftState
<1>4. /\ db'.drafts = WithRow(db.drafts, t, row)
      /\ db'.counter = db.counter /\ db'.run = db.run /\ db'.nextOp = db.nextOp
      /\ db'.carryovers = db.carryovers /\ db'.posted = db.posted
      /\ reserved' = reserved \ {t} /\ used' = used
  BY DEF SaveDraft, Put, IInv, TypeOK
<1>5. /\ DOMAIN db'.drafts = DOMAIN db.drafts \cup {t}
      /\ db'.drafts[t] = row
      /\ \A x \in DOMAIN db.drafts : db'.drafts[x] = db.drafts[x]
  BY <1>1, <1>4 DEF WithRow
<1>6. row.parent = q /\ row.state = "draft"
  OBVIOUS
<1> HIDE DEF row, q
<1>7. TypeOK'
  <2>1. db'.drafts \in [DOMAIN db'.drafts -> Draft]
    BY <1>3, <1>4, <1>5 DEF WithRow, IInv, TypeOK
  <2> QED BY <2>1, <1>1, <1>4, <1>5 DEF SaveDraft, Put, IInv, TypeOK
<1>8. db.run.current # t
  BY <1>1, BoundsAssumption DEF IInv, TypeOK, SubmittingIsCurrent, Active, TempId, NoTemp, NoRun, Run
<1>9. SubmittingIsCurrent'
  BY <1>4, <1>5, <1>6, <1>8 DEF IInv, SubmittingIsCurrent, Active
<1>10. FrozenGraph' /\ ParentsExist' /\ PostedHasComment'
  BY <1>2, <1>4, <1>5, <1>6 DEF IInv, FrozenGraph, ParentsExist, PostedHasComment
<1>11. db.counter # 0
  BY <1>1 DEF IInv, TempIdBounds
<1>12. TempIdBounds'
  BY <1>1, <1>4, <1>5, <1>11 DEF IInv, TempIdBounds, OneRepresentation
<1>13. History
  BY <1>5, RowsKept
<1> QED BY <1>7, <1>9, <1>10, <1>12, <1>13 DEF IInv
\* Deletion removes whole subtrees of pending Drafts.
LEMMA DeleteStep ==
    ASSUME IInv, NEW root, NEW cascade,
           DeleteDraftSubtreeOk(db, root, db.drafts[root].parent, cascade),
           db' = DeleteDraftSubtree(db, cascade), UNCHANGED <<reserved, used>>
    PROVE  IInv' /\ History
<1>1. /\ db'.drafts = WithoutRows(db.drafts, cascade)
      /\ db'.counter = TempIdFloor(db) /\ db'.run = db.run /\ db'.nextOp = db.nextOp
      /\ db'.carryovers = db.carryovers /\ db'.posted = db.posted
  BY DEF DeleteDraftSubtree, IInv, TypeOK
<1>2. /\ DOMAIN db'.drafts = DOMAIN db.drafts \ cascade
      /\ \A t \in DOMAIN db'.drafts : db'.drafts[t] = db.drafts[t]
  BY <1>1 DEF WithoutRows
<1>3. /\ TempIdFloor(db) \in 1..MaxTempId + 1 
      /\ \A t \in used : t < TempIdFloor(db)
  BY FloorIsAbove
<1>4. TypeOK'
  <2>1. db'.drafts \in [DOMAIN db'.drafts -> Draft]
    BY <1>1, <1>2 DEF WithoutRows, IInv, TypeOK
  <2>2. db' = [drafts |-> db'.drafts, counter |-> db'.counter, run |-> db'.run,
               nextOp |-> db'.nextOp, carryovers |-> db'.carryovers, posted |-> db'.posted]
    BY DEF DeleteDraftSubtree, IInv, TypeOK
  <2> QED BY <2>1, <2>2, <1>1, <1>2, <1>3 DEF IInv, TypeOK
<1>5. \A t \in cascade : /\ t \in DOMAIN db.drafts /\ db.drafts[t].state \in Editable
                         /\ t \notin ItemTemps(db.run.items)
  BY DEF DeleteDraftSubtreeOk, Subtree, InRun
<1>6. SubmittingIsCurrent'
  BY <1>1, <1>2, <1>5 DEF IInv, SubmittingIsCurrent, Active, Editable
<1>7. FrozenGraph'
  BY <1>1, <1>2, <1>5 DEF IInv, FrozenGraph, ItemTemps
<1>8. ParentsExist'
  <2> SUFFICES ASSUME NEW t \in DOMAIN db'.drafts, db'.drafts[t].parent.kind = "draft"
               PROVE  db'.drafts[t].parent.id \in DOMAIN db'.drafts
    BY DEF ParentsExist
  <2>1. db.drafts[t].parent.id \in DOMAIN db.drafts
    BY <1>2 DEF IInv, ParentsExist
  <2>2. db.drafts[t].parent.id \notin cascade
    BY <1>2, SubtreeClosed DEF DeleteDraftSubtreeOk
  <2> QED BY <1>2, <2>1, <2>2
<1>9. PostedHasComment'
  BY <1>2 DEF IInv, PostedHasComment
<1>10. TempIdBounds'
  BY <1>1, <1>2, <1>3 DEF IInv, TempIdBounds, OneRepresentation
<1>11. History
  BY <1>2, <1>5, RowsKept DEF Editable
<1> QED BY <1>4, <1>6, <1>7, <1>8, <1>9, <1>10, <1>11 DEF IInv

\* Editing, re-anchoring, deleting and resolving leave participants alone.
LEMMA DraftStepStep == IInv /\ DraftStep => IInv' /\ History
<1> SUFFICES ASSUME IInv, NEW t \in DOMAIN db.drafts,
        \/ \E b \in Body : Mutate(EditDraftBodyOk(db, t, db.drafts[t].parent),
                                  EditDraftBody(db, t, b))
        \/ \E a \in Anchor : Mutate(ReanchorDraftOk(db, t), ReanchorDraft(db, t, a))
        \/ Mutate(DeleteDraftSubtreeOk(db, t, db.drafts[t].parent, Subtree(db, t)),
                  DeleteDraftSubtree(db, Subtree(db, t)))
        \/ \E st \in {Posted(c) : c \in CommentId} \cup {Pending} :
               Mutate(ResolveUnknownOk(db, t), ResolveUnknown(db, t, st))
             PROVE  IInv' /\ History
  BY DEF DraftStep
<1>1. db.drafts[t] \in Draft
  BY DEF IInv, TypeOK
<1>2. CASE \E b \in Body : Mutate(EditDraftBodyOk(db, t, db.drafts[t].parent),
                                 EditDraftBody(db, t, b))
  <2>1. PICK b \in Body : Mutate(EditDraftBodyOk(db, t, db.drafts[t].parent),
                                EditDraftBody(db, t, b))
    BY <1>2
  <2> DEFINE row == [WithState(db.drafts[t], Pending) EXCEPT !.body = b]
  <2>2. row \in Draft /\ row.parent = db.drafts[t].parent /\ row.state = "draft"
    BY <1>1 DEF Draft, DraftState, WithState, Pending
  <2>3. db' = [db EXCEPT !.drafts[t] = row] /\ UNCHANGED <<reserved, used>>
    BY <2>1 DEF Mutate, EditDraftBody
  <2>4. db.drafts[t].state \notin {"submitting", "posted"}
    BY <2>1 DEF Mutate, EditDraftBodyOk, Editable
  <2> HIDE DEF row
  <2> QED BY <2>2, <2>3, <2>4, RowUpdate
<1>3. CASE \E a \in Anchor : Mutate(ReanchorDraftOk(db, t), ReanchorDraft(db, t, a))
  <2>1. PICK a \in Anchor : Mutate(ReanchorDraftOk(db, t), ReanchorDraft(db, t, a))
    BY <1>3
  <2> DEFINE row == [WithState(db.drafts[t], Pending) EXCEPT !.anchor = a]
  <2>2. row \in Draft /\ row.parent = db.drafts[t].parent /\ row.state = "draft"
    BY <1>1 DEF Draft, DraftState, WithState, Pending
  <2>3. db' = [db EXCEPT !.drafts[t] = row] /\ UNCHANGED <<reserved, used>>
    BY <2>1 DEF Mutate, ReanchorDraft
  <2>4. db.drafts[t].state \notin {"submitting", "posted"}
    BY <2>1 DEF Mutate, ReanchorDraftOk, Editable
  <2> HIDE DEF row
  <2> QED BY <2>2, <2>3, <2>4, RowUpdate
<1>4. CASE Mutate(DeleteDraftSubtreeOk(db, t, db.drafts[t].parent, Subtree(db, t)),
                  DeleteDraftSubtree(db, Subtree(db, t)))
  BY <1>4, DeleteStep DEF Mutate
<1>5. CASE \E st \in {Posted(c) : c \in CommentId} \cup {Pending} :
               Mutate(ResolveUnknownOk(db, t), ResolveUnknown(db, t, st))
  <2>1. PICK st \in {Posted(c) : c \in CommentId} \cup {Pending} :
               Mutate(ResolveUnknownOk(db, t), ResolveUnknown(db, t, st))
    BY <1>5
  <2> DEFINE row == WithState(db.drafts[t], st)
  <2>2. /\ row \in Draft /\ row.parent = db.drafts[t].parent
        /\ row.state # "submitting"
        /\ row.state = "posted" => row.comment \in CommentId
    <3>1. st \in Outcome \cup {Pending, Submitting} /\ st.state # "submitting"
      BY DEF Outcome, Posted, Pending
    <3> QED BY <1>1, <3>1, WithStateRow, StateColumns
  <2>3. db' = [db EXCEPT !.drafts[t] = row] /\ UNCHANGED <<reserved, used>>
    BY <2>1 DEF Mutate, ResolveUnknown
  <2>4. db.drafts[t].state \notin {"submitting", "posted"}
    BY <2>1 DEF Mutate, ResolveUnknownOk
  <2> HIDE DEF row
  <2> QED BY <2>2, <2>3, <2>4, RowUpdate
<1> QED BY <1>2, <1>3, <1>4, <1>5
\* The first participant becomes `submitting` and the graph is frozen.
LEMMA BeginStep == IInv /\ Begin => IInv' /\ History
<1> SUFFICES ASSUME IInv, NEW n \in 1..MaxTempId, NEW order \in [1..n -> DOMAIN db.drafts],
                    NEW src \in Source, db.nextOp <= MaxRuns,
                    Mutate(BeginSubmissionOk(db, ItemsOf(order)),
                           BeginSubmission(db, src, ItemsOf(order)))
             PROVE  IInv' /\ History
  BY DEF Begin
<1> DEFINE items == ItemsOf(order)
           first == items[1].temp
           row == WithState(db.drafts[first], Submitting)
           run == [op |-> db.nextOp, items |-> items, current |-> first,
                   retry |-> CarriedRetry(db, first), source |-> src]
<1>1. /\ db'.drafts = [db.drafts EXCEPT ![first] = row]
      /\ db'.run = run /\ db'.nextOp = db.nextOp + 1
      /\ db'.carryovers = WithoutRows(db.carryovers, {first})
      /\ db'.counter = db.counter /\ db'.posted = db.posted
      /\ reserved' = reserved /\ used' = used
      /\ db' = [drafts |-> db'.drafts, counter |-> db'.counter, run |-> db'.run,
                nextOp |-> db'.nextOp, carryovers |-> db'.carryovers, posted |-> db'.posted]
  BY DEF Mutate, BeginSubmission, IInv, TypeOK
<1>2. /\ items \in Seq(Item) /\ DOMAIN items = 1..n
      /\ \A i \in 1..n : /\ items[i].temp \in DOMAIN db.drafts
                          /\ items[i].parent = db.drafts[items[i].temp].parent
  <2>1. \A i \in 1..n : /\ items[i] \in Item /\ items[i].temp \in DOMAIN db.drafts
                        /\ items[i].parent = db.drafts[items[i].temp].parent
    BY DEF ItemsOf, Item, IInv, TypeOK, Draft
  <2>2. n \in Nat /\ items = [i \in 1..n |-> items[i]] /\ DOMAIN items = 1..n
    BY BoundsAssumption DEF ItemsOf
  <2> HIDE DEF items
  <2> QED BY <2>1, <2>2
<1>3. first \in DOMAIN db.drafts /\ 1 \in 1..n /\ n >= 1
  BY <1>2, BoundsAssumption
<1>4. /\ row \in Draft /\ row.parent = db.drafts[first].parent /\ row.state = "submitting"
  BY <1>3, WithStateRow DEF Submitting, IInv, TypeOK
<1>5. ~Active(db)
  BY DEF Mutate, BeginSubmissionOk
<1>6. run \in Run
  <2>1. CarriedRetry(db, first) \in Retry \cup {NoRetry}
    BY BoundsAssumption DEF CarriedRetry, max_attempts, MaxBackoff, Retry, IInv, TypeOK
  <2>2. db.nextOp \in 1..MaxRuns /\ first \in TempId
    BY <1>3, BoundsAssumption DEF IInv, TypeOK
  <2> HIDE DEF items, first
  <2> QED BY <1>2, <2>1, <2>2 DEF Run
<1>7. run.items = items /\ run.current = first /\ run.op = db.nextOp
  OBVIOUS
<1> HIDE DEF run, row, first, items
<1>8. DOMAIN db'.drafts = DOMAIN db.drafts
  BY <1>1
<1>9. TypeOK'
  <2>1. db'.drafts \in [DOMAIN db'.drafts -> Draft]
    BY <1>1, <1>4, <1>8 DEF IInv, TypeOK
  <2>2. /\ DOMAIN db'.carryovers \subseteq TempId
        /\ db'.carryovers \in [DOMAIN db'.carryovers -> Delay]
    BY <1>1 DEF IInv, TypeOK, WithoutRows
  <2>3. db.nextOp + 1 \in 1..MaxRuns + 1
    BY BoundsAssumption DEF IInv, TypeOK
  <2> QED BY <1>1, <1>6, <1>8, <2>1, <2>2, <2>3 DEF IInv, TypeOK
<1>10. SubmittingIsCurrent'
  <2>1. Active(db')
    BY <1>1, <1>6, <1>7, BoundsAssumption DEF Active, IInv, TypeOK
  <2>2. \A t \in DOMAIN db.drafts : db.drafts[t].state # "submitting"
    BY <1>5 DEF IInv, SubmittingIsCurrent
  <2> QED BY <1>1, <1>3, <1>4, <1>7, <1>8, <2>1, <2>2 DEF SubmittingIsCurrent
<1>11. FrozenGraph'
  BY <1>1, <1>2, <1>4, <1>7, <1>8 DEF FrozenGraph, IInv, TypeOK
<1>12. ParentsExist' /\ PostedHasComment'
  BY <1>1, <1>4, <1>8 DEF IInv, TypeOK, ParentsExist, PostedHasComment
<1>13. TempIdBounds'
  BY <1>1, <1>8 DEF IInv, TempIdBounds, OneRepresentation
<1>14. History
  <2>1. db.drafts[first].state # "posted"
    BY DEF first, items, Mutate, BeginSubmissionOk, Editable
  <2> QED BY <1>1, <1>4, <1>8, <2>1, RowsKept
<1> QED BY <1>9, <1>10, <1>11, <1>12, <1>13, <1>14 DEF IInv

\* checkpointSubmissionRetry writes only the retry columns of the run.
LEMMA CheckpointRetryStep ==
    ASSUME IInv, NEW op, NEW t, CheckpointRetry(op, t)
    PROVE  IInv' /\ History
<1>1. PICK r \in RetryPoint : /\ CheckpointSubmissionRetryOk(db, op, t)
                             /\ db' = CheckpointSubmissionRetry(db, r)
                             /\ UNCHANGED <<reserved, used>>
  BY DEF CheckpointRetry, Mutate
<1>2. /\ db'.run = [db.run EXCEPT !.retry = r]
      /\ db'.drafts = db.drafts /\ db'.counter = db.counter /\ db'.nextOp = db.nextOp
      /\ db'.carryovers = db.carryovers /\ db'.posted = db.posted
      /\ db' = [drafts |-> db'.drafts, counter |-> db'.counter, run |-> db'.run,
                nextOp |-> db'.nextOp, carryovers |-> db'.carryovers, posted |-> db'.posted]
  BY <1>1 DEF CheckpointSubmissionRetry, IInv, TypeOK
<1>3. db.run \in Run
  BY <1>1 DEF CheckpointSubmissionRetryOk, Active, IInv, TypeOK, NoRun
<1>4. /\ db'.run \in Run /\ db'.run.items = db.run.items
      /\ db'.run.op = db.run.op /\ db'.run.current = db.run.current
  BY <1>2, <1>3, RetryPointAssumption DEF Run
<1>5. TypeOK'
  BY <1>1, <1>2, <1>4 DEF IInv, TypeOK
<1>6. SubmittingIsCurrent' /\ FrozenGraph' /\ ParentsExist' /\ PostedHasComment'
  BY <1>2, <1>4 DEF IInv, SubmittingIsCurrent, FrozenGraph, ParentsExist, PostedHasComment, Active
<1>7. TempIdBounds'
  BY <1>1, <1>2 DEF IInv, TempIdBounds, OneRepresentation
<1>8. History
  BY <1>2, RowsKept
<1> QED BY <1>5, <1>6, <1>7, <1>8 DEF IInv
\* The current item settles and the next one, if any, becomes `submitting`.
LEMMA CheckpointStep ==
    ASSUME IInv, NEW op, NEW t, Checkpoint(op, t)
    PROVE  IInv' /\ History
<1>1. PICK outcome \in Outcome, next \in DOMAIN db.drafts \cup {NoTemp} :
        /\ CheckpointSubmissionOk(db, op, t, next)
        /\ db' = CheckpointSubmission(db, t, outcome, next)
        /\ UNCHANGED <<reserved, used>>
  BY DEF Checkpoint, Mutate
<1> DEFINE new == [x \in DOMAIN db.drafts |->
                    IF x = t THEN WithState(db.drafts[x], outcome)
                    ELSE IF x = next THEN WithState(db.drafts[x], Submitting)
                    ELSE db.drafts[x]]
<1>2. /\ db'.drafts = new
      /\ db'.run = [db.run EXCEPT !.current = next, !.retry = NoRetry]
      /\ db'.carryovers = RetainedCarryovers(db, t, outcome)
      /\ db'.counter = db.counter /\ db'.nextOp = db.nextOp /\ db'.posted = db.posted
      /\ db' = [drafts |-> db'.drafts, counter |-> db'.counter, run |-> db'.run,
                nextOp |-> db'.nextOp, carryovers |-> db'.carryovers, posted |-> db'.posted]
  BY <1>1 DEF CheckpointSubmission, IInv, TypeOK
<1>3. /\ db.run \in Run /\ Active(db) /\ db.run.current = t /\ next # t
      /\ t \in DOMAIN db.drafts /\ t \in TempId /\ db.drafts[t].state = "submitting"
  BY <1>1 DEF CheckpointSubmissionOk, Active, IInv, TypeOK, NoRun
<1>4. next \in TempId \cup {NoTemp} /\ NoTemp \notin DOMAIN db.drafts
  BY <1>1, BoundsAssumption DEF IInv, TypeOK, NoTemp, TempId
<1>5. /\ DOMAIN new = DOMAIN db.drafts
      /\ \A x \in DOMAIN db.drafts :
            /\ new[x] \in Draft /\ new[x].parent = db.drafts[x].parent
            /\ x = t => new[x].state = outcome.state /\ new[x].comment = outcome.comment
            /\ x = next => new[x].state = "submitting"
            /\ x # t /\ x # next => new[x] = db.drafts[x]
  <2>1. \A x \in DOMAIN db.drafts : db.drafts[x] \in Draft
    BY DEF IInv, TypeOK
  <2>2. \A d \in Draft : /\ WithState(d, outcome) \in Draft
                         /\ WithState(d, outcome).parent = d.parent
                         /\ WithState(d, outcome).state = outcome.state
                         /\ WithState(d, outcome).comment = outcome.comment
                         /\ WithState(d, Submitting) \in Draft
                         /\ WithState(d, Submitting).parent = d.parent
                         /\ WithState(d, Submitting).state = "submitting"
    BY WithStateRow DEF Submitting
  <2> QED BY <1>3, <2>1, <2>2
<1>6. /\ db'.run \in Run /\ db'.run.items = db.run.items
      /\ db'.run.op = db.run.op /\ db'.run.current = next
  BY <1>2, <1>3, <1>4 DEF Run
<1> HIDE DEF new
<1>7. TypeOK'
  <2>1. db'.drafts \in [DOMAIN db'.drafts -> Draft] /\ DOMAIN db'.drafts = DOMAIN db.drafts
    <3>1. new = [x \in DOMAIN new |-> new[x]]
      BY DEF new
    <3> QED BY <1>2, <1>5, <3>1
  <2>2. /\ DOMAIN db'.carryovers \subseteq TempId
        /\ db'.carryovers \in [DOMAIN db'.carryovers -> Delay]
    <3>1. db.run.retry.server # NoDelay => db.run.retry.server \in Delay
      BY <1>3 DEF Run, Retry, NoRetry
    <3> QED BY <1>2, <1>3, <3>1 DEF RetainedCarryovers, WithRow, IInv, TypeOK
  <2> QED BY <1>1, <1>2, <1>6, <2>1, <2>2 DEF IInv, TypeOK
<1>8. SubmittingIsCurrent'
  <2>1. outcome.state # "submitting"
    BY DEF Outcome, Posted, Failed, Unknown
  <2>2. \A x \in DOMAIN db.drafts : x # t => db.drafts[x].state # "submitting"
    BY <1>3 DEF IInv, SubmittingIsCurrent
  <2>3. Active(db') /\ (next # NoTemp => next \in DOMAIN db.drafts)
    BY <1>3, <1>6 DEF Active
  <2> QED BY <1>2, <1>3, <1>4, <1>5, <1>6, <2>1, <2>2, <2>3 DEF SubmittingIsCurrent
<1>9. FrozenGraph' /\ ParentsExist'
  BY <1>2, <1>5, <1>6 DEF IInv, FrozenGraph, ParentsExist
<1>10. PostedHasComment'
  BY <1>2, <1>5, StateColumns DEF IInv, PostedHasComment
<1>11. TempIdBounds'
  BY <1>1, <1>2, <1>5 DEF IInv, TempIdBounds, OneRepresentation
<1>12. History
  <2>1. next \in DOMAIN db.drafts => db.drafts[next].state # "posted"
    BY <1>1, <1>4 DEF CheckpointSubmissionOk, Editable
  <2> QED BY <1>2, <1>3, <1>5, <2>1, RowsKept
<1> QED BY <1>7, <1>8, <1>9, <1>10, <1>11, <1>12 DEF IInv

\* Abort and abandonment: the run ends and its current Draft leaves `submitting`.
LEMMA EndCurrentStep ==
    ASSUME IInv, NEW st \in {Pending, Failed, Unknown}, Active(db),
           db.run.current \in DOMAIN db.drafts,
           db' = [db EXCEPT !.drafts[db.run.current] = WithState(@, st), !.run = NoRun],
           UNCHANGED <<reserved, used>>
    PROVE  IInv' /\ History
<1> DEFINE t == db.run.current
           row == WithState(db.drafts[t], st)
<1>1. /\ db'.drafts = [db.drafts EXCEPT ![t] = row]
      /\ db'.run = NoRun
      /\ db'.counter = db.counter /\ db'.nextOp = db.nextOp
      /\ db'.carryovers = db.carryovers /\ db'.posted = db.posted
      /\ db' = [drafts |-> db'.drafts, counter |-> db'.counter, run |-> db'.run,
                nextOp |-> db'.nextOp, carryovers |-> db'.carryovers, posted |-> db'.posted]
  BY DEF IInv, TypeOK
<1>2. /\ row \in Draft /\ row.parent = db.drafts[t].parent
      /\ row.state # "submitting" /\ row.state # "posted"
  <2>1. st \in Outcome \cup {Pending, Submitting} /\ st.state \notin {"submitting", "posted"}
    BY DEF Outcome, Pending, Failed, Unknown
  <2> QED BY <2>1, WithStateRow DEF IInv, TypeOK
<1>3. DOMAIN db'.drafts = DOMAIN db.drafts
  BY <1>1
<1> HIDE DEF row
<1>4. TypeOK'
  BY <1>1, <1>2, <1>3 DEF IInv, TypeOK
<1>5. SubmittingIsCurrent'
  BY <1>1, <1>2, <1>3 DEF IInv, SubmittingIsCurrent, Active, NoRun
<1>6. FrozenGraph'
  BY <1>1 DEF FrozenGraph, NoRun
<1>7. ParentsExist' /\ PostedHasComment'
  BY <1>1, <1>2, <1>3 DEF IInv, TypeOK, ParentsExist, PostedHasComment
<1>8. TempIdBounds'
  BY <1>1, <1>3 DEF IInv, TempIdBounds, OneRepresentation
<1>9. History
  <2>1. db.drafts[t].state # "posted"
    BY DEF IInv, SubmittingIsCurrent
  <2> QED BY <1>1, <1>2, <1>3, <2>1, RowsKept
<1> QED BY <1>4, <1>5, <1>6, <1>7, <1>8, <1>9 DEF IInv
\* Clean completion: record, remap, remove.
LEMMA CleanStep ==
    ASSUME IInv, NEW op, CompleteCleanOk(db, op), db' = CompleteClean(db),
           UNCHANGED <<reserved, used>>
    PROVE  IInv' /\ History
<1> DEFINE gone == ItemTemps(db.run.items) \cap DOMAIN db.drafts
           Remapped(d) == IF d.parent.kind = "draft" /\ d.parent.id \in gone
                          THEN [d EXCEPT !.parent = CommentParent(db.drafts[d.parent.id].comment)]
                          ELSE d
           rows == [t \in DOMAIN db.drafts \ gone |-> Remapped(db.drafts[t])]
           recorded == [t \in DOMAIN db.posted \cup gone |->
                          IF t \in gone THEN db.drafts[t].comment ELSE db.posted[t]]
<1>1. /\ db'.drafts = rows /\ db'.posted = recorded
      /\ db'.counter = TempIdFloor(db) /\ db'.run = NoRun
      /\ db'.nextOp = db.nextOp /\ db'.carryovers = db.carryovers
      /\ db' = [drafts |-> db'.drafts, counter |-> db'.counter, run |-> db'.run,
                nextOp |-> db'.nextOp, carryovers |-> db'.carryovers, posted |-> db'.posted]
  BY DEF CompleteClean, IInv, TypeOK
<1>2. \A t \in gone : t \in DOMAIN db.drafts /\ db.drafts[t].comment \in CommentId
  BY DEF CompleteCleanOk, IInv, PostedHasComment
<1> HIDE DEF gone
<1>3. \A d \in Draft :
        /\ Remapped(d) \in Draft /\ Remapped(d).state = d.state
        /\ Remapped(d).comment = d.comment
        /\ Remapped(d).parent.kind = "draft" => /\ Remapped(d).parent = d.parent
                                               /\ d.parent.id \notin gone
  <2> TAKE d \in Draft
  <2>1. CASE d.parent.kind = "draft" /\ d.parent.id \in gone
    <3> DEFINE c == db.drafts[d.parent.id].comment
    <3>1. CommentParent(c) \in Parent /\ CommentParent(c).kind = "comment"
      BY <1>2, <2>1 DEF Parent, CommentParent
    <3>2. Remapped(d) = [d EXCEPT !.parent = CommentParent(c)]
      BY <2>1
    <3> HIDE DEF Remapped, c
    <3> QED BY <3>1, <3>2 DEF Draft
  <2>2. CASE ~(d.parent.kind = "draft" /\ d.parent.id \in gone)
    BY <2>2
  <2> QED BY <2>1, <2>2
<1> HIDE DEF Remapped
<1>4. /\ DOMAIN rows = DOMAIN db.drafts \ gone
      /\ \A t \in DOMAIN rows : rows[t] = Remapped(db.drafts[t]) /\ db.drafts[t] \in Draft
  BY DEF IInv, TypeOK
<1>5. DOMAIN recorded = DOMAIN db.posted \cup gone
  OBVIOUS
<1>6. recorded \in [DOMAIN db.posted \cup gone -> CommentId] /\ rows \in [DOMAIN rows -> Draft]
  BY <1>2, <1>3, <1>4 DEF IInv, TypeOK
<1> HIDE DEF rows, recorded
<1>7. /\ TempIdFloor(db) \in 1..MaxTempId + 1
      /\ \A t \in used : t < TempIdFloor(db)
  BY FloorIsAbove
<1>8. TypeOK'
  <2>1. DOMAIN db'.drafts \subseteq TempId /\ DOMAIN db'.posted \subseteq TempId
    BY <1>1, <1>2, <1>4, <1>5 DEF IInv, TypeOK
  <2>2. TempIdFloor(db) \in 0..MaxTempId + 1
    BY <1>7
  <2> QED BY <1>1, <1>5, <1>6, <2>1, <2>2 DEF IInv, TypeOK
<1>9. SubmittingIsCurrent'
  <2>1. \A t \in DOMAIN db.drafts : db.drafts[t].state # "submitting"
    BY BoundsAssumption DEF CompleteCleanOk, CompletePartialOk, IInv, TypeOK,
                            SubmittingIsCurrent, NoTemp, TempId
  <2> QED BY <1>1, <1>3, <1>4, <2>1 DEF SubmittingIsCurrent, Active, NoRun
<1>10. FrozenGraph'
  BY <1>1 DEF FrozenGraph, NoRun
<1>11. ParentsExist'
  BY <1>1, <1>3, <1>4 DEF IInv, ParentsExist
<1>12. PostedHasComment'
  BY <1>1, <1>3, <1>4 DEF IInv, PostedHasComment
<1>13. TempIdBounds'
  <2>1. /\ DOMAIN db'.drafts = DOMAIN db.drafts \ gone
        /\ DOMAIN db'.posted = DOMAIN db.posted \cup gone
        /\ gone \subseteq DOMAIN db.drafts
    BY <1>1, <1>2, <1>4, <1>5
  <2> QED BY <1>1, <1>7, <2>1 DEF IInv, TempIdBounds, OneRepresentation
<1>14. PostedKept
  <2> SUFFICES ASSUME NEW t \in DOMAIN db.drafts, db.drafts[t].state = "posted"
               PROVE  \/ t \in DOMAIN db'.drafts /\ db'.drafts[t].state = "posted"
                         /\ db'.drafts[t].comment = db.drafts[t].comment
                      \/ t \in DOMAIN db'.posted /\ db'.posted[t] = db.drafts[t].comment
    BY DEF PostedKept
  <2>1. CASE t \in gone
    BY <1>1, <1>5, <2>1 DEF recorded
  <2>2. CASE t \notin gone
    BY <1>1, <1>3, <1>4, <2>2
  <2> QED BY <2>1, <2>2
<1>15. ThreadKept
  <2> SUFFICES ASSUME NEW t \in DOMAIN db.drafts \cap DOMAIN db'.drafts,
                      db'.drafts[t].parent # db.drafts[t].parent
               PROVE  LET p == db.drafts[t].parent
                      IN  p.kind = "draft" /\ p.id \in DOMAIN db'.posted
                          /\ db'.drafts[t].parent = CommentParent(db'.posted[p.id])
    BY DEF ThreadKept
  <2> DEFINE d == db.drafts[t]
             p == d.parent
  <2>1. db'.drafts[t] = Remapped(d) /\ d \in Draft
    BY <1>1, <1>4
  <2>2. p.kind = "draft" /\ p.id \in gone
    BY <2>1 DEF Remapped
  <2>3. Remapped(d).parent = CommentParent(db.drafts[p.id].comment)
    BY <2>1, <2>2 DEF Remapped, Draft
  <2>4. p.id \in DOMAIN db'.posted /\ db'.posted[p.id] = db.drafts[p.id].comment
    BY <1>1, <1>5, <2>2 DEF recorded
  <2> QED BY <2>1, <2>2, <2>3, <2>4
<1> QED BY <1>8, <1>9, <1>10, <1>11, <1>12, <1>13, <1>14, <1>15 DEF IInv, History

\* A partial completion removes the run row once no item is current.
LEMMA PartialStep ==
    ASSUME IInv, NEW op, CompletePartialOk(db, op), db' = CompletePartial(db),
           UNCHANGED <<reserved, used>>
    PROVE  IInv' /\ History
<1>1. /\ db'.drafts = db.drafts /\ db'.run = NoRun
      /\ db'.counter = db.counter /\ db'.nextOp = db.nextOp
      /\ db'.carryovers = db.carryovers /\ db'.posted = db.posted
      /\ db' = [drafts |-> db'.drafts, counter |-> db'.counter, run |-> db'.run,
                nextOp |-> db'.nextOp, carryovers |-> db'.carryovers, posted |-> db'.posted]
  BY DEF CompletePartial, IInv, TypeOK
<1>2. TypeOK'
  BY <1>1 DEF IInv, TypeOK
<1>3. \A t \in DOMAIN db.drafts : db.drafts[t].state # "submitting"
  BY BoundsAssumption DEF CompletePartialOk, IInv, TypeOK, SubmittingIsCurrent, NoTemp, TempId
<1>4. SubmittingIsCurrent' /\ FrozenGraph' /\ ParentsExist' /\ PostedHasComment'
  BY <1>1, <1>3 DEF IInv, SubmittingIsCurrent, FrozenGraph, ParentsExist, PostedHasComment,
                    Active, NoRun
<1>5. TempIdBounds'
  BY <1>1 DEF IInv, TempIdBounds, OneRepresentation
<1>6. History
  BY <1>1, RowsKept
<1> QED BY <1>2, <1>4, <1>5, <1>6 DEF IInv

\* Every transaction of a SubmissionRun keeps the invariant and history.
LEMMA RunStepStep == IInv /\ RunStep => IInv' /\ History
<1> SUFFICES ASSUME IInv, NEW op \in 1..MaxRuns,
                    \/ \E t \in DOMAIN db.drafts : CheckpointRetry(op, t) \/ Checkpoint(op, t)
                    \/ Complete(op)
                    \/ Abandon(op)
             PROVE  IInv' /\ History
  BY DEF RunStep
<1>1. CASE \E t \in DOMAIN db.drafts : CheckpointRetry(op, t) \/ Checkpoint(op, t)
  BY <1>1, CheckpointRetryStep, CheckpointStep
<1>2. CASE Complete(op)
  <2>1. CASE Mutate(CompleteCleanOk(db, op), CompleteClean(db))
    BY <2>1, CleanStep DEF Mutate
  <2>2. CASE Mutate(CompletePartialOk(db, op), CompletePartial(db))
    BY <2>2, PartialStep DEF Mutate
  <2>3. CASE \E st \in {Pending, Failed, Unknown} :
               Mutate(CompleteAbortedOk(db, op), CompleteAborted(db, st))
    BY <2>3, EndCurrentStep DEF Mutate, CompleteAbortedOk, CompleteAborted
  <2> QED BY <1>2, <2>1, <2>2, <2>3 DEF Complete
<1>3. CASE Abandon(op)
  BY <1>3, EndCurrentStep DEF Abandon, Mutate, AbandonSubmissionOk, AbandonSubmission
<1> QED BY <1>1, <1>2, <1>3

\* Every step of the store keeps the invariant and history.
LEMMA NextIInv == IInv /\ [Next]_vars => IInv' /\ History
<1> SUFFICES ASSUME IInv, [Next]_vars PROVE IInv' /\ History
  OBVIOUS
<1>1. CASE Next
  BY <1>1, ReserveStep, SaveStep, DraftStepStep, BeginStep, RunStepStep DEF Next
<1>2. CASE UNCHANGED vars
  <2>1. IInv'
    BY <1>2 DEF vars, IInv, TypeOK, SubmittingIsCurrent, FrozenGraph, ParentsExist,
                PostedHasComment, TempIdBounds, OneRepresentation, Active
  <2>2. History
    BY <1>2, RowsKept DEF vars
  <2> QED BY <2>1, <2>2
<1> QED BY <1>1, <1>2

-----------------------------------------------------------------------------
(* Theorems *)

\* The inductive invariant holds in every reachable state of the store.
THEOREM StoreInvariant == Spec => []IInv
  BY InitIInv, NextIInv, PTL DEF Spec

\* Every table keeps rows of its type, whatever the callers do.
THEOREM StoreTypeCorrect == Spec => []TypeOK
<1>1. IInv => TypeOK
  BY DEF IInv
<1> QED BY <1>1, StoreInvariant, PTL

\* A Draft is `submitting` exactly while it is the active run's current item.
THEOREM SubmittingOnlyCurrent == Spec => []SubmittingIsCurrent
<1>1. IInv => SubmittingIsCurrent
  BY DEF IInv
<1> QED BY <1>1, StoreInvariant, PTL

\* The participant graph of an active run stays as it was frozen.
THEOREM GraphStaysFrozen == Spec => []FrozenGraph
<1>1. IInv => FrozenGraph
  BY DEF IInv
<1> QED BY <1>1, StoreInvariant, PTL

\* No Reply ever points at a Draft that is gone.
THEOREM NoDanglingReply == Spec => []ParentsExist
<1>1. IInv => ParentsExist
  BY DEF IInv
<1> QED BY <1>1, StoreInvariant, PTL

\* A TempId is never handed out twice, and saving never replaces a row.
THEOREM TempIdNeverReused == Spec => []TempIdsFresh
<1>1. IInv => TempIdsFresh
  <2> SUFFICES ASSUME IInv PROVE TempIdsFresh
    OBVIOUS
  <2>1. NextTempId(db) \in Nat /\ \A t \in used : t \in Nat /\ t < NextTempId(db)
    BY FloorIsAbove, BoundsAssumption DEF IInv, TypeOK, TempId
  <2>2. NextTempId(db) \notin used
    BY <2>1
  <2> QED BY <2>2 DEF TempIdsFresh, IInv, TempIdBounds
<1> QED BY <1>1, StoreInvariant, PTL

\* A Draft recorded as published has no row left to publish again.
THEOREM PublishedHasNoRow == Spec => []OneRepresentation
<1>1. IInv => OneRepresentation
  BY DEF IInv, TempIdBounds
<1> QED BY <1>1, StoreInvariant, PTL
\* No step forgets a publication the store knew of.
THEOREM PublicationNeverForgotten == Spec => PostedStaysKnown
<1>1. IInv /\ [Next]_vars => [PostedKept]_vars
  BY NextIInv DEF History
<1> QED BY <1>1, StoreInvariant, PTL DEF Spec, PostedStaysKnown

\* No step moves a Reply out of its thread.
THEOREM ReplyNeverMoved == Spec => RepliesKeepThread
<1>1. IInv /\ [Next]_vars => [ThreadKept]_vars
  BY NextIInv DEF History
<1> QED BY <1>1, StoreInvariant, PTL DEF Spec, RepliesKeepThread

=============================================================================
