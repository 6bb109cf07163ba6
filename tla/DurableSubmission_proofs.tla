---------------------- MODULE DurableSubmission_proofs ----------------------
(***************************************************************************)
(* The durable driver: it and its run row never diverge, it has at most    *)
(* one command queued or under way, and a moved source blocks its POSTs.   *)
(* For any Drafts, answers, number of processes, kills and failures.       *)
(***************************************************************************)
EXTENDS DurableSubmission, Queues_proofs, TLAPS

-----------------------------------------------------------------------------
(* What the records hold *)

Kinds == {"post", "wait", "check_recovery", "find_duplicate"}

\* The columns of a Draft's row that a run reads and writes.
IsRow(row) ==
    /\ {"parent", "state", "comment"} \subseteq DOMAIN row
    /\ row.parent.kind \in {"none", "draft", "comment"}
Rows(review) == \A t \in DOMAIN review : IsRow(review[t])

Tables(s) ==
    /\ {"drafts", "counter", "run", "nextOp", "carryovers", "posted"} \subseteq DOMAIN s
    /\ {"op", "items", "current", "retry", "source"} \subseteq DOMAIN s.run
    /\ s.nextOp \in Nat /\ s.run.op \in Nat /\ s.run.op < s.nextOp
    /\ Rows(s.drafts) /\ \E S : s.run.items \in Seq(S)

IsProcess(x) ==
    {"up", "d", "queue", "issued", "notice", "gate", "loaded"} \subseteq DOMAIN x

IsDriver(d) ==
    /\ {"op", "current", "review", "m", "source", "recovered", "sourceChanged",
        "policyCheck", "phase", "admission", "persistence", "wait", "duplicate"}
          \subseteq DOMAIN d
    /\ d.op \in Nat /\ d.op # 0
    /\ "aborted" \in DOMAIN d.m

IsPersistence(p) ==
    /\ {"temp", "outcome", "next", "completion", "restore", "retry", "retryDone",
        "checkpointDone"} \subseteq DOMAIN p
    /\ p.completion \in {"none", "clean", "partial", "aborted"}

\* Nothing is parked, and the source has not been seen to move.
Clear(d) ==
    /\ IsDriver(d)
    /\ d.admission = NoAdmission /\ d.persistence = NoPersistence
    /\ ~d.policyCheck /\ ~d.sourceChanged

Checking == {"duplicate_queued", "awaiting_duplicate"}

\* What the phase of a driver says of its other fields.
Sound(d) ==
    /\ IsDriver(d)
    /\ d.admission = NoAdmission
          \/ (d.phase = "admission_paused" /\ d.admission.kind \in {"post", "wait"})
    /\ d.persistence = NoPersistence
          \/ (d.phase = "persistence_paused" /\ IsPersistence(d.persistence))
    /\ d.phase \in Checking => ~d.m.aborted
    /\ d.policyCheck => d.phase \in Checking /\ ~d.sourceChanged
    /\ d.sourceChanged => d.phase \in Checking \cup {"duplicate_check_paused",
                                                     "duplicate_persistence_paused"}

\* The driver d is at the item the run row names.
AtRow(d, s) == d.op = s.run.op /\ d.current = s.run.current

\* A handler that met process x and operation op leaves result r: the run has
\* ended with its driver, or the driver is sound, at its row, and has queued at
\* most one command.
Leaves(x, op, n, r) ==
    /\ IsProcess(r.x) /\ r.x.issued = x.issued
    /\ Tables(r.db) /\ r.db.nextOp = n
    /\ \/ r.x.d = NoDurable /\ r.x.queue = x.queue /\ r.db.run.op = 0
       \/ /\ Sound(r.x.d) /\ r.x.d.op = op /\ AtRow(r.x.d, r.db)
          /\ \/ r.x.queue = x.queue
             \/ \E c : /\ c.kind \in Kinds /\ c.op = op
                       /\ r.x.d.phase = QueuedPhase(c.kind)
                       /\ r.x.queue = Append(x.queue, c)

-----------------------------------------------------------------------------
(* Store calls *)

\* The store's vocabulary is the driver's.
LEMMA StoreWords ==
    /\ Store!NoRun = NoRun /\ Store!NoRetry = NoRetry
    /\ Store!Submitting = Submitting /\ Store!Unknown = Unknown
  BY DEF Store!NoRun, NoRun, Store!NoRetry, NoRetry, Store!NoTemp, NoTemp, Store!NoDelay,
     NoDelay, Store!NoSource, NoSource, Store!Submitting, Submitting, Store!Unknown, Unknown,
     Store!NoComment, NoComment

LEMMA WithStateIs ==
    ASSUME NEW row, IsRow(row), NEW st
    PROVE  /\ IsRow(WithState(row, st)) /\ WithState(row, st).parent = row.parent
           /\ WithState(row, st).state = st.state
  BY DEF WithState, IsRow

\* A row that is written keeps its columns.
LEMMA RowsKept ==
    ASSUME NEW review, Rows(review), NEW t, NEW st
    PROVE  Rows([review EXCEPT ![t] = WithState(@, st)])
<1> DEFINE after == [review EXCEPT ![t] = WithState(@, st)]
<1>1. ASSUME NEW u \in DOMAIN after
      PROVE  IsRow(after[u])
  <2>1. u \in DOMAIN review /\ after[u] = IF u = t THEN WithState(review[u], st) ELSE review[u]
    OBVIOUS
  <2>2. IsRow(review[u])
    BY <2>1 DEF Rows
  <2> HIDE DEF after
  <2> QED BY <2>1, <2>2, WithStateIs
<1> HIDE DEF after
<1>2. Rows(after)
  BY <1>1 DEF Rows
<1> QED BY <1>2 DEF after

\* So do two rows written at once, the first before the second.
LEMMA TwoRowsKept ==
    ASSUME NEW review, Rows(review), NEW t, NEW a, NEW u, NEW b
    PROVE  Rows([x \in DOMAIN review |-> IF x = t THEN WithState(review[x], a)
                                        ELSE IF x = u THEN WithState(review[x], b)
                                        ELSE review[x]])
<1> DEFINE after == [x \in DOMAIN review |-> IF x = t THEN WithState(review[x], a)
                                            ELSE IF x = u THEN WithState(review[x], b)
                                            ELSE review[x]]
<1>1. ASSUME NEW x \in DOMAIN after
      PROVE  IsRow(after[x])
  <2>1. x \in DOMAIN review /\ after[x] = IF x = t THEN WithState(review[x], a)
                                         ELSE IF x = u THEN WithState(review[x], b)
                                         ELSE review[x]
    OBVIOUS
  <2>2. IsRow(review[x])
    BY <2>1 DEF Rows
  <2> HIDE DEF after
  <2> QED BY <2>1, <2>2, WithStateIs
<1> HIDE DEF after
<1>2. Rows(after)
  BY <1>1 DEF Rows
<1> QED BY <1>2 DEF after

LEMMA RetryingIs ==
    ASSUME NEW s, Tables(s), NEW d, NEW t, NEW retry, NEW r \in Retrying(s, d, t, retry)
    PROVE  /\ Tables(r.db) /\ r.db.nextOp = s.nextOp
           /\ r.db.run.op = s.run.op /\ r.db.run.current = s.run.current
<1> DEFINE ok == Store!CheckpointSubmissionRetryOk(s, d.op, t)
<1> DEFINE after == Store!CheckpointSubmissionRetry(s, retry)
<1>1. r.db = after \/ r.db = s
  <2> HIDE DEF ok, after
  <2>1. r \in Attempt(ok, s, after)
    BY DEF Retrying, ok, after
  <2> QED BY <2>1 DEF Attempt
<1>2. Tables(after) /\ after.nextOp = s.nextOp
      /\ after.run.op = s.run.op /\ after.run.current = s.run.current
  BY DEF Tables, Store!CheckpointSubmissionRetry
<1> QED BY <1>1, <1>2

LEMMA CheckpointingIs ==
    ASSUME NEW s, Tables(s), NEW d, NEW t, NEW outcome, NEW next,
           NEW r \in Checkpointing(s, d, t, outcome, next)
    PROVE  /\ Tables(r.db) /\ r.db.nextOp = s.nextOp /\ r.db.run.op = s.run.op
           /\ \/ r.done /\ r.db.run.current = next
              \/ ~r.done /\ r.db.run.current = s.run.current
<1> DEFINE ok == Store!CheckpointSubmissionOk(s, d.op, t, next)
<1> DEFINE after == Store!CheckpointSubmission(s, t, outcome, next)
<1>1. (r.done /\ r.db = after) \/ (~r.done /\ r.db = s)
  <2> HIDE DEF ok, after
  <2>1. r \in Attempt(ok, s, after)
    BY DEF Checkpointing, ok, after
  <2> QED BY <2>1 DEF Attempt
<1>2. Tables(after) /\ after.nextOp = s.nextOp
      /\ after.run.op = s.run.op /\ after.run.current = next
  <2>1. PICK rows : rows = [x \in DOMAIN s.drafts |->
                              IF x = t THEN WithState(s.drafts[x], outcome)
                              ELSE IF x = next THEN WithState(s.drafts[x], Submitting)
                              ELSE s.drafts[x]]
    OBVIOUS
  <2>2. Rows(rows)
    <3>1. PICK review, b : review = s.drafts /\ b = Submitting
      OBVIOUS
    <3>2. Rows(review)
      BY <3>1 DEF Tables
    <3> QED BY <2>1, <3>1, <3>2, TwoRowsKept
  <2>3. PICK kept : kept = Store!RetainedCarryovers(s, t, outcome)
    OBVIOUS
  <2>4. after = [s EXCEPT !.drafts = rows, !.run = [@ EXCEPT !.current = next, !.retry = NoRetry],
                          !.carryovers = kept]
    BY <2>1, <2>3, StoreWords DEF Store!CheckpointSubmission, Store!WithState, WithState
  <2> HIDE DEF after
  <2> QED BY <2>2, <2>4 DEF Tables
<1> QED BY <1>1, <1>2

LEMMA CompleteCleanIs ==
    ASSUME NEW s, Tables(s)
    PROVE  LET after == Store!CompleteClean(s)
           IN  Tables(after) /\ after.nextOp = s.nextOp /\ after.run.op = 0
<1>1. PICK gone : gone = Store!ItemTemps(s.run.items) \cap DOMAIN s.drafts
  OBVIOUS
<1> DEFINE Remapped(row) == IF row.parent.kind = "draft" /\ row.parent.id \in gone
                            THEN [row EXCEPT !.parent = CommentParent(s.drafts[row.parent.id].comment)]
                            ELSE row
<1>2. PICK rows : rows = [t \in DOMAIN s.drafts \ gone |-> Remapped(s.drafts[t])]
  OBVIOUS
<1>3. Rows(rows)
  <2>1. ASSUME NEW t \in DOMAIN rows
        PROVE  IsRow(rows[t])
    <3>1. t \in DOMAIN s.drafts /\ rows[t] = Remapped(s.drafts[t])
      BY <1>2
    <3>2. PICK row : row = s.drafts[t]
      OBVIOUS
    <3>3. IsRow(row)
      BY <3>1, <3>2 DEF Tables, Rows
    <3>4. IsRow(Remapped(row))
      BY <3>3 DEF IsRow, CommentParent
    <3> QED BY <3>1, <3>2, <3>3, <3>4
  <2> QED BY <2>1 DEF Rows
<1>4. PICK posted : posted = [t \in DOMAIN s.posted \cup gone |->
                                IF t \in gone THEN s.drafts[t].comment ELSE s.posted[t]]
  OBVIOUS
<1>5. PICK counter : counter = Store!TempIdFloor(s)
  OBVIOUS
<1>6. PICK after : after = Store!CompleteClean(s)
  OBVIOUS
<1>7. after = [s EXCEPT !.counter = counter, !.posted = posted, !.drafts = rows, !.run = NoRun]
  BY <1>1, <1>2, <1>4, <1>5, <1>6, StoreWords DEF Store!CompleteClean,
     Store!CommentParent, CommentParent
<1> HIDE DEF Remapped
<1>8. Tables(after) /\ after.nextOp = s.nextOp /\ after.run.op = 0
  <2>1. PICK run : run = NoRun
    OBVIOUS
  <2>2. run.op = 0 /\ {"op", "items", "current", "retry", "source"} \subseteq DOMAIN run
        /\ run.items \in Seq({})
    BY <2>1 DEF NoRun
  <2>3. after = [s EXCEPT !.counter = counter, !.posted = posted, !.drafts = rows, !.run = run]
    BY <1>7, <2>1
  <2> QED BY <1>3, <2>2, <2>3 DEF Tables
<1> QED BY <1>6, <1>8

\* A run ends, and its current row may be written.
LEMMA EndedIs ==
    ASSUME NEW s, Tables(s), NEW run, run = NoRun
    PROVE  LET after == [s EXCEPT !.run = run]
           IN  Tables(after) /\ after.nextOp = s.nextOp /\ after.run.op = 0
<1>1. run.op = 0 /\ {"op", "items", "current", "retry", "source"} \subseteq DOMAIN run
      /\ run.items \in Seq({})
  BY DEF NoRun
<1> QED BY <1>1 DEF Tables

LEMMA RestoredIs ==
    ASSUME NEW s, Tables(s), NEW after, DOMAIN after = DOMAIN s, Rows(after.drafts),
           after.run = NoRun, after.nextOp = s.nextOp
    PROVE  Tables(after) /\ after.run.op = 0
<1>1. PICK run : run = NoRun
  OBVIOUS
<1>2. run.op = 0 /\ {"op", "items", "current", "retry", "source"} \subseteq DOMAIN run
      /\ run.items \in Seq({})
  BY <1>1 DEF NoRun
<1> QED BY <1>1, <1>2 DEF Tables

LEMMA CompletingIs ==
    ASSUME NEW s, Tables(s), NEW op, NEW completion \in {"clean", "partial", "aborted"},
           NEW restore, NEW r \in Completing(s, op, completion, restore)
    PROVE  /\ Tables(r.db) /\ r.db.nextOp = s.nextOp
           /\ \/ r.done /\ r.db.run.op = 0
              \/ ~r.done /\ r.db = s
<1>1. CASE completion = "clean"
  <2> DEFINE after == Store!CompleteClean(s)
  <2>1. Tables(after) /\ after.nextOp = s.nextOp /\ after.run.op = 0
    BY CompleteCleanIs
  <2> HIDE DEF after
  <2>2. r \in Attempt(Store!CompleteCleanOk(s, op), s, after)
    BY <1>1 DEF Completing, after
  <2> QED BY <2>1, <2>2 DEF Attempt
<1>2. CASE completion = "partial"
  <2> DEFINE after == Store!CompletePartial(s)
  <2>1. Tables(after) /\ after.nextOp = s.nextOp /\ after.run.op = 0
    <3>1. PICK run : run = NoRun
      OBVIOUS
    <3>2. after = [s EXCEPT !.run = run]
      BY <3>1, StoreWords DEF Store!CompletePartial
    <3> HIDE DEF after
    <3> QED BY <3>1, <3>2, EndedIs
  <2> HIDE DEF after
  <2>2. r \in Attempt(Store!CompletePartialOk(s, op), s, after)
    BY <1>2 DEF Completing, after
  <2> QED BY <2>1, <2>2 DEF Attempt
<1>3. CASE completion = "aborted"
  <2> DEFINE after == Store!CompleteAborted(s, restore)
  <2>1. Tables(after) /\ after.nextOp = s.nextOp /\ after.run.op = 0
    <3>1. PICK run, t, review : run = NoRun /\ t = s.run.current /\ review = s.drafts
      OBVIOUS
    <3>2. PICK rows : rows = [review EXCEPT ![t] = WithState(@, restore)]
      OBVIOUS
    <3>3. after = [s EXCEPT !.drafts = rows, !.run = run]
      <4>1. after = [s EXCEPT !.drafts[t] = WithState(@, restore), !.run = run]
        BY <3>1, StoreWords DEF Store!CompleteAborted, Store!WithState, WithState
      <4> HIDE DEF after
      <4> QED BY <3>1, <3>2, <4>1 DEF Tables
    <3>4. Rows(rows)
      BY <3>1, <3>2, RowsKept DEF Tables
    <3> HIDE DEF after
    <3>5. /\ DOMAIN after = DOMAIN s /\ after.drafts = rows /\ after.run = NoRun
          /\ after.nextOp = s.nextOp
      BY <3>1, <3>3 DEF Tables
    <3> QED BY <3>4, <3>5, RestoredIs
  <2> HIDE DEF after
  <2>2. r \in Attempt(Store!CompleteAbortedOk(s, op), s, after)
    BY <1>3 DEF Completing, after
  <2> QED BY <2>1, <2>2 DEF Attempt
<1> QED BY <1>1, <1>2, <1>3

-----------------------------------------------------------------------------
(* The machine of the driver *)

IsMachine(m) ==
    /\ {"order", "idx", "attempts", "checks", "ambiguous", "results", "mustWait", "retry",
        "terminalDelay", "aborted"} \subseteq DOMAIN m
    /\ \E S : m.order \in Seq(S)
    /\ m.idx \in Nat /\ m.idx # 0
    /\ DOMAIN m.results = 1..Len(m.order)

\* The machine is at an item, and advance() would not pass it.
Here(review, m) == ~Ended(m) /\ ~Skippable(review, m)

\* The control of machine n is that of m.
SameControl(m, n) == n.order = m.order /\ n.mustWait = m.mustWait /\ n.aborted = m.aborted

LEMMA SkipIs ==
    ASSUME NEW review, NEW m, IsMachine(m), Skippable(review, m)
    PROVE  /\ IsMachine(SkipItem(review, m)) /\ SameControl(m, SkipItem(review, m))
           /\ SkipItem(review, m).idx = m.idx + 1
<1>1. PICK result : SkipItem(review, m) = [m EXCEPT !.idx = @ + 1, !.results[m.idx] = result]
  BY DEF SkipItem
<1>2. PICK n : n = [m EXCEPT !.idx = @ + 1, !.results[m.idx] = result]
  OBVIOUS
<1>3. /\ DOMAIN n = DOMAIN m /\ n.idx = m.idx + 1 /\ n.order = m.order
      /\ n.mustWait = m.mustWait /\ n.aborted = m.aborted
      /\ n.results = [m.results EXCEPT ![m.idx] = result]
  BY <1>2 DEF IsMachine
<1>4. DOMAIN n.results = 1..Len(n.order)
  BY <1>3 DEF IsMachine
<1>5. IsMachine(n)
  BY <1>3, <1>4 DEF IsMachine
<1> QED BY <1>1, <1>2, <1>3, <1>5 DEF SameControl

\* The loop of advance(), one turn at a time.
LEMMA PassedUnfolds ==
    ASSUME NEW review, NEW m, IsMachine(m)
    PROVE  \E passed :
              /\ Passed(review, m) = passed[Len(m.order)]
              /\ passed[0] = m
              /\ \A n \in 1..Len(m.order) : passed[n] = Turn(review, passed[n - 1])
<1> DEFINE N == Len(m.order)
<1> DEFINE Scan(f, k) == [n \in 0..k |-> IF n = 0 THEN m ELSE Turn(review, f[n - 1])]
<1> DEFINE G == {k \in Nat : \E f : f = Scan(f, k)}
<1>1. N \in Nat
  BY DEF IsMachine
<1>2. 0 \in G
  <2> DEFINE f == [n \in 0..0 |-> m]
  <2>1. f = Scan(f, 0)
    OBVIOUS
  <2> QED BY <2>1
<1>3. ASSUME NEW k \in Nat, k \in G PROVE k + 1 \in G
  <2>1. PICK f : f = Scan(f, k)
    BY <1>3
  <2> DEFINE g == [n \in 0..(k + 1) |-> IF n = k + 1 THEN Turn(review, f[k]) ELSE f[n]]
  <2>2. ASSUME NEW n \in 0..(k + 1)
        PROVE  g[n] = IF n = 0 THEN m ELSE Turn(review, g[n - 1])
    <3>1. CASE n = 0
      <4>1. f[0] = m
        BY <2>1
      <4> QED BY <3>1, <4>1
    <3>2. CASE n = k + 1
      <4>1. n - 1 = k /\ g[n - 1] = f[k]
        BY <3>2
      <4>2. g[n] = Turn(review, f[k])
        BY <3>2
      <4> HIDE DEF g
      <4> QED BY <3>2, <4>1, <4>2
    <3>3. CASE n # 0 /\ n # k + 1
      <4>1. n \in 0..k /\ n - 1 \in 0..k /\ n - 1 \in 0..(k + 1) /\ n - 1 # k + 1
        BY <3>3
      <4>2. g[n] = f[n] /\ g[n - 1] = f[n - 1]
        BY <3>3, <4>1
      <4>3. f[n] = Turn(review, f[n - 1])
        BY <2>1, <3>3, <4>1
      <4> HIDE DEF g
      <4> QED BY <3>3, <4>2, <4>3
    <3> QED BY <3>1, <3>2, <3>3
  <2>3. g = Scan(g, k + 1)
    <3>1. PICK h : h = g
      OBVIOUS
    <3>2. h = [n \in 0..(k + 1) |-> h[n]]
      BY <3>1
    <3>3. \A n \in 0..(k + 1) : h[n] = IF n = 0 THEN m ELSE Turn(review, h[n - 1])
      BY <2>2, <3>1
    <3>4. h = Scan(h, k + 1)
      BY <3>2, <3>3
    <3> QED BY <3>1, <3>4
  <2>4. \E h : h = Scan(h, k + 1)
    <3> HIDE DEF g, Scan
    <3> QED BY <2>3
  <2> QED BY <2>4
<1>4. N \in G
  <2> HIDE DEF G
  <2> QED BY <1>1, <1>2, <1>3, SetInduction
<1>5. PICK f : f = Scan(f, N)
  BY <1>4
<1> DEFINE passed == CHOOSE g : g = Scan(g, N)
<1>6. passed = Scan(passed, N)
  <2> HIDE DEF Scan
  <2> QED BY <1>5
<1>7. Passed(review, m) = passed[N]
  BY DEF Passed
<1>8. passed[0] = m /\ \A n \in 1..N : passed[n] = Turn(review, passed[n - 1])
  <2> HIDE DEF passed
  <2>1. 0 \in 0..N /\ \A n \in 1..N : n \in 0..N /\ n # 0
    BY <1>1
  <2> QED BY <1>6, <2>1
<1> HIDE DEF passed
<1> QED BY <1>7, <1>8

\* The loop stops at an item that may not be passed, or behind the last one, and at
\* once if it is there already.
LEMMA PassedIs ==
    ASSUME NEW review, NEW m, IsMachine(m)
    PROVE  LET n == Passed(review, m)
           IN  /\ IsMachine(n) /\ SameControl(m, n) /\ ~Skippable(review, n)
               /\ ~Skippable(review, m) => n = m
<1>1. PICK passed :
              /\ Passed(review, m) = passed[Len(m.order)]
              /\ passed[0] = m
              /\ \A n \in 1..Len(m.order) : passed[n] = Turn(review, passed[n - 1])
  BY PassedUnfolds
<1> DEFINE N == Len(m.order)
<1> DEFINE Inv(k) == /\ IsMachine(passed[k]) /\ SameControl(m, passed[k])
                     /\ ~Skippable(review, passed[k]) \/ passed[k].idx = m.idx + k
                     /\ ~Skippable(review, m) => passed[k] = m
<1> DEFINE G == {k \in Nat : k <= N => Inv(k)}
<1>2. N \in Nat
  BY DEF IsMachine
<1>3. 0 \in G
  <2>1. Inv(0)
    BY <1>1 DEF SameControl, IsMachine
  <2> QED BY <2>1
<1>4. ASSUME NEW k \in Nat, k \in G PROVE k + 1 \in G
  <2> SUFFICES ASSUME k + 1 <= N PROVE Inv(k + 1)
    OBVIOUS
  <2>1. Inv(k) /\ k + 1 \in 1..N
    BY <1>2, <1>4
  <2>2. PICK a, b : a = passed[k] /\ b = passed[k + 1]
    OBVIOUS
  <2>3. b = Turn(review, a)
    <3>1. (k + 1) - 1 = k
      OBVIOUS
    <3> QED BY <1>1, <2>1, <2>2, <3>1
  <2>4. CASE Skippable(review, a)
    <3>1. b = SkipItem(review, a)
      BY <2>3, <2>4 DEF Turn
    <3>2. IsMachine(b) /\ SameControl(a, b) /\ b.idx = a.idx + 1
      BY <2>1, <2>2, <2>4, <3>1, SkipIs
    <3>3. a.idx = m.idx + k /\ m.idx \in Nat /\ Skippable(review, m)
      BY <2>1, <2>2, <2>4 DEF IsMachine
    <3>4. SameControl(m, b)
      BY <2>1, <2>2, <3>2 DEF SameControl
    <3>5. b.idx = m.idx + (k + 1)
      BY <3>2, <3>3
    <3> QED BY <2>2, <3>2, <3>3, <3>4, <3>5
  <2>5. CASE ~Skippable(review, a)
    <3>1. b = a
      BY <2>3, <2>5 DEF Turn
    <3> QED BY <2>1, <2>2, <2>5, <3>1
  <2> QED BY <2>4, <2>5
<1>5. N \in G
  <2> HIDE DEF G
  <2> QED BY <1>2, <1>3, <1>4, SetInduction
<1>6. PICK n : n = passed[N]
  OBVIOUS
<1>7. /\ IsMachine(n) /\ SameControl(m, n)
      /\ ~Skippable(review, n) \/ n.idx = m.idx + N
      /\ ~Skippable(review, m) => n = m
  BY <1>2, <1>5, <1>6
<1>8. ~Skippable(review, n)
  <2>1. CASE n.idx = m.idx + N
    <3>1. n.idx > Len(n.order)
      BY <1>2, <1>7, <2>1 DEF SameControl, IsMachine
    <3> QED BY <3>1 DEF Skippable, Ended
  <2> QED BY <1>7, <2>1
<1> QED BY <1>1, <1>6, <1>7, <1>8

\* advance() leaves the machine at an item it would not pass, and does not move one
\* that is there.
LEMMA advanceIs ==
    ASSUME NEW review, NEW m, IsMachine(m)
    PROVE  LET n == advance(review, m)
           IN  /\ IsMachine(n) /\ SameControl(m, n) /\ ~Skippable(review, n)
               /\ ~Skippable(review, m) => n.idx = m.idx /\ n.results = m.results
               /\ n.ambiguous = m.ambiguous /\ n.retry = m.retry
               /\ n.terminalDelay = m.terminalDelay
<1>1. PICK k : k = Passed(review, m)
  OBVIOUS
<1>2. PICK n : n = advance(review, m)
  OBVIOUS
<1>3. /\ IsMachine(k) /\ SameControl(m, k) /\ ~Skippable(review, k)
      /\ ~Skippable(review, m) => k = m
  BY <1>1, PassedIs
<1>4. n = [m EXCEPT !.idx = k.idx, !.results = k.results]
  BY <1>1, <1>2 DEF advance
<1>5. /\ DOMAIN n = DOMAIN m /\ n.idx = k.idx /\ n.results = k.results /\ n.order = m.order
      /\ n.mustWait = m.mustWait /\ n.aborted = m.aborted /\ n.ambiguous = m.ambiguous
      /\ n.retry = m.retry /\ n.terminalDelay = m.terminalDelay
  BY <1>4 DEF IsMachine
<1>6. n.order = k.order /\ n.aborted = k.aborted
  BY <1>3, <1>5 DEF SameControl
<1>7. IsMachine(n)
  BY <1>3, <1>5, <1>6 DEF IsMachine
<1>8. Skippable(review, n) = Skippable(review, k)
  BY <1>5, <1>6 DEF Skippable, Ended, Current, Blocked, ParentIds
<1> QED BY <1>2, <1>3, <1>5, <1>7, <1>8 DEF SameControl

\* The order of a new machine is a list of Drafts of the review.
LEMMA OrderIsList ==
    ASSUME NEW review
    PROVE  topologicalOrder(review) \in Seq(DOMAIN review)
<1> DEFINE N == MaxTempId
<1> DEFINE passes == N * N
<1> DEFINE last == passes + N
<1> DEFINE D == DOMAIN review
<1> DEFINE Emits(v, t, q) ==
        /\ t \in D /\ t \notin Members(q)
        /\ v > passes \/ (ParentDraft(review, t) \notin D \/ ParentDraft(review, t) \in Members(q))
<1> DEFINE Visit(v, q) == LET t == 1 + ((v - 1) % N)
                          IN  IF Emits(v, t, q) THEN Append(q, t) ELSE q
<1> DEFINE step == [x \in (1..last) \X Seq(D) |-> Visit(x[1], x[2])]
<1> DEFINE Scan(f) == [v \in 0..last |-> IF v = 0 THEN <<>> ELSE Visit(v, f[v - 1])]
<1> DEFINE emitted == CHOOSE f : f = Scan(f)
<1>1. last \in Nat
  BY BoundsAssumption
<1> HIDE DEF N, passes, D
<1>2. \A v \in 1..last, q \in Seq(D) : Visit(v, q) \in Seq(D)
  OBVIOUS
<1>3. step \in [(1..last) \X Seq(D) -> Seq(D)]
  <2> HIDE DEF Visit, last
  <2> QED BY <1>2
<1>4. PICK f \in [0..last -> Seq(D)] :
          f[0] = <<>> /\ \A n \in 1..last : f[n] = step[<<n, f[n - 1]>>]
  <2>1. <<>> \in Seq(D) /\ IsStep(step, last, Seq(D))
    BY <1>3 DEF IsStep
  <2> HIDE DEF step, last
  <2>2. \E f : DefinedBy(f, last, Seq(D), <<>>, step)
    BY <1>1, <2>1, RecursiveFunctionExists
  <2> QED BY <2>2 DEF DefinedBy
<1>5. f = Scan(f)
  <2> HIDE DEF Visit, last
  <2>1. ASSUME NEW n \in 1..last PROVE f[n] = Visit(n, f[n - 1])
    <3>1. n - 1 \in 0..last
      BY <1>1
    <3> QED BY <1>4, <3>1
  <2>2. \A n \in 0..last : n = 0 \/ n \in 1..last
    BY <1>1
  <2> QED BY <1>4, <2>1, <2>2
<1>6. emitted = Scan(emitted)
  <2> HIDE DEF Scan
  <2> QED BY <1>5
<1>7. topologicalOrder(review) = emitted[last]
  BY DEF topologicalOrder, N, passes, D
<1>8. emitted[0] = <<>> /\ \A n \in 1..last : emitted[n] = Visit(n, emitted[n - 1])
  <2> HIDE DEF emitted, Visit, last
  <2>1. 0 \in 0..last /\ \A n \in 1..last : n \in 0..last /\ n # 0
    BY <1>1
  <2> QED BY <1>6, <2>1
<1> HIDE DEF emitted, step, Scan
<1> DEFINE G == {v \in Nat : v <= last => emitted[v] \in Seq(D)}
<1>9. 0 \in G
  <2>1. emitted[0] \in Seq(D)
    BY <1>8
  <2> HIDE DEF last
  <2> QED BY <2>1
<1>10. ASSUME NEW v \in Nat, v \in G PROVE v + 1 \in G
  <2> SUFFICES ASSUME v + 1 <= last PROVE emitted[v + 1] \in Seq(D)
    OBVIOUS
  <2>1. v + 1 \in 1..last /\ (v + 1) - 1 = v /\ emitted[v] \in Seq(D)
    BY <1>1, <1>10
  <2>2. emitted[v + 1] = Visit(v + 1, emitted[v])
    BY <1>8, <2>1
  <2> HIDE DEF Visit, last
  <2> QED BY <1>2, <2>1, <2>2
<1>11. last \in G
  <2> HIDE DEF G
  <2> QED BY <1>1, <1>9, <1>10, SetInduction
<1>12. emitted[last] \in Seq(D)
  BY <1>1, <1>11
<1> QED BY <1>7, <1>12 DEF D

LEMMA initOrderIs ==
    ASSUME NEW review, NEW S, NEW order \in Seq(S), NEW settle
    PROVE  LET m == initOrder(review, order, settle)
           IN  IsMachine(m) /\ m.order = order /\ m.idx = 1 /\ ~m.mustWait /\ ~m.aborted
<1>1. PICK results : results = [i \in DOMAIN order |-> Prefilled(review, order[i], settle)]
  OBVIOUS
<1>2. PICK m : m = initOrder(review, order, settle)
  OBVIOUS
<1>3. m = [order |-> order, idx |-> 1, attempts |-> [i \in DOMAIN order |-> 0],
           checks |-> [i \in DOMAIN order |-> 0], ambiguous |-> [i \in DOMAIN order |-> FALSE],
           results |-> results, mustWait |-> FALSE, retry |-> NoRetry, terminalDelay |-> NoDelay,
           aborted |-> FALSE]
  BY <1>1, <1>2 DEF initOrder
<1>4. DOMAIN results = 1..Len(order)
  BY <1>1
<1>5. IsMachine(m)
  BY <1>3, <1>4 DEF IsMachine
<1> QED BY <1>2, <1>3, <1>5

\* The machine of a whole review, and of a subtree.
LEMMA initIs ==
    ASSUME NEW review, NEW root
    PROVE  /\ IsMachine(init(review)) /\ ~init(review).mustWait /\ ~init(review).aborted
           /\ IsMachine(initSubtree(review, root))
           /\ ~initSubtree(review, root).mustWait /\ ~initSubtree(review, root).aborted
<1>1. PICK order : order = topologicalOrder(review)
  OBVIOUS
<1>2. PICK D : D = DOMAIN review
  OBVIOUS
<1>3. order \in Seq(D)
  BY <1>1, <1>2, OrderIsList
<1>4. PICK W : W = {t \in InSubtree(review, root) : review[t].state # "posted"}
  OBVIOUS
<1>5. PICK kept : kept = Kept(order, W)
  OBVIOUS
<1>6. kept \in Seq(D)
  BY <1>3, <1>5, KeptIs
<1>7. PICK settle : settle = FALSE
  OBVIOUS
<1>8. PICK a, b : a = initOrder(review, order, settle) /\ b = initOrder(review, kept, settle)
  OBVIOUS
<1>9. /\ IsMachine(a) /\ ~a.mustWait /\ ~a.aborted
      /\ IsMachine(b) /\ ~b.mustWait /\ ~b.aborted
  BY <1>3, <1>6, <1>8, initOrderIs
<1>10. a = init(review)
  BY <1>1, <1>7, <1>8 DEF init
<1>11. b = initSubtree(review, root)
  BY <1>1, <1>4, <1>5, <1>7, <1>8 DEF initSubtree
<1> QED BY <1>9, <1>10, <1>11

LEMMA initFrozenIs ==
    ASSUME NEW review, NEW S, NEW items \in Seq(S)
    PROVE  /\ IsMachine(initFrozen(review, items))
           /\ ~initFrozen(review, items).mustWait /\ ~initFrozen(review, items).aborted
<1>1. PICK order : order = [i \in DOMAIN items |-> items[i].temp]
  OBVIOUS
<1>2. PICK T : T = {x.temp : x \in S}
  OBVIOUS
<1>3. order \in Seq(T)
  BY <1>1, <1>2
<1>4. PICK settle : settle = TRUE
  OBVIOUS
<1>5. PICK m : m = initOrder(review, order, settle)
  OBVIOUS
<1>6. IsMachine(m) /\ ~m.mustWait /\ ~m.aborted
  BY <1>3, <1>5, initOrderIs
<1>7. m = initFrozen(review, items)
  BY <1>1, <1>4, <1>5 DEF initFrozen
<1> QED BY <1>6, <1>7

-----------------------------------------------------------------------------
(* Handlers *)

LEMMA EnqueueIs ==
    ASSUME NEW x, IsProcess(x), NEW d, NEW cmd
    PROVE  /\ IsProcess(Enqueue(x, d, cmd)) /\ Enqueue(x, d, cmd).d = d
           /\ Enqueue(x, d, cmd).queue = Append(x.queue, cmd)
           /\ Enqueue(x, d, cmd).issued = x.issued
  BY DEF Enqueue, IsProcess

\* advance() moves the machine only, and aborts nothing.
LEMMA AdvancedIs ==
    ASSUME NEW d, IsDriver(d)
    PROVE  /\ IsDriver(Advanced(d)) /\ Advanced(d).m.aborted = d.m.aborted
           /\ Advanced(d).op = d.op /\ Advanced(d).current = d.current
           /\ Advanced(d).phase = d.phase /\ Advanced(d).admission = d.admission
           /\ Advanced(d).persistence = d.persistence
           /\ Advanced(d).policyCheck = d.policyCheck
           /\ Advanced(d).sourceChanged = d.sourceChanged
           /\ Advanced(d).recovered = d.recovered
  BY DEF Advanced, advance, IsDriver

LEMMA NextStepIs ==
    ASSUME NEW d, IsDriver(d)
    PROVE  /\ NextStep(d).kind \in {"aborted", "done", "wait", "check", "post"}
           /\ NextStep(d).kind # "aborted" => ~d.m.aborted
           /\ NextStep(d).kind = "aborted" => d.m.aborted
<1> DEFINE m == Advanced(d).m
<1>1. m.aborted = d.m.aborted
  BY AdvancedIs
<1> HIDE DEF m
<1>2. /\ StepOf(d.review, m).kind \in {"aborted", "done", "wait", "check", "post"}
      /\ StepOf(d.review, m).kind # "aborted" => ~m.aborted
      /\ StepOf(d.review, m).kind = "aborted" => m.aborted
  BY DEF StepOf, Step
<1> QED BY <1>1, <1>2 DEF NextStep, m

\* A driver that is not destroyed, with nothing queued or one command.
LEMMA Stays ==
    ASSUME NEW x, IsProcess(x), NEW y, IsProcess(y), y.issued = x.issued,
           y.queue = x.queue, NEW s, Tables(s), Sound(y.d), AtRow(y.d, s), NEW f
    PROVE  Leaves(x, y.d.op, s.nextOp, Result(y, s, f))
  BY DEF Leaves, Result

LEMMA Sends ==
    ASSUME NEW x, IsProcess(x), NEW y, IsProcess(y), y.issued = x.issued, y.queue = x.queue,
           NEW s, Tables(s), NEW d, Sound(d), AtRow(d, s), NEW c, c.kind \in Kinds,
           c.op = d.op, d.phase = QueuedPhase(c.kind), NEW f
    PROVE  Leaves(x, d.op, s.nextOp, Result(Enqueue(y, d, c), s, f))
  BY EnqueueIs DEF Leaves, Result

LEMMA Ends ==
    ASSUME NEW x, IsProcess(x), NEW y, IsProcess(y), y.issued = x.issued, y.queue = x.queue,
           y.d = NoDurable, NEW s, Tables(s), s.run.op = 0, NEW f, NEW op
    PROVE  Leaves(x, op, s.nextOp, Result(y, s, f))
  BY DEF Leaves, Result

LEMMA CommandIs ==
    ASSUME NEW kind, NEW op, NEW t, NEW parent, NEW draft, NEW retry
    PROVE  /\ Command(kind, op, t, parent, draft, retry).kind = kind
           /\ Command(kind, op, t, parent, draft, retry).op = op
  BY DEF Command

\* A clear driver with another phase (and, for a wait, another wait).
LEMMA Rephased ==
    ASSUME NEW d, Clear(d), NEW phase, phase \notin Checking
    PROVE  /\ Sound([d EXCEPT !.phase = phase]) /\ [d EXCEPT !.phase = phase].phase = phase
           /\ [d EXCEPT !.phase = phase].op = d.op
           /\ [d EXCEPT !.phase = phase].current = d.current
  BY DEF Sound, Clear, IsDriver

LEMMA ScheduleWaitIs ==
    ASSUME NEW x, IsProcess(x), NEW d, Clear(d), NEW s, Tables(s), AtRow(d, s),
           NEW r \in ScheduleWait(x, d, s)
    PROVE  Leaves(x, d.op, s.nextOp, r)
<1>1. PICK a \in Retrying(s, d, Current(d.m), d.m.retry) :
          r = IF a.done
              THEN Result(Enqueue(x, [d EXCEPT !.phase = "wait_queued"], WaitCommand(d)), a.db, a.f)
              ELSE Result([x EXCEPT !.d = [d EXCEPT !.wait = d.m.retry, !.phase = "wait_retry_paused"]],
                          a.db, a.f)
  BY DEF ScheduleWait
<1>2. Tables(a.db) /\ a.db.nextOp = s.nextOp /\ AtRow(d, a.db)
  BY RetryingIs DEF AtRow
<1>3. CASE a.done
  <2> DEFINE e == [d EXCEPT !.phase = "wait_queued"]
  <2>1. Sound(e) /\ e.op = d.op /\ AtRow(e, a.db) /\ e.phase = "wait_queued"
    BY <1>2, Rephased DEF AtRow, Checking
  <2>2. /\ WaitCommand(d).kind = "wait" /\ WaitCommand(d).op = e.op
        /\ WaitCommand(d).kind \in Kinds /\ e.phase = QueuedPhase(WaitCommand(d).kind)
    BY <2>1 DEF WaitCommand, Command, Kinds, QueuedPhase
  <2> HIDE DEF e
  <2>3. Leaves(x, e.op, a.db.nextOp, Result(Enqueue(x, e, WaitCommand(d)), a.db, a.f))
    BY <1>2, <2>1, <2>2, Sends
  <2>4. r = Result(Enqueue(x, e, WaitCommand(d)), a.db, a.f)
    BY <1>1, <1>3 DEF e
  <2> QED BY <1>2, <2>1, <2>3, <2>4
<1>4. CASE ~a.done
  <2> DEFINE e == [d EXCEPT !.wait = d.m.retry, !.phase = "wait_retry_paused"]
  <2> DEFINE y == [x EXCEPT !.d = e]
  <2>1. Sound(e) /\ e.op = d.op /\ AtRow(e, a.db)
    BY <1>2 DEF Clear, Sound, IsDriver, AtRow, Checking
  <2>2. IsProcess(y) /\ y.issued = x.issued /\ y.queue = x.queue /\ y.d = e
    BY DEF IsProcess
  <2>3. r = Result(y, a.db, a.f)
    BY <1>1, <1>4
  <2> HIDE DEF y, e
  <2> QED BY <1>2, <2>1, <2>2, <2>3, Stays
<1> QED BY <1>3, <1>4

LEMMA queueDuplicateCheckIs ==
    ASSUME NEW x, IsProcess(x), IsDriver(x.d), x.d.admission = NoAdmission,
           x.d.persistence = NoPersistence, ~x.d.policyCheck,
           NEW s, Tables(s), AtRow(x.d, s), NEW f
    PROVE  Leaves(x, x.d.op, s.nextOp, Result(queueDuplicateCheck(x), s, f))
<1> DEFINE d == Advanced(x.d)
<1> DEFINE step == NextStep(x.d)
<1> DEFINE e == [d EXCEPT !.policyCheck = step.kind = "check" /\ ~d.sourceChanged,
                          !.phase = "duplicate_queued"]
<1> DEFINE c == Command("find_duplicate", d.op, step.temp, step.parent,
                        d.review[step.temp], NoRetry)
<1> DEFINE y == [x EXCEPT !.d = [d EXCEPT !.phase = "duplicate_check_paused"]]
<1>1. /\ IsDriver(d) /\ d.m.aborted = x.d.m.aborted /\ d.op = x.d.op
      /\ d.current = x.d.current /\ d.admission = NoAdmission
      /\ d.persistence = NoPersistence /\ ~d.policyCheck
  BY AdvancedIs
<1>2. step.kind \in {"post", "check"} => ~d.m.aborted
  BY <1>1, NextStepIs
<1>3. queueDuplicateCheck(x) =
          IF step.kind \in {"post", "check"} /\ step.temp = d.current
          THEN Enqueue(x, e, c) ELSE y
  BY DEF queueDuplicateCheck
<1> HIDE DEF d, step
<1>4. CASE step.kind \in {"post", "check"} /\ step.temp = d.current
  <2>1. Sound(e) /\ e.op = x.d.op /\ AtRow(e, s) /\ e.phase = "duplicate_queued"
    BY <1>1, <1>2, <1>4 DEF Sound, IsDriver, AtRow, Checking
  <2>2. c.kind \in Kinds /\ c.op = x.d.op /\ QueuedPhase(c.kind) = "duplicate_queued"
    BY <1>1 DEF Command, Kinds, QueuedPhase
  <2> HIDE DEF e, c
  <2> QED BY <1>3, <1>4, <2>1, <2>2, Sends
<1>5. CASE ~(step.kind \in {"post", "check"} /\ step.temp = d.current)
  <2>1. /\ IsProcess(y) /\ y.issued = x.issued /\ y.queue = x.queue
        /\ Sound(y.d) /\ y.d.op = x.d.op /\ AtRow(y.d, s)
    BY <1>1 DEF Sound, IsDriver, IsProcess, AtRow, Checking
  <2> HIDE DEF y
  <2> QED BY <1>3, <1>5, <2>1, Stays
<1> QED BY <1>4, <1>5

\* The checkpoint moves the driver to the next item, as it moves the run row.
LEMMA recordCheckpointIs ==
    ASSUME NEW d, IsDriver(d), NEW t, NEW outcome, NEW next
    PROVE  LET e == recordCheckpoint(d, t, outcome, next)
           IN  /\ IsDriver(e) /\ e.current = next /\ e.op = d.op /\ e.phase = d.phase
               /\ e.admission = d.admission /\ e.persistence = d.persistence
               /\ e.policyCheck = d.policyCheck /\ e.sourceChanged = d.sourceChanged
               /\ e.m = d.m /\ e.duplicate = d.duplicate /\ e.recovered = d.recovered
  BY DEF recordCheckpoint, IsDriver

LEMMA retryPersistenceIs ==
    ASSUME NEW x, IsProcess(x), Sound(x.d), x.d.persistence # NoPersistence,
           NEW s, Tables(s), AtRow(x.d, s), NEW r \in retryPersistence(x, s)
    PROVE  Leaves(x, x.d.op, s.nextOp, r)
<1> DEFINE d == x.d
<1> DEFINE p == d.persistence
<1> DEFINE d1 == [d EXCEPT !.persistence.retryDone = @ \/ p.retry # NoRetry]
<1> DEFINE d2 == IF p.checkpointDone \/ p.outcome = NoOutcome THEN d1
                 ELSE [recordCheckpoint(d1, p.temp, p.outcome, p.next.temp)
                         EXCEPT !.persistence.checkpointDone = TRUE]
<1> DEFINE Retried == IF p.retryDone \/ p.retry = NoRetry THEN NoCall(s)
                      ELSE Retrying(s, d, p.temp, p.retry)
<1> DEFINE Checkpointed(s1) == IF p.checkpointDone \/ p.outcome = NoOutcome THEN NoCall(s1)
                               ELSE Checkpointing(s1, d, p.temp, p.outcome, p.next.temp)
<1> DEFINE Completed(s2) == IF p.completion = "none" THEN NoCall(s2)
                            ELSE Completing(s2, d.op, p.completion, p.restore)
<1> DEFINE d3 == [d2 EXCEPT !.persistence = NoPersistence, !.phase = "post_queued"]
<1> DEFINE After == IF p.completion # "none" THEN destroy(x)
                    ELSE Enqueue(x, d3, PostCommand(d, p.next))
<1>1. /\ IsDriver(d) /\ IsPersistence(p) /\ d.phase = "persistence_paused"
      /\ d.admission = NoAdmission /\ ~d.policyCheck /\ ~d.sourceChanged
  BY DEF Sound, Checking
<1>2. /\ Sound(d1) /\ d1.op = d.op /\ d1.current = d.current /\ d1.phase = d.phase
      /\ d1.admission = NoAdmission /\ ~d1.policyCheck /\ ~d1.sourceChanged
      /\ IsPersistence(d1.persistence) /\ IsDriver(d1)
  BY <1>1 DEF Sound, IsDriver, IsPersistence, Checking
<1>3. /\ Sound(d2) /\ d2.op = d.op /\ d2.admission = NoAdmission /\ ~d2.policyCheck
      /\ ~d2.sourceChanged /\ IsDriver(d2)
      /\ d2.current = IF p.checkpointDone \/ p.outcome = NoOutcome THEN d.current ELSE p.next.temp
  <2>1. CASE p.checkpointDone \/ p.outcome = NoOutcome
    BY <1>2, <2>1
  <2>2. CASE ~(p.checkpointDone \/ p.outcome = NoOutcome)
    <3> DEFINE e == recordCheckpoint(d1, p.temp, p.outcome, p.next.temp)
    <3> HIDE DEF d1
    <3>1. /\ IsDriver(e) /\ e.current = p.next.temp /\ e.op = d.op /\ e.phase = d.phase
          /\ e.admission = NoAdmission /\ ~e.policyCheck /\ ~e.sourceChanged
          /\ IsPersistence(e.persistence)
      BY <1>2, recordCheckpointIs
    <3>2. d2 = [e EXCEPT !.persistence.checkpointDone = TRUE]
      BY <2>2
    <3> HIDE DEF e, d2
    <3> QED BY <1>1, <2>2, <3>1, <3>2 DEF Sound, IsDriver, IsPersistence, Checking
  <2> QED BY <2>1, <2>2
<1>4. PICK a \in Retried :
          r \in IF ~a.done THEN {Result(x, a.db, a.f)} ELSE
                UNION {IF ~b.done THEN {Result([x EXCEPT !.d = d1], b.db, b.f)} ELSE
                         {IF ~c.done THEN Result([x EXCEPT !.d = d2], c.db, c.f)
                          ELSE Result(After, c.db, 0) : c \in Completed(b.db)}
                       : b \in Checkpointed(a.db)}
  BY DEF retryPersistence
<1>5. Tables(a.db) /\ a.db.nextOp = s.nextOp /\ AtRow(d, a.db)
  BY RetryingIs DEF NoCall, AtRow
<1> HIDE DEF d1, d2, Checkpointed, Completed, After, Retried
<1>6. CASE ~a.done
  BY <1>4, <1>5, <1>6, Stays
<1>7. CASE a.done
  <2>1. PICK b \in Checkpointed(a.db) :
            r \in IF ~b.done THEN {Result([x EXCEPT !.d = d1], b.db, b.f)} ELSE
                    {IF ~c.done THEN Result([x EXCEPT !.d = d2], c.db, c.f)
                     ELSE Result(After, c.db, 0) : c \in Completed(b.db)}
    BY <1>4, <1>7
  <2>2. /\ Tables(b.db) /\ b.db.nextOp = s.nextOp /\ b.db.run.op = d.op
        /\ ~b.done => b.db.run.current = d.current
        /\ b.done => b.db.run.current = d2.current
    <3>1. CASE p.checkpointDone \/ p.outcome = NoOutcome
      BY <1>3, <1>5, <3>1 DEF Checkpointed, NoCall, AtRow
    <3>2. CASE ~(p.checkpointDone \/ p.outcome = NoOutcome)
      <4>1. b \in Checkpointing(a.db, d, p.temp, p.outcome, p.next.temp)
        BY <3>2 DEF Checkpointed
      <4> HIDE DEF d, p
      <4>2. /\ Tables(b.db) /\ b.db.nextOp = a.db.nextOp /\ b.db.run.op = a.db.run.op
            /\ \/ b.done /\ b.db.run.current = p.next.temp
               \/ ~b.done /\ b.db.run.current = a.db.run.current
        BY <1>5, <4>1, CheckpointingIs
      <4> QED BY <1>3, <1>5, <3>2, <4>2 DEF AtRow
    <3> QED BY <3>1, <3>2
  <2>3. CASE ~b.done
    <3> DEFINE y == [x EXCEPT !.d = d1]
    <3>1. IsProcess(y) /\ y.issued = x.issued /\ y.queue = x.queue /\ y.d = d1
      BY DEF IsProcess
    <3>2. r = Result(y, b.db, b.f)
      BY <2>1, <2>3
    <3> HIDE DEF y
    <3>3. AtRow(d1, b.db)
      BY <1>2, <2>2, <2>3 DEF AtRow
    <3> QED BY <1>2, <2>2, <3>1, <3>2, <3>3, Stays
  <2>4. CASE b.done
    <3>1. PICK c \in Completed(b.db) :
              r = IF ~c.done THEN Result([x EXCEPT !.d = d2], c.db, c.f)
                  ELSE Result(After, c.db, 0)
      BY <2>1, <2>4
    <3>2. AtRow(d2, b.db)
      BY <1>3, <2>2, <2>4 DEF AtRow
    <3>3. /\ Tables(c.db) /\ c.db.nextOp = s.nextOp
          /\ ~c.done => c.db = b.db
          /\ c.done /\ p.completion = "none" => c.db = b.db
          /\ c.done /\ p.completion # "none" => c.db.run.op = 0
      <4>1. CASE p.completion = "none"
        BY <2>2, <4>1 DEF Completed, NoCall
      <4>2. CASE p.completion # "none"
        <5>1. c \in Completing(b.db, d.op, p.completion, p.restore)
          BY <4>2 DEF Completed
        <5>2. p.completion \in {"clean", "partial", "aborted"}
          BY <1>1, <4>2 DEF IsPersistence
        <5> HIDE DEF d, p
        <5>3. /\ Tables(c.db) /\ c.db.nextOp = b.db.nextOp
              /\ \/ c.done /\ c.db.run.op = 0
                 \/ ~c.done /\ c.db = b.db
          BY <2>2, <5>1, <5>2, CompletingIs
        <5> QED BY <2>2, <4>2, <5>3
      <4> QED BY <4>1, <4>2
    <3>4. CASE ~c.done
      <4> DEFINE y == [x EXCEPT !.d = d2]
      <4>1. IsProcess(y) /\ y.issued = x.issued /\ y.queue = x.queue /\ y.d = d2
        BY DEF IsProcess
      <4>2. r = Result(y, c.db, c.f) /\ AtRow(d2, c.db)
        BY <3>1, <3>2, <3>3, <3>4
      <4> HIDE DEF y
      <4> QED BY <1>3, <3>3, <4>1, <4>2, Stays
    <3>5. CASE c.done /\ p.completion # "none"
      <4>1. /\ IsProcess(destroy(x)) /\ destroy(x).issued = x.issued
            /\ destroy(x).queue = x.queue /\ destroy(x).d = NoDurable
        BY DEF destroy, IsProcess
      <4>2. r = Result(destroy(x), c.db, 0)
        BY <3>1, <3>5 DEF After
      <4> QED BY <3>3, <3>5, <4>1, <4>2, Ends
    <3>6. CASE c.done /\ p.completion = "none"
      <4>1. Sound(d3) /\ d3.op = d.op /\ AtRow(d3, c.db) /\ d3.phase = "post_queued"
        BY <1>3, <3>2, <3>3, <3>6 DEF Sound, IsDriver, AtRow, Checking
      <4>2. /\ PostCommand(d, p.next).kind \in Kinds /\ PostCommand(d, p.next).op = d3.op
            /\ d3.phase = QueuedPhase(PostCommand(d, p.next).kind)
        BY <4>1 DEF PostCommand, Command, Kinds, QueuedPhase
      <4>3. r = Result(Enqueue(x, d3, PostCommand(d, p.next)), c.db, 0)
        BY <3>1, <3>6 DEF After
      <4> HIDE DEF d3
      <4> QED BY <3>3, <4>1, <4>2, <4>3, Sends
    <3> QED BY <3>4, <3>5, <3>6
  <2> QED BY <2>3, <2>4
<1> QED BY <1>6, <1>7

LEMMA PersistIs ==
    ASSUME NEW x, IsProcess(x), NEW d, Clear(d), NEW s, Tables(s), AtRow(d, s),
           NEW persistence, IsPersistence(persistence),
           NEW r \in Persist(x, d, s, persistence)
    PROVE  Leaves(x, d.op, s.nextOp, r)
<1> DEFINE e == [d EXCEPT !.persistence = persistence, !.phase = "persistence_paused"]
<1> DEFINE y == [x EXCEPT !.d = e]
<1>1. /\ Sound(e) /\ e.persistence # NoPersistence /\ AtRow(e, s) /\ e.op = d.op
  BY DEF Clear, Sound, IsDriver, AtRow, Checking, IsPersistence, NoPersistence
<1>2. IsProcess(y) /\ y.issued = x.issued /\ y.queue = x.queue /\ y.d = e
  BY DEF IsProcess
<1>3. r \in retryPersistence(y, s)
  BY DEF Persist
<1> HIDE DEF e, y
<1>4. Leaves(y, y.d.op, s.nextOp, r)
  BY <1>1, <1>2, <1>3, retryPersistenceIs
<1> QED BY <1>1, <1>2, <1>4 DEF Leaves

\* What the answers do to the machine.  A publication check never aborts it.
LEMMA MachineIs ==
    ASSUME NEW m, "aborted" \in DOMAIN m, NEW reply, NEW retry
    PROVE  /\ "aborted" \in DOMAIN report(m, reply)
           /\ "aborted" \in DOMAIN completeWait(m)
           /\ "aborted" \in DOMAIN restoreRetry(m, retry)
           /\ "aborted" \in DOMAIN reportCheck(m, reply)
           /\ reportCheck(m, reply).aborted = m.aborted
<1>1. "aborted" \in DOMAIN completeWait(m) /\ "aborted" \in DOMAIN restoreRetry(m, retry)
  BY DEF completeWait, restoreRetry
<1>2. "aborted" \in DOMAIN report(m, reply)
  BY DEF report, scheduleRetryOrFail, setWait, Decide
<1>3. "aborted" \in DOMAIN reportCheck(m, reply) /\ reportCheck(m, reply).aborted = m.aborted
  BY DEF reportCheck, scheduleCheckRetryOrUnknown, setWait, setCheckWait, Decide
<1> QED BY <1>1, <1>2, <1>3

LEMMA SettledIs ==
    ASSUME NEW x, IsProcess(x), NEW d, Sound(d), NEW s, Tables(s), AtRow(d, s),
           NEW r \in Settled(x, d, s)
    PROVE  Leaves(x, d.op, s.nextOp, r)
<1> DEFINE y == [x EXCEPT !.d = d]
<1>1. IsProcess(y) /\ y.issued = x.issued /\ y.queue = x.queue /\ y.d = d
  BY DEF IsProcess
<1>2. r = Result(y, s, 0)
  BY DEF Settled
<1> HIDE DEF y
<1> QED BY <1>1, <1>2, Stays

\* A clear driver sends the POST of a step.
LEMMA PostIsSent ==
    ASSUME NEW x, IsProcess(x), NEW y, IsProcess(y), y.issued = x.issued, y.queue = x.queue,
           NEW d, Clear(d), NEW s, Tables(s), AtRow(d, s), NEW step, NEW f
    PROVE  Leaves(x, d.op, s.nextOp,
                   Result(Enqueue(y, [d EXCEPT !.phase = "post_queued"], PostCommand(d, step)), s, f))
<1> DEFINE e == [d EXCEPT !.phase = "post_queued"]
<1>1. Sound(e) /\ e.op = d.op /\ AtRow(e, s) /\ e.phase = "post_queued"
  BY Rephased DEF AtRow, Checking
<1>2. /\ PostCommand(d, step).kind \in Kinds /\ PostCommand(d, step).op = e.op
      /\ e.phase = QueuedPhase(PostCommand(d, step).kind)
  BY <1>1 DEF PostCommand, Command, Kinds, QueuedPhase
<1> DEFINE c == PostCommand(d, step)
<1> HIDE DEF e, c
<1>3. c.kind \in Kinds /\ c.op = e.op /\ e.phase = QueuedPhase(c.kind)
  BY <1>2 DEF c
<1>4. Leaves(x, e.op, s.nextOp, Result(Enqueue(y, e, c), s, f))
  BY <1>1, <1>3, Sends
<1> QED BY <1>1, <1>4 DEF e, c

LEMMA acceptPostIs ==
    ASSUME NEW x, IsProcess(x), Clear(x.d), x.d.phase \notin Checking,
           NEW s, Tables(s), AtRow(x.d, s), NEW t, NEW reply, NEW r \in acceptPost(x, s, t, reply)
    PROVE  Leaves(x, x.d.op, s.nextOp, r)
<1> DEFINE reported == [x.d EXCEPT !.m = report(@, reply)]
<1> DEFINE d == Advanced(reported)
<1> DEFINE step == NextStep(reported)
<1> DEFINE row == d.review[t]
<1> DEFINE completion == IF isClean(d.m) THEN "clean" ELSE "partial"
<1> DEFINE p1 == Persistence(t, OutcomeOf(reply), step, "none", NoOutcome, TerminalRetry(d.m))
<1> DEFINE p2 == Persistence(t, OutcomeOf(reply), NoStep, completion, NoOutcome, TerminalRetry(d.m))
<1> DEFINE p3 == Persistence(t, NoOutcome, NoStep, "aborted",
                             [state |-> row.state, comment |-> row.comment], NoRetry)
<1> DEFINE y == [x EXCEPT !.d = d]
<1>1. /\ Clear(reported) /\ reported.op = x.d.op /\ AtRow(reported, s)
      /\ reported.phase = x.d.phase
  <2>1. "aborted" \in DOMAIN report(x.d.m, reply)
    BY MachineIs DEF Clear, IsDriver
  <2> QED BY <2>1 DEF Clear, IsDriver, AtRow
<1> HIDE DEF reported
<1>2. Clear(d) /\ d.op = x.d.op /\ AtRow(d, s) /\ d.phase \notin Checking
  BY <1>1, AdvancedIs DEF Clear, AtRow
<1>3. step.kind \in {"aborted", "done", "wait", "check", "post"}
  BY <1>1, NextStepIs DEF Clear
<1>4. IsPersistence(p1) /\ IsPersistence(p2) /\ IsPersistence(p3)
  BY DEF IsPersistence, Persistence
<1>5. r \in CASE step.kind = "post" -> Persist(x, d, s, p1)
              [] step.kind = "done" -> Persist(x, d, s, p2)
              [] step.kind = "aborted" /\ row.state \in {"draft", "failed", "outcome_unknown"} ->
                   Persist(x, d, s, p3)
              [] step.kind = "aborted" /\ row.state \notin {"draft", "failed", "outcome_unknown"} ->
                   Settled(x, d, s)
              [] step.kind = "wait" -> ScheduleWait(x, d, s)
              [] step.kind = "check" -> {Result(queueDuplicateCheck(y), s, 0)}
  BY DEF acceptPost, reported
<1>6. IsProcess(y) /\ y.issued = x.issued /\ y.queue = x.queue /\ y.d = d
  BY DEF IsProcess
<1> HIDE DEF d, step, row, p1, p2, p3, y
<1>7. Sound(d)
  BY <1>2 DEF Clear, Sound
<1>8. \/ r \in Persist(x, d, s, p1) \/ r \in Persist(x, d, s, p2) \/ r \in Persist(x, d, s, p3)
      \/ r \in Settled(x, d, s) \/ r \in ScheduleWait(x, d, s)
      \/ r = Result(queueDuplicateCheck(y), s, 0)
  BY <1>3, <1>5
<1>9. ASSUME r \in Settled(x, d, s) PROVE Leaves(x, d.op, s.nextOp, r)
  BY <1>2, <1>7, <1>9, SettledIs
<1>10. ASSUME r \in ScheduleWait(x, d, s) PROVE Leaves(x, d.op, s.nextOp, r)
  BY <1>2, <1>10, ScheduleWaitIs
<1>11. ASSUME r = Result(queueDuplicateCheck(y), s, 0) PROVE Leaves(x, d.op, s.nextOp, r)
  <2>1. Leaves(y, y.d.op, s.nextOp, r)
    BY <1>2, <1>6, <1>11, queueDuplicateCheckIs DEF Clear
  <2> QED BY <1>6, <2>1 DEF Leaves
<1>12. ASSUME NEW p, IsPersistence(p), r \in Persist(x, d, s, p)
       PROVE  Leaves(x, d.op, s.nextOp, r)
  BY <1>2, <1>12, PersistIs
<1> QED BY <1>2, <1>4, <1>8, <1>9, <1>10, <1>11, <1>12

LEMMA processSubmissionWaitIs ==
    ASSUME NEW x, IsProcess(x), Clear(x.d), NEW s, Tables(s), AtRow(x.d, s), NEW cmd,
           NEW r \in processSubmissionWait(x, s, cmd)
    PROVE  Leaves(x, x.d.op, s.nextOp, r)
<1> DEFINE waited == [x.d EXCEPT !.m = completeWait(@)]
<1> DEFINE d == Advanced(waited)
<1> DEFINE step == NextStep(waited)
<1> DEFINE Parks(e) == [x EXCEPT !.d = [e EXCEPT !.phase = "admission_paused",
                                                 !.admission = [kind |-> "wait", cmd |-> cmd]]]
<1>1. Clear(waited) /\ waited.op = x.d.op /\ AtRow(waited, s)
  <2>1. "aborted" \in DOMAIN completeWait(x.d.m)
    BY MachineIs DEF Clear, IsDriver
  <2> QED BY <2>1 DEF Clear, IsDriver, AtRow
<1>2. PICK a \in Retrying(s, x.d, cmd.temp, [cmd.retry EXCEPT !.pending = FALSE]) :
          r = IF ~a.done THEN Result(Parks(x.d), a.db, a.f)
              ELSE IF step.kind = "post"
              THEN Result(Enqueue(x, [d EXCEPT !.phase = "post_queued"], PostCommand(d, step)),
                          a.db, a.f)
              ELSE Result(Parks(d), a.db, a.f)
  BY DEF processSubmissionWait
<1> HIDE DEF waited
<1>3. Clear(d) /\ d.op = x.d.op /\ AtRow(d, s)
  BY <1>1, AdvancedIs DEF Clear, AtRow
<1>4. /\ Tables(a.db) /\ a.db.nextOp = s.nextOp
      /\ a.db.run.op = s.run.op /\ a.db.run.current = s.run.current
  BY RetryingIs
<1>5. AtRow(d, a.db) /\ AtRow(x.d, a.db)
  BY <1>3, <1>4 DEF AtRow
<1> HIDE DEF d, step
<1>6. ASSUME NEW e, Clear(e), AtRow(e, a.db)
      PROVE  Leaves(x, e.op, s.nextOp, Result(Parks(e), a.db, a.f))
  <2> DEFINE g == [e EXCEPT !.phase = "admission_paused",
                            !.admission = [kind |-> "wait", cmd |-> cmd]]
  <2>1. Sound(g) /\ AtRow(g, a.db) /\ g.op = e.op
    BY <1>6 DEF Clear, Sound, IsDriver, AtRow, Checking
  <2>2. /\ IsProcess(Parks(e)) /\ Parks(e).issued = x.issued /\ Parks(e).queue = x.queue
        /\ Parks(e).d = g
    BY DEF IsProcess
  <2> HIDE DEF Parks, g
  <2> QED BY <1>4, <2>1, <2>2, Stays
<1>7. Leaves(x, x.d.op, s.nextOp,
              Result(Enqueue(x, [d EXCEPT !.phase = "post_queued"], PostCommand(d, step)),
                     a.db, a.f))
  BY <1>3, <1>4, <1>5, PostIsSent
<1> HIDE DEF Parks
<1> QED BY <1>2, <1>3, <1>5, <1>6, <1>7

-----------------------------------------------------------------------------
(* Answers to the source check and the duplicate guard *)

LEMMA abortChangedSubmissionIs ==
    ASSUME NEW x, IsProcess(x), Clear(x.d), NEW s, Tables(s), AtRow(x.d, s),
           NEW r \in abortChangedSubmission(x, s)
    PROVE  Leaves(x, x.d.op, s.nextOp, r)
<1> DEFINE y == [destroy(x) EXCEPT !.gate = "stale"]
<1> DEFINE z == [x EXCEPT !.d.phase = "recovery_check_paused"]
<1>1. PICK a \in Completing(s, x.d.op, "aborted", Pending) :
          r = IF a.done THEN Result(y, a.db, a.f) ELSE Result(z, a.db, a.f)
  BY DEF abortChangedSubmission
<1>2. /\ Tables(a.db) /\ a.db.nextOp = s.nextOp
      /\ \/ a.done /\ a.db.run.op = 0
         \/ ~a.done /\ a.db = s
  BY CompletingIs
<1>3. IsProcess(y) /\ y.issued = x.issued /\ y.queue = x.queue /\ y.d = NoDurable
  BY DEF IsProcess, destroy
<1>4. /\ IsProcess(z) /\ z.issued = x.issued /\ z.queue = x.queue
      /\ Sound(z.d) /\ z.d.op = x.d.op /\ AtRow(z.d, s)
  BY DEF IsProcess, Clear, Sound, IsDriver, AtRow, Checking
<1> HIDE DEF y, z
<1>5. CASE a.done
  BY <1>1, <1>2, <1>3, <1>5, Ends
<1>6. CASE ~a.done
  BY <1>1, <1>2, <1>4, <1>6, Stays
<1> QED BY <1>5, <1>6

LEMMA acceptRecoveryCheckIs ==
    ASSUME NEW x, IsProcess(x), Clear(x.d), NEW s, Tables(s), AtRow(x.d, s), NEW observed,
           NEW r \in acceptRecoveryCheck(x, s, observed)
    PROVE  Leaves(x, x.d.op, s.nextOp, r)
<1> DEFINE same == [x EXCEPT !.gate = IF x.d.recovered THEN @ ELSE "off"]
<1> DEFINE d == Advanced(x.d)
<1> DEFINE step == NextStep(x.d)
<1> DEFINE moved == [x EXCEPT !.gate = "stale", !.d.sourceChanged = TRUE]
<1> DEFINE paused == [d EXCEPT !.phase = "recovery_check_paused"]
<1> DEFINE first == [x.d EXCEPT !.phase = "recovery_check_paused"]
<1> DEFINE waiting == [d EXCEPT !.phase = "wait_queued"]
<1> DEFINE r1 == Result(queueDuplicateCheck(moved), s, 0)
<1> DEFINE r2 == Result(Enqueue(same, waiting, WaitCommand(d)), s, 0)
<1> DEFINE r3 == Result(Enqueue(same, [d EXCEPT !.phase = "post_queued"], PostCommand(d, step)), s, 0)
<1> DEFINE r4 == Result(queueDuplicateCheck(same), s, 0)
<1>1. \/ r \in Settled(x, first, s) \/ r = r1 \/ r \in abortChangedSubmission(x, s)
      \/ r = r2 \/ r = r3 \/ r = r4 \/ r \in Settled(same, paused, s)
  <2> DEFINE c1 == observed = NoSource
  <2> DEFINE c2 == observed # NoSource /\ observed # x.d.source /\ x.d.recovered
  <2> DEFINE c3 == observed # NoSource /\ observed # x.d.source /\ ~x.d.recovered
  <2> DEFINE c4 == observed = x.d.source /\ step.kind = "wait"
  <2> DEFINE c5 == observed = x.d.source /\ step.kind = "post" /\ ~d.recovered
  <2> DEFINE c6 == observed = x.d.source
                      /\ (step.kind = "check" \/ (step.kind = "post" /\ d.recovered))
  <2>1. r \in CASE c1 -> Settled(x, first, s)
                [] c2 -> {r1}
                [] c3 -> abortChangedSubmission(x, s)
                [] c4 -> {r2}
                [] c5 -> {r3}
                [] c6 -> {r4}
                [] OTHER -> Settled(same, paused, s)
    BY DEF acceptRecoveryCheck
  <2> HIDE DEF c1, c2, c3, c4, c5, c6, same, d, step, moved, paused, first, waiting, r1, r2, r3, r4
  <2> QED BY <2>1
<1>2. /\ IsProcess(same) /\ same.issued = x.issued /\ same.queue = x.queue /\ same.d = x.d
      /\ IsProcess(moved) /\ moved.issued = x.issued /\ moved.queue = x.queue
      /\ IsDriver(moved.d) /\ moved.d.admission = NoAdmission
      /\ moved.d.persistence = NoPersistence /\ ~moved.d.policyCheck
      /\ moved.d.op = x.d.op /\ AtRow(moved.d, s)
  BY DEF IsProcess, Clear, IsDriver, AtRow
<1>3. Clear(d) /\ d.op = x.d.op /\ AtRow(d, s)
  BY AdvancedIs DEF Clear, AtRow
<1> HIDE DEF same, moved, d, step
<1>4. /\ Sound(paused) /\ paused.op = x.d.op /\ AtRow(paused, s)
      /\ Sound(waiting) /\ waiting.op = x.d.op /\ AtRow(waiting, s)
      /\ waiting.phase = "wait_queued"
  BY <1>3, Rephased DEF AtRow, Checking
<1>5. Sound(first) /\ first.op = x.d.op /\ AtRow(first, s)
  BY Rephased DEF AtRow, Checking
<1> HIDE DEF paused, first, waiting
<1>6. ASSUME r \in Settled(x, first, s) PROVE Leaves(x, x.d.op, s.nextOp, r)
  BY <1>5, <1>6, SettledIs
<1>7. ASSUME r = r1 PROVE Leaves(x, x.d.op, s.nextOp, r)
  <2>1. Leaves(moved, moved.d.op, s.nextOp, r)
    BY <1>2, <1>7, queueDuplicateCheckIs
  <2> QED BY <1>2, <2>1 DEF Leaves
<1>8. ASSUME r \in abortChangedSubmission(x, s) PROVE Leaves(x, x.d.op, s.nextOp, r)
  BY <1>8, abortChangedSubmissionIs
<1>9. ASSUME r = r2 PROVE Leaves(x, x.d.op, s.nextOp, r)
  <2> DEFINE c == WaitCommand(d)
  <2>1. c.kind \in Kinds /\ c.op = waiting.op /\ waiting.phase = QueuedPhase(c.kind)
    BY <1>3, <1>4 DEF WaitCommand, Command, Kinds, QueuedPhase
  <2> HIDE DEF c
  <2>2. Leaves(x, waiting.op, s.nextOp, Result(Enqueue(same, waiting, c), s, 0))
    BY <1>2, <1>4, <2>1, Sends
  <2> QED BY <1>4, <1>9, <2>2 DEF c
<1>10. ASSUME r = r3 PROVE Leaves(x, x.d.op, s.nextOp, r)
  BY <1>2, <1>3, <1>10, PostIsSent
<1>11. ASSUME r = r4 PROVE Leaves(x, x.d.op, s.nextOp, r)
  <2>1. Leaves(same, same.d.op, s.nextOp, r)
    BY <1>2, <1>11, queueDuplicateCheckIs DEF Clear
  <2> QED BY <1>2, <2>1 DEF Leaves
<1>12. ASSUME r \in Settled(same, paused, s) PROVE Leaves(x, x.d.op, s.nextOp, r)
  <2>1. Leaves(same, paused.op, s.nextOp, r)
    BY <1>2, <1>4, <1>12, SettledIs
  <2> QED BY <1>2, <1>4, <2>1 DEF Leaves
<1> HIDE DEF r1, r2, r3, r4
<1> QED BY <1>1, <1>6, <1>7, <1>8, <1>9, <1>10, <1>11, <1>12

\* The driver while the answer of the duplicate guard is persisted.
Resolving(d) ==
    /\ IsDriver(d) /\ d.phase = "duplicate_persistence_paused"
    /\ d.admission = NoAdmission /\ d.persistence = NoPersistence /\ ~d.policyCheck

LEMMA ResolvingIsSound ==
    ASSUME NEW d, Resolving(d)
    PROVE  Sound(d)
  BY DEF Resolving, Sound, Checking

LEMMA persistDuplicateResolutionIs ==
    ASSUME NEW x, IsProcess(x), Resolving(x.d), NEW s, Tables(s), AtRow(x.d, s),
           NEW r \in persistDuplicateResolution(x, s)
    PROVE  Leaves(x, x.d.op, s.nextOp, r)
<1> DEFINE d == x.d
<1> DEFINE done == d.duplicate.checkpointDone
<1> DEFINE outcome == d.duplicate.outcome
<1> DEFINE d1 == IF done THEN d
                 ELSE [recordCheckpoint(d, d.current, outcome, NoTemp)
                         EXCEPT !.duplicate.checkpointDone = TRUE]
<1> DEFINE clean == AllPosted(d1.review)
<1> DEFINE completion == IF clean THEN "clean" ELSE "partial"
<1> DEFINE Checkpointed == IF done THEN NoCall(s)
                           ELSE Checkpointing(s, d, d.current, outcome, NoTemp)
<1> DEFINE y == [destroy(x) EXCEPT !.gate = IF clean /\ d.sourceChanged THEN "off" ELSE @]
<1> DEFINE z == [x EXCEPT !.d = d1]
<1>1. Resolving(d1) /\ d1.op = d.op /\ d1.current = IF done THEN d.current ELSE NoTemp
  <2>1. CASE done
    BY <2>1
  <2>2. CASE ~done
    <3> DEFINE e == recordCheckpoint(d, d.current, outcome, NoTemp)
    <3>1. /\ IsDriver(e) /\ e.current = NoTemp /\ e.op = d.op /\ e.phase = d.phase
          /\ e.admission = d.admission /\ e.persistence = d.persistence
          /\ e.policyCheck = d.policyCheck
      BY recordCheckpointIs DEF Resolving
    <3>2. d1 = [e EXCEPT !.duplicate.checkpointDone = TRUE]
      BY <2>2
    <3> HIDE DEF e, d1
    <3> QED BY <2>2, <3>1, <3>2 DEF Resolving, IsDriver
  <2> QED BY <2>1, <2>2
<1>2. PICK a \in Checkpointed :
          r \in IF ~a.done THEN {Result(x, a.db, a.f)} ELSE
                  {IF b.done THEN Result(y, b.db, b.f) ELSE Result(z, b.db, b.f)
                   : b \in Completing(a.db, d.op, completion, NoOutcome)}
  BY DEF persistDuplicateResolution
<1>3. IsProcess(y) /\ y.issued = x.issued /\ y.queue = x.queue /\ y.d = NoDurable
  BY DEF IsProcess, destroy
<1>4. IsProcess(z) /\ z.issued = x.issued /\ z.queue = x.queue /\ z.d = d1
  BY DEF IsProcess
<1>5. completion \in {"clean", "partial", "aborted"}
  OBVIOUS
<1> HIDE DEF y, z, d1, clean, completion
<1>6. /\ Tables(a.db) /\ a.db.nextOp = s.nextOp /\ a.db.run.op = d.op
      /\ ~a.done => a.db.run.current = d.current
      /\ a.done => a.db.run.current = d1.current
  <2>1. CASE done
    BY <1>1, <2>1 DEF NoCall, AtRow
  <2>2. CASE ~done
    <3>1. a \in Checkpointing(s, d, d.current, outcome, NoTemp)
      BY <2>2
    <3> HIDE DEF d, outcome
    <3>2. /\ Tables(a.db) /\ a.db.nextOp = s.nextOp /\ a.db.run.op = s.run.op
          /\ (a.done /\ a.db.run.current = NoTemp) \/ (~a.done /\ a.db.run.current = s.run.current)
      BY <3>1, CheckpointingIs
    <3> QED BY <1>1, <2>2, <3>2 DEF AtRow, d
  <2> QED BY <2>1, <2>2
<1>7. CASE ~a.done
  BY <1>2, <1>6, <1>7, Stays, ResolvingIsSound DEF AtRow
<1>8. CASE a.done
  <2>1. PICK b \in Completing(a.db, d.op, completion, NoOutcome) :
            r = IF b.done THEN Result(y, b.db, b.f) ELSE Result(z, b.db, b.f)
    BY <1>2, <1>8
  <2>2. /\ Tables(b.db) /\ b.db.nextOp = s.nextOp
        /\ (b.done /\ b.db.run.op = 0) \/ (~b.done /\ b.db = a.db)
    BY <1>5, <1>6, <2>1, CompletingIs
  <2>3. CASE b.done
    BY <1>3, <2>1, <2>2, <2>3, Ends
  <2>4. CASE ~b.done
    <3>1. Sound(z.d) /\ AtRow(z.d, b.db) /\ z.d.op = d.op
      BY <1>1, <1>4, <1>6, <1>8, <2>2, <2>4, ResolvingIsSound DEF AtRow
    <3> QED BY <1>4, <2>1, <2>2, <2>4, <3>1, Stays
  <2> QED BY <2>3, <2>4
<1> QED BY <1>7, <1>8

\* advanceAfterPolicyCheck has no arm for an aborted machine: the code holds it
\* unreachable, and it is.
LEMMA advanceAfterPolicyCheckIs ==
    ASSUME NEW x, IsProcess(x), Clear(x.d), ~x.d.m.aborted,
           NEW s, Tables(s), AtRow(x.d, s), NEW t, NEW r \in advanceAfterPolicyCheck(x, s, t)
    PROVE  Leaves(x, x.d.op, s.nextOp, r)
<1> DEFINE d == Advanced(x.d)
<1> DEFINE step == NextStep(x.d)
<1> DEFINE completion == IF isClean(d.m) THEN "clean" ELSE "partial"
<1> DEFINE p == Persistence(t, LastOutcome(d.m), NoStep, completion, NoOutcome, NoRetry)
<1> DEFINE r1 == Result(Enqueue(x, [d EXCEPT !.phase = "post_queued"], PostCommand(d, step)), s, 0)
<1> DEFINE r2 == Result(queueDuplicateCheck(x), s, 0)
<1>1. Clear(d) /\ d.op = x.d.op /\ AtRow(d, s) /\ ~d.m.aborted
  BY AdvancedIs DEF Clear, AtRow
<1>2. step.kind \in {"done", "wait", "check", "post"}
  BY NextStepIs DEF Clear
<1>3. r \in CASE step.kind = "post" -> {r1}
              [] step.kind = "check" -> {r2}
              [] step.kind = "wait" -> ScheduleWait(x, d, s)
              [] step.kind = "done" /\ LastOutcome(d.m) # NoOutcome -> Persist(x, d, s, p)
              [] step.kind = "done" /\ LastOutcome(d.m) = NoOutcome -> Settled(x, d, s)
  BY DEF advanceAfterPolicyCheck
<1>4. IsPersistence(p)
  BY DEF IsPersistence, Persistence
<1>5. Sound(d)
  BY <1>1 DEF Clear, Sound
<1> HIDE DEF d, step, p
<1>6. \/ r = r1 \/ r = r2 \/ r \in ScheduleWait(x, d, s) \/ r \in Persist(x, d, s, p)
      \/ r \in Settled(x, d, s)
  <2> HIDE DEF r1, r2
  <2> QED BY <1>2, <1>3
<1>7. ASSUME r = r1 PROVE Leaves(x, d.op, s.nextOp, r)
  BY <1>1, <1>7, PostIsSent
<1>8. ASSUME r = r2 PROVE Leaves(x, d.op, s.nextOp, r)
  <2>1. Leaves(x, x.d.op, s.nextOp, r)
    BY <1>8, queueDuplicateCheckIs DEF Clear
  <2> QED BY <1>1, <2>1
<1>9. ASSUME r \in ScheduleWait(x, d, s) PROVE Leaves(x, d.op, s.nextOp, r)
  BY <1>1, <1>9, ScheduleWaitIs
<1>10. ASSUME r \in Persist(x, d, s, p) PROVE Leaves(x, d.op, s.nextOp, r)
  BY <1>1, <1>4, <1>10, PersistIs
<1>11. ASSUME r \in Settled(x, d, s) PROVE Leaves(x, d.op, s.nextOp, r)
  BY <1>1, <1>5, <1>11, SettledIs
<1> HIDE DEF r1, r2
<1> QED BY <1>1, <1>6, <1>7, <1>8, <1>9, <1>10, <1>11

LEMMA acceptDuplicateCheckIs ==
    ASSUME NEW x, IsProcess(x), Sound(x.d), x.d.phase = "awaiting_duplicate",
           NEW s, Tables(s), AtRow(x.d, s), NEW t, NEW reply,
           NEW r \in acceptDuplicateCheck(x, s, t, reply)
    PROVE  Leaves(x, x.d.op, s.nextOp, r)
<1> DEFINE checked == [x EXCEPT !.d.policyCheck = FALSE, !.d.m = reportCheck(@, reply)]
<1> DEFINE paused == [x.d EXCEPT !.phase = "duplicate_check_paused"]
<1> DEFINE found == [x EXCEPT !.d.phase = "duplicate_persistence_paused",
                              !.d.duplicate = [outcome |-> IF reply.outcome = "found"
                                                           THEN Posted(reply.id) ELSE Unknown,
                                               checkpointDone |-> FALSE]]
<1>1. /\ IsDriver(x.d) /\ x.d.admission = NoAdmission /\ x.d.persistence = NoPersistence
      /\ ~x.d.m.aborted
      /\ x.d.policyCheck => ~x.d.sourceChanged
  BY DEF Sound, Checking
<1>2. \/ x.d.policyCheck /\ r \in advanceAfterPolicyCheck(checked, s, t)
      \/ ~x.d.policyCheck /\ r \in Settled(x, paused, s)
      \/ ~x.d.policyCheck /\ r \in persistDuplicateResolution(found, s)
  <2> HIDE DEF paused
  <2>1. CASE x.d.policyCheck
    BY <2>1 DEF acceptDuplicateCheck
  <2>2. CASE ~x.d.policyCheck /\ reply.outcome \in {"ambiguous", "rejected"}
    BY <2>2 DEF acceptDuplicateCheck, paused
  <2>3. CASE ~x.d.policyCheck /\ ~(reply.outcome \in {"ambiguous", "rejected"})
    BY <2>3 DEF acceptDuplicateCheck
  <2> QED BY <2>1, <2>2, <2>3
<1>3. ASSUME x.d.policyCheck, r \in advanceAfterPolicyCheck(checked, s, t)
      PROVE  Leaves(x, x.d.op, s.nextOp, r)
  <2>1. /\ "aborted" \in DOMAIN reportCheck(x.d.m, reply)
        /\ reportCheck(x.d.m, reply).aborted = x.d.m.aborted
    BY <1>1, MachineIs DEF IsDriver
  <2>2. /\ IsProcess(checked) /\ checked.issued = x.issued /\ checked.queue = x.queue
        /\ Clear(checked.d) /\ checked.d.op = x.d.op /\ AtRow(checked.d, s)
        /\ ~checked.d.m.aborted
    BY <1>1, <1>3, <2>1 DEF IsProcess, Clear, IsDriver, AtRow
  <2> HIDE DEF checked
  <2>3. Leaves(checked, checked.d.op, s.nextOp, r)
    BY <1>3, <2>2, advanceAfterPolicyCheckIs
  <2> QED BY <2>2, <2>3 DEF Leaves
<1>4. ASSUME ~x.d.policyCheck, r \in Settled(x, paused, s)
      PROVE  Leaves(x, x.d.op, s.nextOp, r)
  <2>1. Sound(paused) /\ paused.op = x.d.op /\ AtRow(paused, s)
    BY <1>1, <1>4 DEF Sound, IsDriver, AtRow, Checking
  <2> HIDE DEF paused
  <2> QED BY <1>4, <2>1, SettledIs
<1>5. ASSUME ~x.d.policyCheck, r \in persistDuplicateResolution(found, s)
      PROVE  Leaves(x, x.d.op, s.nextOp, r)
  <2>1. /\ IsProcess(found) /\ found.issued = x.issued /\ found.queue = x.queue
        /\ Resolving(found.d) /\ found.d.op = x.d.op /\ AtRow(found.d, s)
    BY <1>1, <1>5 DEF IsProcess, Resolving, IsDriver, AtRow
  <2> HIDE DEF found
  <2>2. Leaves(found, found.d.op, s.nextOp, r)
    BY <1>5, <2>1, persistDuplicateResolutionIs
  <2> QED BY <2>1, <2>2 DEF Leaves
<1> HIDE DEF checked, paused, found
<1> QED BY <1>2, <1>3, <1>4, <1>5

-----------------------------------------------------------------------------
(* Resuming *)

PausedPhase == {"post_retry_paused", "wait_retry_paused", "recovery_check_paused",
                "duplicate_check_paused", "duplicate_persistence_paused",
                "admission_paused", "persistence_paused"}

LEMMA ClearPhases ==
    ASSUME NEW d, Sound(d),
           d.phase \in {"awaiting_post", "awaiting_wait", "awaiting_recovery_check",
                        "post_retry_paused", "wait_retry_paused", "recovery_check_paused"}
    PROVE  Clear(d) /\ d.phase \notin Checking
  BY DEF Sound, Clear, Checking

LEMMA ResumeLaunchIs ==
    ASSUME NEW x, IsProcess(x), Clear(x.d), NEW s, Tables(s), AtRow(x.d, s),
           x.d.phase \notin Checking, NEW r \in ResumeLaunch(x, s)
    PROVE  Leaves(x, x.d.op, s.nextOp, r)
<1> DEFINE d == Advanced(x.d)
<1> DEFINE step == NextStep(x.d)
<1>1. Clear(d) /\ d.op = x.d.op /\ AtRow(d, s)
  BY AdvancedIs DEF Clear, AtRow
<1>2. CASE x.d.phase = "post_retry_paused"
  <2>1. r = Result(Enqueue(x, [d EXCEPT !.phase = "post_queued"], PostCommand(d, step)), s, 0)
    BY <1>2 DEF ResumeLaunch
  <2> HIDE DEF d, step
  <2> QED BY <1>1, <2>1, PostIsSent
<1>3. CASE x.d.phase # "post_retry_paused"
  <2> DEFINE e == [x.d EXCEPT !.phase = "wait_queued", !.wait = NoRetry]
  <2> DEFINE c == Command("wait", x.d.op, x.d.current, NoComment, NoDraft, x.d.wait)
  <2>1. PICK a \in Retrying(s, x.d, x.d.current, x.d.wait) :
            r = IF a.done THEN Result(Enqueue(x, e, c), a.db, a.f) ELSE Result(x, a.db, a.f)
    BY <1>3 DEF ResumeLaunch
  <2>2. /\ Tables(a.db) /\ a.db.nextOp = s.nextOp
        /\ a.db.run.op = s.run.op /\ a.db.run.current = s.run.current
    BY RetryingIs
  <2>3. /\ Sound(e) /\ e.op = x.d.op /\ AtRow(e, a.db) /\ e.phase = "wait_queued"
        /\ Sound(x.d) /\ AtRow(x.d, a.db)
    BY <2>2 DEF Clear, Sound, IsDriver, AtRow, Checking
  <2>4. c.kind \in Kinds /\ c.op = e.op /\ e.phase = QueuedPhase(c.kind)
    BY <2>3 DEF Command, Kinds, QueuedPhase
  <2> HIDE DEF e, c
  <2>5. Leaves(x, e.op, a.db.nextOp, Result(Enqueue(x, e, c), a.db, a.f))
    BY <2>2, <2>3, <2>4, Sends
  <2>6. Leaves(x, x.d.op, a.db.nextOp, Result(x, a.db, a.f))
    BY <2>2, <2>3, Stays
  <2> QED BY <2>1, <2>2, <2>3, <2>5, <2>6
<1> QED BY <1>2, <1>3

LEMMA ResumeAdmissionIs ==
    ASSUME NEW x, IsProcess(x), Sound(x.d), x.d.admission # NoAdmission,
           NEW s, Tables(s), AtRow(x.d, s), NEW r \in ResumeAdmission(x, s)
    PROVE  Leaves(x, x.d.op, s.nextOp, r)
<1> DEFINE a == x.d.admission
<1> DEFINE phase == AwaitingPhase(a.kind)
<1> DEFINE y == [x EXCEPT !.d.admission = NoAdmission, !.d.phase = phase]
<1>1. /\ x.d.phase = "admission_paused" /\ a.kind \in {"post", "wait"} /\ IsDriver(x.d)
      /\ x.d.persistence = NoPersistence /\ ~x.d.policyCheck /\ ~x.d.sourceChanged
  BY DEF Sound, Checking
<1>2. phase \notin Checking
  BY <1>1 DEF AwaitingPhase, Checking
<1>3. r \in IF a.kind = "post" THEN acceptPost(y, s, a.cmd.temp, a.reply)
            ELSE processSubmissionWait(y, s, a.cmd)
  BY DEF ResumeAdmission
<1> HIDE DEF phase
<1>4. /\ IsProcess(y) /\ y.issued = x.issued /\ y.queue = x.queue
      /\ Clear(y.d) /\ y.d.op = x.d.op /\ AtRow(y.d, s) /\ y.d.phase = phase
  BY <1>1 DEF IsProcess, Clear, IsDriver, AtRow
<1> HIDE DEF y
<1>5. Leaves(y, y.d.op, s.nextOp, r)
  BY <1>2, <1>3, <1>4, acceptPostIs, processSubmissionWaitIs
<1> QED BY <1>4, <1>5 DEF Leaves

LEMMA resumeDurableSubmissionIs ==
    ASSUME NEW x, IsProcess(x), Sound(x.d), NEW s, Tables(s), AtRow(x.d, s),
           NEW r \in resumeDurableSubmission(x, s)
    PROVE  Leaves(x, x.d.op, s.nextOp, r) /\ x.d.phase \in PausedPhase
<1> DEFINE byPhase == {"post_retry_paused", "wait_retry_paused", "recovery_check_paused",
                       "duplicate_check_paused", "duplicate_persistence_paused"}
<1> DEFINE e == [x.d EXCEPT !.phase = "recovery_check_queued"]
<1>1. CASE x.d.phase \in {"post_retry_paused", "wait_retry_paused"}
  <2>1. r \in ResumeLaunch(x, s)
    BY <1>1 DEF resumeDurableSubmission
  <2> QED BY <1>1, <2>1, ClearPhases, ResumeLaunchIs DEF PausedPhase
<1>2. CASE x.d.phase = "recovery_check_paused"
  <2> DEFINE c == RecoveryCommand(x.d)
  <2>1. r = Result(Enqueue(x, e, c), s, 0)
    BY <1>2 DEF resumeDurableSubmission
  <2>2. Clear(x.d)
    BY <1>2, ClearPhases
  <2>3. Sound(e) /\ e.op = x.d.op /\ AtRow(e, s) /\ e.phase = "recovery_check_queued"
    BY <2>2, Rephased DEF AtRow, Checking
  <2>4. c.kind \in Kinds /\ c.op = e.op /\ e.phase = QueuedPhase(c.kind)
    BY <2>3 DEF RecoveryCommand, Command, Kinds, QueuedPhase
  <2> HIDE DEF e, c
  <2>5. Leaves(x, e.op, s.nextOp, Result(Enqueue(x, e, c), s, 0))
    BY <2>3, <2>4, Sends
  <2> QED BY <1>2, <2>1, <2>3, <2>5 DEF PausedPhase
<1>3. CASE x.d.phase = "duplicate_check_paused"
  <2>1. r = Result(queueDuplicateCheck(x), s, 0)
    BY <1>3 DEF resumeDurableSubmission
  <2>2. /\ IsDriver(x.d) /\ x.d.admission = NoAdmission /\ x.d.persistence = NoPersistence
        /\ ~x.d.policyCheck
    BY <1>3 DEF Sound, Checking
  <2> QED BY <1>3, <2>1, <2>2, queueDuplicateCheckIs DEF PausedPhase
<1>4. CASE x.d.phase = "duplicate_persistence_paused"
  <2>1. r \in persistDuplicateResolution(x, s)
    BY <1>4 DEF resumeDurableSubmission
  <2>2. Resolving(x.d)
    BY <1>4 DEF Sound, Resolving, Checking
  <2> QED BY <1>4, <2>1, <2>2, persistDuplicateResolutionIs DEF PausedPhase
<1>5. CASE x.d.phase \notin byPhase /\ x.d.admission # NoAdmission
  <2>1. r \in ResumeAdmission(x, s)
    BY <1>5 DEF resumeDurableSubmission
  <2>2. x.d.phase \in PausedPhase
    BY <1>5 DEF Sound, PausedPhase
  <2> QED BY <1>5, <2>1, <2>2, ResumeAdmissionIs
<1>6. CASE x.d.phase \notin byPhase /\ x.d.admission = NoAdmission
             /\ x.d.persistence # NoPersistence
  <2>1. r \in retryPersistence(x, s)
    BY <1>6 DEF resumeDurableSubmission
  <2>2. x.d.phase \in PausedPhase
    BY <1>6 DEF Sound, PausedPhase
  <2> QED BY <1>6, <2>1, <2>2, retryPersistenceIs
<1>7. CASE x.d.phase \notin byPhase /\ x.d.admission = NoAdmission
             /\ x.d.persistence = NoPersistence
  BY <1>7 DEF resumeDurableSubmission
<1> QED BY <1>1, <1>2, <1>3, <1>4, <1>5, <1>6, <1>7

-----------------------------------------------------------------------------
(* The inductive invariant *)

\* Process x has no command of operation op, exactly one in its queue, or
\* exactly one under way.
NoneQueued(x, op) == \A i \in 1..Len(x.queue) : x.queue[i].op # op
NoneIssued(x, op) == \A c \in x.issued : c.op # op
Idle(x, op) == NoneQueued(x, op) /\ NoneIssued(x, op)

Queued(x, op, kind) ==
    /\ NoneIssued(x, op)
    /\ \E i \in 1..Len(x.queue) :
          /\ x.queue[i].op = op /\ x.queue[i].kind = kind
          /\ \A j \in 1..Len(x.queue) : x.queue[j].op = op => j = i

UnderWay(x, op, kind) ==
    /\ NoneQueued(x, op)
    /\ \E c \in x.issued : /\ c.op = op /\ c.kind = kind
                           /\ \A e \in x.issued : e.op = op => e = c

\* The phase tells where the driver's only command is, if it has one.
OneCommand(x) ==
    \/ Idle(x, x.d.op)
    \/ \E kind \in Kinds :
          \/ Queued(x, x.d.op, kind) /\ x.d.phase = QueuedPhase(kind)
          \/ UnderWay(x, x.d.op, kind) /\ x.d.phase \in {QueuedPhase(kind), AwaitingPhase(kind)}

IsCommand(c, n) == c.kind \in Kinds /\ c.op \in Nat /\ c.op # 0 /\ c.op < n

Commands(x, n) ==
    /\ \E S : x.queue \in Seq(S)
    /\ \A i \in 1..Len(x.queue) : IsCommand(x.queue[i], n)
    /\ \A c \in x.issued : IsCommand(c, n)

ProcessOK(x, s) ==
    /\ IsProcess(x) /\ Commands(x, s.nextOp)
    /\ \/ x.d = NoDurable /\ Idle(x, s.run.op)
       \/ Sound(x.d) /\ AtRow(x.d, s) /\ OneCommand(x)

IInv ==
    /\ Tables(db)
    /\ DOMAIN ui = Proc
    /\ \A p \in Proc : ProcessOK(ui[p], db) /\ (ui[p].d # NoDurable => lock = p)

LEMMA SoundIsBusy ==
    ASSUME NEW d, Sound(d)
    PROVE  d # NoDurable /\ d.op \in Nat /\ d.op # 0
  BY DEF Sound, IsDriver, NoDurable

LEMMA OutcomeKept ==
    ASSUME NEW x, NEW op \in Nat, NEW n \in Nat, op # 0, op < n, Commands(x, n), Idle(x, op),
           NEW r, Leaves(x, op, n, r)
    PROVE  ProcessOK(r.x, r.db)
<1> DEFINE y == r.x
<1>1. IsProcess(y) /\ y.issued = x.issued /\ r.db.nextOp = n
  BY DEF Leaves
<1>2. CASE y.d = NoDurable /\ y.queue = x.queue /\ r.db.run.op = 0
  BY <1>1, <1>2 DEF ProcessOK, Commands, IsCommand, Idle, NoneQueued, NoneIssued
<1>3. CASE Sound(y.d) /\ y.d.op = op /\ AtRow(y.d, r.db) /\ y.queue = x.queue
  BY <1>1, <1>3 DEF ProcessOK, Commands, OneCommand, Idle, NoneQueued, NoneIssued
<1>4. CASE /\ Sound(y.d) /\ y.d.op = op /\ AtRow(y.d, r.db)
           /\ \E c : /\ c.kind \in Kinds /\ c.op = op /\ y.d.phase = QueuedPhase(c.kind)
                     /\ y.queue = Append(x.queue, c)
  <2>1. PICK c : /\ c.kind \in Kinds /\ c.op = op /\ y.d.phase = QueuedPhase(c.kind)
                 /\ y.queue = Append(x.queue, c)
    BY <1>4
  <2>2. PICK S : x.queue \in Seq(S)
    BY DEF Commands
  <2>3. x.queue \in Seq(S \cup {c}) /\ y.queue \in Seq(S \cup {c})
    BY <2>1, <2>2
  <2>4. /\ Len(y.queue) = Len(x.queue) + 1 /\ Len(x.queue) \in Nat
        /\ y.queue[Len(y.queue)] = c
        /\ \A i \in 1..Len(x.queue) : y.queue[i] = x.queue[i]
    BY <2>1, <2>3
  <2>5. \A i \in 1..Len(y.queue) : i = Len(y.queue) \/ i \in 1..Len(x.queue)
    BY <2>4
  <2>6. Commands(y, n)
    <3>1. IsCommand(c, n)
      BY <2>1 DEF IsCommand
    <3>2. \A i \in 1..Len(y.queue) : IsCommand(y.queue[i], n)
      BY <2>4, <2>5, <3>1 DEF Commands
    <3> QED BY <1>1, <2>3, <3>2 DEF Commands
  <2>7. Queued(y, op, c.kind)
    <3>1. NoneIssued(y, op)
      BY <1>1 DEF Idle, NoneIssued
    <3>2. Len(y.queue) \in 1..Len(y.queue)
      BY <2>4
    <3>3. \A j \in 1..Len(y.queue) : y.queue[j].op = op => j = Len(y.queue)
      BY <2>4, <2>5 DEF Idle, NoneQueued
    <3> QED BY <2>1, <2>4, <3>1, <3>2, <3>3 DEF Queued
  <2> QED BY <1>1, <1>4, <2>1, <2>6, <2>7 DEF ProcessOK, OneCommand
<1> QED BY <1>2, <1>3, <1>4 DEF Leaves

\* A process that did nothing, when another has moved the tables.
LEMMA Unaffected ==
    ASSUME NEW x, NEW s, Tables(s), ProcessOK(x, s), NEW s1, Tables(s1), s.nextOp <= s1.nextOp,
           \/ s1.run.op = s.run.op /\ s1.run.current = s.run.current
           \/ x.d = NoDurable /\ (s1.run.op \in {0, s.run.op} \/ s.nextOp <= s1.run.op)
    PROVE  ProcessOK(x, s1)
<1>1. IsProcess(x) /\ Commands(x, s1.nextOp)
  BY DEF ProcessOK, Commands, IsCommand, Tables
<1>2. CASE x.d = NoDurable /\ Idle(x, s.run.op)
  <2>1. Idle(x, s1.run.op)
    BY <1>2 DEF ProcessOK, Commands, IsCommand, Tables, Idle, NoneQueued, NoneIssued
  <2> QED BY <1>1, <1>2, <2>1 DEF ProcessOK
<1>3. CASE Sound(x.d) /\ AtRow(x.d, s) /\ OneCommand(x)
  BY <1>1, <1>3, SoundIsBusy DEF ProcessOK, AtRow
<1> QED BY <1>2, <1>3 DEF ProcessOK

\* A command that is consumed leaves the process as sound as it was, and idle
\* if it was the one the driver awaited.
LEMMA ConsumedIs ==
    ASSUME NEW x, NEW s, ProcessOK(x, s), NEW c \in x.issued
    PROVE  /\ ProcessOK(Consumed(x, c), s) /\ Consumed(x, c).d = x.d
           /\ Consumed(x, c).queue = x.queue
           /\ Expected(x, c) => Sound(x.d) /\ Idle(Consumed(x, c), x.d.op)
<1> DEFINE y == Consumed(x, c)
<1>1. /\ IsProcess(y) /\ y.d = x.d /\ y.queue = x.queue /\ y.issued = x.issued \ {c}
  BY DEF Consumed, ProcessOK, IsProcess
<1> HIDE DEF y
<1>2. Commands(y, s.nextOp)
  BY <1>1 DEF ProcessOK, Commands
<1>3. \A op : Idle(x, op) => Idle(y, op)
  BY <1>1 DEF Idle, NoneQueued, NoneIssued
<1>4. \A op : \A kind : Queued(x, op, kind) => Queued(y, op, kind)
  BY <1>1 DEF Queued, NoneIssued
<1>5. \A op : \A kind : UnderWay(x, op, kind) => UnderWay(y, op, kind) \/ Idle(y, op)
  BY <1>1 DEF UnderWay, NoneQueued, Idle, NoneIssued
<1>6. ProcessOK(y, s)
  BY <1>1, <1>2, <1>3, <1>4, <1>5 DEF ProcessOK, OneCommand
<1>7. ASSUME Expected(x, c) PROVE Sound(x.d) /\ Idle(y, x.d.op)
  <2>1. x.d # NoDurable /\ x.d.op = c.op
    BY <1>7 DEF Expected, Concerns
  <2>2. Sound(x.d) /\ OneCommand(x)
    BY <2>1 DEF ProcessOK
  <2>3. ~Idle(x, x.d.op) /\ \A kind : ~Queued(x, x.d.op, kind)
    BY <2>1 DEF Idle, Queued, NoneIssued
  <2>4. PICK kind \in Kinds : UnderWay(x, x.d.op, kind)
    BY <2>2, <2>3 DEF OneCommand
  <2>5. Idle(y, x.d.op)
    BY <1>1, <2>1, <2>4 DEF UnderWay, Idle, NoneQueued, NoneIssued
  <2> QED BY <2>2, <2>5
<1> QED BY <1>1, <1>6, <1>7 DEF y

-----------------------------------------------------------------------------
(* Steps *)

\* Process p becomes x and the tables s; the others are untouched.
LEMMA StepKept ==
    ASSUME IInv, NEW CONSTANT p \in Proc, NEW CONSTANT x, NEW CONSTANT s,
           ui' = [ui EXCEPT ![p] = x], db' = s, Tables(s), db.nextOp <= s.nextOp,
           ProcessOK(x, s), x.d # NoDurable => lock' = p,
           \/ s.run.op = db.run.op /\ s.run.current = db.run.current
           \/ /\ \A q \in Proc \ {p} : ui[q].d = NoDurable
              /\ s.run.op \in {0, db.run.op} \/ db.nextOp <= s.run.op,
           \A q \in Proc \ {p} : ui[q].d # NoDurable => lock' = q
    PROVE  IInv'
<1>1. DOMAIN ui' = Proc /\ Tables(db')
  BY DEF IInv
<1>2. ASSUME NEW q \in Proc
      PROVE  ProcessOK(ui'[q], db') /\ (ui'[q].d # NoDurable => lock' = q)
  <2>1. CASE q = p
    <3>1. ui'[q] = x
      BY <2>1 DEF IInv
    <3> QED BY <2>1, <3>1
  <2>2. CASE q # p
    <3>1. ui'[q] = ui[q]
      BY <2>2
    <3> DEFINE y == ui[q]
    <3>2. ProcessOK(y, db) /\ Tables(db)
      BY DEF IInv
    <3>3. \/ s.run.op = db.run.op /\ s.run.current = db.run.current
          \/ y.d = NoDurable /\ (s.run.op \in {0, db.run.op} \/ db.nextOp <= s.run.op)
      BY <2>2
    <3> HIDE DEF y
    <3>4. ProcessOK(y, s)
      BY <3>2, <3>3, Unaffected
    <3> QED BY <2>2, <3>1, <3>4 DEF y
  <2> QED BY <2>1, <2>2
<1> QED BY <1>1, <1>2 DEF IInv

\* A handler of a busy process p, from x, which has no command of its run left.
LEMMA HandlerKept ==
    ASSUME IInv, NEW CONSTANT p \in Proc, ui[p].d # NoDurable,
           NEW CONSTANT x, Commands(x, db.nextOp), Idle(x, ui[p].d.op),
           NEW CONSTANT r, Leaves(x, ui[p].d.op, db.nextOp, r), Handled(p, r)
    PROVE  IInv'
<1> DEFINE op == ui[p].d.op
<1>1. /\ Sound(ui[p].d) /\ AtRow(ui[p].d, db) /\ lock = p /\ Tables(db)
  BY DEF IInv, ProcessOK
<1>2. op \in Nat /\ op # 0 /\ op = db.run.op /\ db.nextOp \in Nat /\ op < db.nextOp
  BY <1>1, SoundIsBusy DEF AtRow, Tables
<1>3. \A q \in Proc \ {p} : ui[q].d = NoDurable
  BY <1>1 DEF IInv
<1>4. ProcessOK(r.x, r.db)
  <2> HIDE DEF op
  <2>1. Idle(x, op) /\ Leaves(x, op, db.nextOp, r)
    BY DEF op
  <2> QED BY <1>2, <2>1, OutcomeKept
<1>5. /\ Tables(r.db) /\ r.db.nextOp = db.nextOp /\ r.db.run.op \in {0, db.run.op}
  BY <1>2, SoundIsBusy DEF Leaves, AtRow
<1>6. /\ ui' = [ui EXCEPT ![p] = r.x] /\ db' = r.db
      /\ r.x.d # NoDurable => lock' = p
  BY <1>1 DEF Handled
<1>7. db.nextOp <= r.db.nextOp
  BY <1>2, <1>5
<1> QED BY <1>3, <1>4, <1>5, <1>6, <1>7, StepKept

\* A completion that is dropped, and one that is handled.
LEMMA DroppedKept ==
    ASSUME IInv, NEW CONSTANT p \in Proc, NEW CONSTANT c \in ui[p].issued,
           Handled(p, Result(Consumed(ui[p], c), db, 0))
    PROVE  IInv'
<1>1. PICK x : x = Consumed(ui[p], c)
  OBVIOUS
<1>2. PICK s : s = db
  OBVIOUS
<1>3. PICK z : z = ui[p]
  OBVIOUS
<1>4. ProcessOK(x, s) /\ x.d = ui[p].d
  <2>1. ProcessOK(z, s) /\ c \in z.issued
    BY <1>2, <1>3 DEF IInv
  <2>2. ProcessOK(Consumed(z, c), s) /\ Consumed(z, c).d = z.d
    BY <2>1, ConsumedIs
  <2> QED BY <1>1, <1>3, <2>2
<1>5. /\ ui' = [ui EXCEPT ![p] = x] /\ db' = s
      /\ lock' = IF lock = p /\ x.d = NoDurable THEN Free ELSE lock
  BY <1>1, <1>2 DEF Handled, Result
<1>6. Tables(s) /\ db.nextOp <= s.nextOp /\ s.run.op = db.run.op /\ s.run.current = db.run.current
  BY <1>2 DEF IInv, Tables
<1>7. x.d # NoDurable => lock' = p
  BY <1>4, <1>5 DEF IInv
<1>8. \A q \in Proc \ {p} : ui[q].d # NoDurable => lock' = q
  BY <1>5 DEF IInv
<1> QED BY <1>4, <1>5, <1>6, <1>7, <1>8, StepKept

\* What a handler of an expected completion may rely on.
LEMMA Awaited ==
    ASSUME IInv, NEW CONSTANT p \in Proc, NEW CONSTANT c \in ui[p].issued, Expected(ui[p], c),
           NEW CONSTANT x, x = Consumed(ui[p], c), NEW CONSTANT s, s = db
    PROVE  /\ IsProcess(x) /\ x.d = ui[p].d /\ Sound(x.d) /\ AtRow(x.d, s) /\ Tables(s)
           /\ Commands(x, s.nextOp) /\ Idle(x, x.d.op) /\ ui[p].d # NoDurable
           /\ c.kind \in Kinds /\ x.d.phase = AwaitingPhase(c.kind)
<1>1. PICK z : z = ui[p]
  OBVIOUS
<1>2. ProcessOK(z, s) /\ c \in z.issued /\ Expected(z, c) /\ Tables(s)
  BY <1>1 DEF IInv
<1>3. /\ ProcessOK(Consumed(z, c), s) /\ Consumed(z, c).d = z.d
      /\ Sound(z.d) /\ Idle(Consumed(z, c), z.d.op)
  BY <1>2, ConsumedIs
<1>4. /\ ProcessOK(x, s) /\ x.d = z.d /\ Sound(z.d) /\ Idle(x, x.d.op)
  BY <1>1, <1>3
<1>5. z.d # NoDurable
  BY <1>4, SoundIsBusy
<1>6. c.kind \in Kinds
  BY <1>2 DEF ProcessOK, Commands, IsCommand
<1>7. z.d.phase = AwaitingPhase(c.kind)
  BY <1>2 DEF Expected
<1> QED BY <1>1, <1>2, <1>4, <1>5, <1>6, <1>7 DEF ProcessOK

\* The completion is parked when the queue cannot grow.
LEMMA ParkedIs ==
    ASSUME NEW CONSTANT x, IsProcess(x), Clear(x.d), NEW CONSTANT s, s = db, Tables(s),
           AtRow(x.d, s), NEW CONSTANT admission, admission.kind \in {"post", "wait"},
           NEW CONSTANT r, r \in Parked(x, admission)
    PROVE  Leaves(x, x.d.op, s.nextOp, r)
<1> DEFINE y == [x EXCEPT !.d.admission = admission, !.d.phase = "admission_paused"]
<1>1. r = Result(y, s, 1)
  BY DEF Parked
<1>2. /\ IsProcess(y) /\ y.issued = x.issued /\ y.queue = x.queue
      /\ Sound(y.d) /\ y.d.op = x.d.op /\ AtRow(y.d, s)
  BY DEF IsProcess, Clear, Sound, IsDriver, AtRow, Checking
<1> HIDE DEF y
<1> QED BY <1>1, <1>2, Stays

LEMMA PostCompletedKept ==
    ASSUME IInv, NEW CONSTANT p \in Proc, NEW CONSTANT c \in ui[p].issued, PostCompleted(p, c)
    PROVE  IInv'
<1>1. PICK x : x = Consumed(ui[p], c)
  OBVIOUS
<1>2. PICK s : s = db
  OBVIOUS
<1>3. PICK a : Complete(p, c, acceptPost(x, s, c.temp, a.reply)
                         \cup Parked(x, [kind |-> "post", cmd |-> c, reply |-> a.reply]))
  BY <1>1, <1>2 DEF PostCompleted
<1>4. c.kind = "post"
  BY DEF PostCompleted
<1>5. CASE Expected(ui[p], c)
  <2>1. PICK r \in acceptPost(x, s, c.temp, a.reply)
                     \cup Parked(x, [kind |-> "post", cmd |-> c, reply |-> a.reply]) :
            Handled(p, r)
    BY <1>3, <1>5 DEF Complete
  <2>2. /\ IsProcess(x) /\ x.d = ui[p].d /\ Sound(x.d) /\ AtRow(x.d, s) /\ Tables(s)
        /\ Commands(x, s.nextOp) /\ Idle(x, x.d.op) /\ ui[p].d # NoDurable
        /\ x.d.phase = AwaitingPhase(c.kind)
    BY <1>1, <1>2, <1>5, Awaited
  <2>3. Clear(x.d) /\ x.d.phase \notin Checking
    BY <1>4, <2>2, ClearPhases DEF AwaitingPhase
  <2>4. Leaves(x, x.d.op, s.nextOp, r)
    <3>1. CASE r \in acceptPost(x, s, c.temp, a.reply)
      BY <2>2, <2>3, <3>1, acceptPostIs
    <3>2. CASE r \in Parked(x, [kind |-> "post", cmd |-> c, reply |-> a.reply])
      <4> DEFINE admission == [kind |-> "post", cmd |-> c, reply |-> a.reply]
      <4>1. admission.kind \in {"post", "wait"}
        OBVIOUS
      <4> HIDE DEF admission
      <4>2. r \in Parked(x, admission)
        BY <3>2 DEF admission
      <4> QED BY <1>2, <2>2, <2>3, <4>1, <4>2, ParkedIs
    <3> QED BY <2>1, <3>1, <3>2
  <2> QED BY <1>2, <2>1, <2>2, <2>4, HandlerKept
<1>6. CASE ~Expected(ui[p], c)
  BY <1>3, <1>6, DroppedKept DEF Complete
<1> QED BY <1>5, <1>6

LEMMA WaitCompletedKept ==
    ASSUME IInv, NEW CONSTANT p \in Proc, NEW CONSTANT c \in ui[p].issued, WaitCompleted(p, c)
    PROVE  IInv'
<1>1. PICK x : x = Consumed(ui[p], c)
  OBVIOUS
<1>2. PICK s : s = db
  OBVIOUS
<1>3. /\ c.kind = "wait"
      /\ Complete(p, c, processSubmissionWait(x, s, c)
                          \cup Parked(x, [kind |-> "wait", cmd |-> c]))
  BY <1>1, <1>2 DEF WaitCompleted
<1>4. CASE Expected(ui[p], c)
  <2>1. PICK r \in processSubmissionWait(x, s, c) \cup Parked(x, [kind |-> "wait", cmd |-> c]) :
            Handled(p, r)
    BY <1>3, <1>4 DEF Complete
  <2>2. /\ IsProcess(x) /\ x.d = ui[p].d /\ Sound(x.d) /\ AtRow(x.d, s) /\ Tables(s)
        /\ Commands(x, s.nextOp) /\ Idle(x, x.d.op) /\ ui[p].d # NoDurable
        /\ x.d.phase = AwaitingPhase(c.kind)
    BY <1>1, <1>2, <1>4, Awaited
  <2>3. Clear(x.d)
    BY <1>3, <2>2, ClearPhases DEF AwaitingPhase
  <2>4. Leaves(x, x.d.op, s.nextOp, r)
    <3>1. CASE r \in processSubmissionWait(x, s, c)
      BY <2>2, <2>3, <3>1, processSubmissionWaitIs
    <3>2. CASE r \in Parked(x, [kind |-> "wait", cmd |-> c])
      <4> DEFINE admission == [kind |-> "wait", cmd |-> c]
      <4>1. admission.kind \in {"post", "wait"}
        OBVIOUS
      <4> HIDE DEF admission
      <4>2. r \in Parked(x, admission)
        BY <3>2 DEF admission
      <4> QED BY <1>2, <2>2, <2>3, <4>1, <4>2, ParkedIs
    <3> QED BY <2>1, <3>1, <3>2
  <2> QED BY <1>2, <2>1, <2>2, <2>4, HandlerKept
<1>5. CASE ~Expected(ui[p], c)
  BY <1>3, <1>5, DroppedKept DEF Complete
<1> QED BY <1>4, <1>5

LEMMA LaunchFailedKept ==
    ASSUME IInv, NEW CONSTANT p \in Proc, NEW CONSTANT c \in ui[p].issued, LaunchFailed(p, c)
    PROVE  IInv'
<1>1. PICK x : x = Consumed(ui[p], c)
  OBVIOUS
<1>2. PICK s : s = db
  OBVIOUS
<1> DEFINE phase == IF c.kind = "post" THEN "post_retry_paused" ELSE "wait_retry_paused"
<1> DEFINE y == [x EXCEPT !.d.phase = phase, !.d.wait = c.retry]
<1>3. c.kind \in {"post", "wait"} /\ Complete(p, c, {Result(y, s, 1)})
  BY <1>1, <1>2 DEF LaunchFailed
<1>4. CASE Expected(ui[p], c)
  <2>1. Handled(p, Result(y, s, 1))
    BY <1>3, <1>4 DEF Complete
  <2>2. /\ IsProcess(x) /\ x.d = ui[p].d /\ Sound(x.d) /\ AtRow(x.d, s) /\ Tables(s)
        /\ Commands(x, s.nextOp) /\ Idle(x, x.d.op) /\ ui[p].d # NoDurable
        /\ x.d.phase = AwaitingPhase(c.kind)
    BY <1>1, <1>2, <1>4, Awaited
  <2>3. Clear(x.d)
    BY <1>3, <2>2, ClearPhases DEF AwaitingPhase
  <2>4. phase \notin Checking
    BY DEF Checking
  <2> HIDE DEF phase
  <2>5. /\ IsProcess(y) /\ y.issued = x.issued /\ y.queue = x.queue
        /\ Sound(y.d) /\ y.d.op = x.d.op /\ AtRow(y.d, s)
    BY <2>2, <2>3, <2>4 DEF IsProcess, Clear, Sound, IsDriver, AtRow
  <2> HIDE DEF y
  <2>6. Leaves(x, x.d.op, s.nextOp, Result(y, s, 1))
    BY <2>2, <2>5, Stays
  <2>7. PICK r : r = Result(y, s, 1)
    OBVIOUS
  <2> QED BY <1>2, <2>1, <2>2, <2>6, <2>7, HandlerKept
<1>5. CASE ~Expected(ui[p], c)
  BY <1>3, <1>5, DroppedKept DEF Complete
<1> QED BY <1>4, <1>5

LEMMA RecoveryCheckedKept ==
    ASSUME IInv, NEW CONSTANT p \in Proc, NEW CONSTANT c \in ui[p].issued,
           NEW CONSTANT observed, RecoveryChecked(p, c, observed)
    PROVE  IInv'
<1>1. PICK x : x = Consumed(ui[p], c)
  OBVIOUS
<1>2. PICK s : s = db
  OBVIOUS
<1>3. c.kind = "check_recovery" /\ Complete(p, c, acceptRecoveryCheck(x, s, observed))
  BY <1>1, <1>2 DEF RecoveryChecked
<1>4. CASE Expected(ui[p], c)
  <2>1. PICK r \in acceptRecoveryCheck(x, s, observed) : Handled(p, r)
    BY <1>3, <1>4 DEF Complete
  <2>2. /\ IsProcess(x) /\ x.d = ui[p].d /\ Sound(x.d) /\ AtRow(x.d, s) /\ Tables(s)
        /\ Commands(x, s.nextOp) /\ Idle(x, x.d.op) /\ ui[p].d # NoDurable
        /\ x.d.phase = AwaitingPhase(c.kind)
    BY <1>1, <1>2, <1>4, Awaited
  <2>3. Clear(x.d)
    BY <1>3, <2>2, ClearPhases DEF AwaitingPhase
  <2>4. Leaves(x, x.d.op, s.nextOp, r)
    BY <2>1, <2>2, <2>3, acceptRecoveryCheckIs
  <2> QED BY <1>2, <2>1, <2>2, <2>4, HandlerKept
<1>5. CASE ~Expected(ui[p], c)
  BY <1>3, <1>5, DroppedKept DEF Complete
<1> QED BY <1>4, <1>5

LEMMA DuplicateCheckedKept ==
    ASSUME IInv, NEW CONSTANT p \in Proc, NEW CONSTANT c \in ui[p].issued,
           NEW CONSTANT reply, DuplicateChecked(p, c, reply)
    PROVE  IInv'
<1>1. PICK x : x = Consumed(ui[p], c)
  OBVIOUS
<1>2. PICK s : s = db
  OBVIOUS
<1>3. c.kind = "find_duplicate" /\ Complete(p, c, acceptDuplicateCheck(x, s, c.temp, reply))
  BY <1>1, <1>2 DEF DuplicateChecked
<1>4. CASE Expected(ui[p], c)
  <2>1. PICK r \in acceptDuplicateCheck(x, s, c.temp, reply) : Handled(p, r)
    BY <1>3, <1>4 DEF Complete
  <2>2. /\ IsProcess(x) /\ x.d = ui[p].d /\ Sound(x.d) /\ AtRow(x.d, s) /\ Tables(s)
        /\ Commands(x, s.nextOp) /\ Idle(x, x.d.op) /\ ui[p].d # NoDurable
        /\ x.d.phase = AwaitingPhase(c.kind)
    BY <1>1, <1>2, <1>4, Awaited
  <2>3. x.d.phase = "awaiting_duplicate"
    BY <1>3, <2>2 DEF AwaitingPhase
  <2>4. Leaves(x, x.d.op, s.nextOp, r)
    BY <2>1, <2>2, <2>3, acceptDuplicateCheckIs
  <2> QED BY <1>2, <2>1, <2>2, <2>4, HandlerKept
<1>5. CASE ~Expected(ui[p], c)
  BY <1>3, <1>5, DroppedKept DEF Complete
<1> QED BY <1>4, <1>5

LEMMA CompletionKept ==
    ASSUME IInv, NEW CONSTANT p \in Proc, Completion(p)
    PROVE  IInv'
<1>1. PICK c \in ui[p].issued :
          \/ PostCompleted(p, c) \/ WaitCompleted(p, c) \/ LaunchFailed(p, c)
          \/ \E observed \in {head} \cup {NoSource : e \in CheckErrors} :
               RecoveryChecked(p, c, observed)
          \/ c.kind = "find_duplicate" /\ \E reply \in findExisting(comments, c.draft, c.parent) :
               DuplicateChecked(p, c, reply)
  BY DEF Completion
<1>2. \/ PostCompleted(p, c) \/ WaitCompleted(p, c) \/ LaunchFailed(p, c)
      \/ \E observed : RecoveryChecked(p, c, observed)
      \/ \E reply : DuplicateChecked(p, c, reply)
  BY <1>1
<1> QED BY <1>2, PostCompletedKept, WaitCompletedKept, LaunchFailedKept, RecoveryCheckedKept,
           DuplicateCheckedKept

LEMMA PausedIsIdle ==
    ASSUME NEW x, OneCommand(x), x.d.phase \in PausedPhase
    PROVE  Idle(x, x.d.op)
  BY DEF OneCommand, PausedPhase, Kinds, QueuedPhase, AwaitingPhase

LEMMA ResumeKept ==
    ASSUME IInv, NEW CONSTANT p \in Proc, Resume(p)
    PROVE  IInv'
<1>1. PICK x : x = ui[p]
  OBVIOUS
<1>2. PICK s : s = db
  OBVIOUS
<1>3. x.d # NoDurable /\ \E r \in resumeDurableSubmission(x, s) : Handled(p, r)
  BY <1>1, <1>2 DEF Resume
<1>4. PICK r \in resumeDurableSubmission(x, s) : Handled(p, r)
  BY <1>3
<1>5. Tables(s) /\ ProcessOK(x, s)
  BY <1>1, <1>2 DEF IInv
<1>6. /\ IsProcess(x) /\ Sound(x.d) /\ AtRow(x.d, s) /\ OneCommand(x) /\ Commands(x, s.nextOp)
  BY <1>3, <1>5 DEF ProcessOK
<1>7. Leaves(x, x.d.op, s.nextOp, r) /\ x.d.phase \in PausedPhase
  BY <1>4, <1>5, <1>6, resumeDurableSubmissionIs
<1>8. Idle(x, x.d.op)
  BY <1>6, <1>7, PausedIsIdle
<1> QED BY <1>1, <1>2, <1>3, <1>4, <1>6, <1>7, <1>8, HandlerKept

\* The lock of the others does not change while they are busy.
LEMMA OthersKeepLock ==
    ASSUME IInv, NEW CONSTANT p \in Proc, lock' = lock \/ lock = p
    PROVE  \A q \in Proc \ {p} : ui[q].d # NoDurable => lock' = q
  BY DEF IInv

\* A step of process p that leaves the tables alone.
LEMMA LocalKept ==
    ASSUME IInv, NEW CONSTANT p \in Proc, NEW CONSTANT x, NEW CONSTANT s, s = db,
           ui' = [ui EXCEPT ![p] = x], db' = db, ProcessOK(x, s),
           lock' = lock \/ lock = p, x.d # NoDurable => lock' = p
    PROVE  IInv'
<1>1. Tables(s) /\ db.nextOp <= s.nextOp /\ s.run.op = db.run.op /\ s.run.current = db.run.current
  BY DEF IInv, Tables
<1>2. \A q \in Proc \ {p} : ui[q].d # NoDurable => lock' = q
  BY OthersKeepLock
<1> QED BY <1>1, <1>2, StepKept

\* A process that changes nothing but fields its commands and driver do not use.
LEMMA SameProcess ==
    ASSUME NEW x, NEW s, ProcessOK(x, s), NEW y, IsProcess(y), y.d = x.d, y.queue = x.queue,
           y.issued = x.issued
    PROVE  ProcessOK(y, s)
  BY DEF ProcessOK, Commands, OneCommand, Idle, Queued, UnderWay, NoneQueued, NoneIssued

\* The process after takeCommand.
Taken(x) ==
    LET c == Head(x.queue)
        taken == [x EXCEPT !.queue = Tail(@), !.issued = @ \cup {c}]
    IN  IF Concerns(x.d, c) /\ x.d.phase = QueuedPhase(c.kind)
        THEN [taken EXCEPT !.d.phase = AwaitingPhase(c.kind)] ELSE taken

LEMMA TakenIs ==
    ASSUME NEW x, NEW s, ProcessOK(x, s), x.queue # <<>>
    PROVE  ProcessOK(Taken(x), s) /\ (Taken(x).d # NoDurable => x.d # NoDurable)
<1>a. PICK c : c = Head(x.queue)
  OBVIOUS
<1>b. PICK taken : taken = [x EXCEPT !.queue = Tail(@), !.issued = @ \cup {c}]
  OBVIOUS
<1>c. PICK y : y = Taken(x)
  OBVIOUS
<1>d. y = IF Concerns(x.d, c) /\ x.d.phase = QueuedPhase(c.kind)
          THEN [taken EXCEPT !.d.phase = AwaitingPhase(c.kind)] ELSE taken
  BY <1>a, <1>b, <1>c DEF Taken
<1> SUFFICES ProcessOK(y, s) /\ (y.d # NoDurable => x.d # NoDurable)
  BY <1>c
<1> DEFINE n == s.nextOp
<1> DEFINE q == x.queue
<1>1. IsProcess(x) /\ Commands(x, n)
  BY DEF ProcessOK
<1>2. PICK S : q \in Seq(S)
  BY <1>1 DEF Commands
<1>3. /\ c = q[1] /\ Len(q) \in Nat /\ 1 \in 1..Len(q) /\ Len(Tail(q)) = Len(q) - 1
      /\ Tail(q) \in Seq(S) /\ \A i \in 1..Len(Tail(q)) : Tail(q)[i] = q[i + 1]
  BY <1>2, <1>a
<1>4. /\ IsProcess(taken) /\ taken.queue = Tail(q) /\ taken.issued = x.issued \cup {c}
      /\ taken.d = x.d
  BY <1>1, <1>b DEF IsProcess
<1>5. IsCommand(c, n)
  BY <1>1, <1>3 DEF Commands
<1>6. \A i \in 1..Len(Tail(q)) : i + 1 \in 1..Len(q)
  BY <1>3
<1>7. Commands(taken, n)
  <2>1. \A i \in 1..Len(taken.queue) : IsCommand(taken.queue[i], n)
    BY <1>1, <1>3, <1>4, <1>6 DEF Commands
  <2>2. \A e \in taken.issued : IsCommand(e, n)
    BY <1>1, <1>4, <1>5 DEF Commands
  <2> QED BY <1>3, <1>4, <2>1, <2>2 DEF Commands
<1>8. ASSUME NEW op, Idle(x, op) PROVE Idle(taken, op)
  <2>1. NoneQueued(taken, op)
    BY <1>3, <1>4, <1>6, <1>8 DEF Idle, NoneQueued
  <2>2. NoneIssued(taken, op)
    BY <1>3, <1>4, <1>8 DEF Idle, NoneQueued, NoneIssued
  <2> QED BY <2>1, <2>2 DEF Idle
<1>9. CASE x.d = NoDurable /\ Idle(x, s.run.op)
  <2>1. y = taken
    BY <1>9, <1>d DEF Concerns
  <2> QED BY <1>4, <1>7, <1>8, <1>9, <2>1 DEF ProcessOK
<1>10. CASE Sound(x.d) /\ AtRow(x.d, s) /\ OneCommand(x)
  <2> DEFINE op == x.d.op
  <2>1. x.d # NoDurable
    BY <1>10, SoundIsBusy
  <2>2. CASE Idle(x, op)
    <3>1. c.op # op
      BY <1>3, <2>2 DEF Idle, NoneQueued
    <3>2. y = taken
      BY <3>1, <1>d DEF Concerns
    <3> QED BY <1>4, <1>7, <1>8, <1>10, <2>1, <2>2, <3>2 DEF ProcessOK, OneCommand
  <2>3. ASSUME NEW kind \in Kinds, Queued(x, op, kind), x.d.phase = QueuedPhase(kind)
        PROVE  ProcessOK(y, s)
    <3>1. PICK i \in 1..Len(q) : /\ q[i].op = op /\ q[i].kind = kind
                                 /\ \A j \in 1..Len(q) : q[j].op = op => j = i
      BY <2>3 DEF Queued
    <3>2. CASE c.op = op
      <4>1. i = 1 /\ c.kind = kind
        BY <1>3, <3>1, <3>2
      <4>2. UnderWay(taken, op, kind)
        <5>1. NoneQueued(taken, op)
          BY <1>3, <1>4, <1>6, <3>1, <4>1 DEF NoneQueued
        <5>2. \A e \in taken.issued : e.op = op => e = c
          BY <1>4, <2>3 DEF Queued, NoneIssued
        <5> QED BY <1>4, <3>2, <4>1, <5>1, <5>2 DEF UnderWay
      <4>3. CASE y = taken
        BY <1>4, <1>7, <1>10, <2>3, <4>2, <4>3 DEF ProcessOK, OneCommand
      <4>4. CASE y = [taken EXCEPT !.d.phase = AwaitingPhase(c.kind)]
        <5>1. /\ IsProcess(y) /\ y.queue = taken.queue /\ y.issued = taken.issued
              /\ y.d = [x.d EXCEPT !.phase = AwaitingPhase(kind)]
          BY <1>4, <4>1, <4>4 DEF IsProcess
        <5>2. /\ Sound(y.d) /\ y.d.op = op /\ AtRow(y.d, s) /\ y.d.phase = AwaitingPhase(kind)
          <6>1. /\ kind = "find_duplicate" <=> x.d.phase \in Checking
                /\ kind = "find_duplicate" <=> AwaitingPhase(kind) \in Checking
                /\ x.d.phase \notin PausedPhase
            BY <2>3 DEF Kinds, QueuedPhase, AwaitingPhase, Checking, PausedPhase
          <6> DEFINE phase == AwaitingPhase(kind)
          <6> HIDE DEF phase
          <6>2. y.d = [x.d EXCEPT !.phase = phase] /\ (phase \in Checking <=> x.d.phase \in Checking)
            BY <5>1, <6>1 DEF phase
          <6>3. /\ IsDriver(x.d) /\ x.d.admission = NoAdmission /\ x.d.persistence = NoPersistence
                /\ x.d.sourceChanged => x.d.phase \in Checking
                /\ x.d.policyCheck => x.d.phase \in Checking /\ ~x.d.sourceChanged
                /\ x.d.phase \in Checking => ~x.d.m.aborted
            BY <1>10, <6>1 DEF Sound, PausedPhase
          <6>4. /\ IsDriver(y.d) /\ y.d.admission = NoAdmission /\ y.d.persistence = NoPersistence
                /\ y.d.sourceChanged = x.d.sourceChanged /\ y.d.policyCheck = x.d.policyCheck
                /\ y.d.m = x.d.m /\ y.d.phase = phase /\ y.d.op = x.d.op
                /\ y.d.current = x.d.current
            BY <6>2, <6>3 DEF IsDriver
          <6>5. Sound(y.d)
            BY <6>2, <6>3, <6>4 DEF Sound
          <6> QED BY <1>10, <6>4, <6>5 DEF AtRow, phase
        <5>3. UnderWay(y, op, kind) /\ Commands(y, n)
          BY <1>7, <4>2, <5>1 DEF UnderWay, NoneQueued, Commands
        <5> QED BY <2>3, <5>1, <5>2, <5>3 DEF ProcessOK, OneCommand
      <4> QED BY <4>3, <4>4, <1>d
    <3>3. CASE c.op # op
      <4>1. y = taken
        BY <3>3, <1>d DEF Concerns
      <4>2. i - 1 \in 1..Len(Tail(q)) /\ i # 1
        BY <1>3, <3>1, <3>3
      <4>3. Tail(q)[i - 1] = q[i]
        BY <1>3, <4>2
      <4>4. \A j \in 1..Len(Tail(q)) : Tail(q)[j].op = op => j = i - 1
        BY <1>3, <1>6, <3>1
      <4>5. NoneIssued(taken, op)
        BY <1>4, <2>3, <3>3 DEF Queued, NoneIssued
      <4>6. Queued(taken, op, kind)
        BY <1>4, <3>1, <4>2, <4>3, <4>4, <4>5 DEF Queued
      <4> QED BY <1>4, <1>7, <1>10, <2>3, <4>1, <4>6 DEF ProcessOK, OneCommand
    <3> QED BY <3>2, <3>3
  <2>4. ASSUME NEW kind \in Kinds, UnderWay(x, op, kind),
               x.d.phase \in {QueuedPhase(kind), AwaitingPhase(kind)}
        PROVE  ProcessOK(y, s)
    <3>1. c.op # op
      BY <1>3, <2>4 DEF UnderWay, NoneQueued
    <3>2. y = taken
      BY <3>1, <1>d DEF Concerns
    <3>3. NoneQueued(taken, op)
      BY <1>3, <1>4, <1>6, <2>4 DEF UnderWay, NoneQueued
    <3>4. UnderWay(taken, op, kind)
      BY <1>4, <2>4, <3>1, <3>3 DEF UnderWay
    <3> QED BY <1>4, <1>7, <1>10, <2>4, <3>2, <3>4 DEF ProcessOK, OneCommand
  <2>5. ProcessOK(y, s)
    BY <1>10, <2>2, <2>3, <2>4 DEF OneCommand
  <2> QED BY <2>1, <2>5
<1> QED BY <1>9, <1>10 DEF ProcessOK

LEMMA TakeCommandKept ==
    ASSUME IInv, NEW CONSTANT p \in Proc, TakeCommand(p)
    PROVE  IInv'
<1>1. PICK x : x = ui[p]
  OBVIOUS
<1>2. PICK s : s = db
  OBVIOUS
<1>3. PICK y : y = Taken(x)
  OBVIOUS
<1>4. x.queue # <<>> /\ ui' = [ui EXCEPT ![p] = y] /\ db' = db /\ lock' = lock
  BY <1>1, <1>3 DEF TakeCommand, Taken
<1>5. ProcessOK(x, s) /\ (x.d # NoDurable => lock = p)
  BY <1>1, <1>2 DEF IInv
<1>6. ProcessOK(y, s) /\ (y.d # NoDurable => x.d # NoDurable)
  BY <1>3, <1>4, <1>5, TakenIs
<1> QED BY <1>2, <1>4, <1>5, <1>6, LocalKept

LEMMA AbandonedIs ==
    ASSUME NEW x, NEW n, Commands(x, n), NEW op, NEW left,
           left = Kept(x.queue, {c \in Members(x.queue) : c.op # op})
    PROVE  /\ \E S : left \in Seq(S)
           /\ \A i \in 1..Len(left) : IsCommand(left[i], n)
<1>1. PICK q : q = x.queue
  OBVIOUS
<1>2. PICK W : W = {c \in Members(q) : c.op # op}
  OBVIOUS
<1>3. PICK S : q \in Seq(S)
  BY <1>1 DEF Commands
<1>4. Kept(q, W) \in Seq(S) /\ Members(Kept(q, W)) = Members(q) \cap W
  BY <1>3, KeptIs
<1>5. left = Kept(q, W)
  BY <1>1, <1>2
<1>6. left \in Seq(S) /\ Members(left) = Members(q) \cap W
  BY <1>4, <1>5
<1>7. ASSUME NEW i \in 1..Len(left) PROVE IsCommand(left[i], n)
  <2>1. left[i] \in Members(q)
    BY <1>6 DEF Members
  <2>2. PICK j \in 1..Len(q) : left[i] = q[j]
    BY <2>1 DEF Members
  <2> QED BY <1>1, <2>2 DEF Commands
<1> QED BY <1>6, <1>7

LEMMA AbandonRecoveredKept ==
    ASSUME IInv, NEW CONSTANT p \in Proc, AbandonRecovered(p)
    PROVE  IInv'
<1>1. PICK x : x = ui[p]
  OBVIOUS
<1>2. PICK s : s = db
  OBVIOUS
<1>3. PICK left : left = Kept(x.queue, {c \in Members(x.queue) : c.op # x.d.op})
  OBVIOUS
<1>4. PICK after : after = Store!AbandonSubmission(s)
  OBVIOUS
<1> DEFINE y == [destroy(x) EXCEPT !.queue = left]
<1>5. x.d # NoDurable
  BY <1>1 DEF AbandonRecovered
<1>6. PICK r \in Attempt(Store!AbandonSubmissionOk(s, x.d.op), s, after) :
          Handled(p, Result(IF r.done THEN y ELSE x, r.db, r.f))
  BY <1>1, <1>2, <1>3, <1>4 DEF AbandonRecovered
<1>7. (r.done /\ r.db = after) \/ (~r.done /\ r.db = s)
  BY <1>6 DEF Attempt
<1>8. /\ ProcessOK(x, s) /\ Tables(s) /\ lock = p /\ \A q \in Proc \ {p} : ui[q].d = NoDurable
  BY <1>1, <1>2, <1>5 DEF IInv
<1>9. Tables(after) /\ after.nextOp = s.nextOp /\ after.run.op = 0
  <2>1. PICK run, t, st, review : /\ run = NoRun /\ t = s.run.current /\ st = Unknown
                                  /\ review = s.drafts
    OBVIOUS
  <2>2. PICK rows : rows = [review EXCEPT ![t] = WithState(@, st)]
    OBVIOUS
  <2>3. after = [s EXCEPT !.drafts = rows, !.run = run]
    <3>1. after = [s EXCEPT !.drafts[t] = WithState(@, st), !.run = run]
      BY <1>4, <2>1, StoreWords DEF Store!AbandonSubmission, Store!WithState, WithState
    <3> QED BY <1>8, <2>1, <2>2, <3>1 DEF Tables
  <2>4. Rows(rows)
    BY <1>8, <2>1, <2>2, RowsKept DEF Tables
  <2>5. /\ DOMAIN after = DOMAIN s /\ after.drafts = rows /\ after.run = NoRun
        /\ after.nextOp = s.nextOp
    BY <1>8, <2>1, <2>3 DEF Tables
  <2> QED BY <1>8, <2>4, <2>5, RestoredIs
<1>10. IsProcess(y) /\ y.d = NoDurable /\ y.queue = left /\ y.issued = x.issued
  BY <1>8 DEF ProcessOK, IsProcess, destroy
<1>11. db.nextOp <= s.nextOp
  BY <1>2, <1>8 DEF Tables
<1>12. CASE r.done
  <2>1. PICK z : z = y
    OBVIOUS
  <2>2. ui' = [ui EXCEPT ![p] = z] /\ db' = after
    BY <1>6, <1>7, <1>12, <2>1 DEF Handled, Result
  <2>3. Commands(x, s.nextOp)
    BY <1>8 DEF ProcessOK
  <2>4. (\E S : left \in Seq(S)) /\ \A i \in 1..Len(left) : IsCommand(left[i], s.nextOp)
    BY <1>3, <2>3, AbandonedIs
  <2> HIDE DEF y
  <2>5. Commands(z, after.nextOp)
    BY <1>9, <1>10, <2>1, <2>3, <2>4 DEF Commands
  <2>6. Idle(z, 0)
    BY <2>5 DEF Commands, IsCommand, Idle, NoneQueued, NoneIssued
  <2>7. ProcessOK(z, after) /\ z.d = NoDurable
    BY <1>9, <1>10, <2>1, <2>5, <2>6 DEF ProcessOK
  <2> QED BY <1>2, <1>8, <1>9, <1>11, <2>2, <2>7, StepKept
<1>13. CASE ~r.done
  <2>1. ui' = [ui EXCEPT ![p] = x] /\ db' = s /\ lock' = lock
    BY <1>5, <1>6, <1>7, <1>8, <1>13 DEF Handled, Result
  <2> QED BY <1>2, <1>8, <2>1, LocalKept
<1> QED BY <1>12, <1>13

LEMMA DownIs ==
    ASSUME NEW s, Tables(s), NEW x, IsProcess(x), x.d = NoDurable, x.queue = <<>>, x.issued = {}
    PROVE  ProcessOK(x, s)
<1>1. x.queue \in Seq({}) /\ Len(x.queue) = 0
  OBVIOUS
<1>2. 1..Len(x.queue) = {}
  BY <1>1
<1> QED BY <1>1, <1>2 DEF ProcessOK, Commands, Idle, NoneQueued, NoneIssued

LEMMA DownIsProcess ==
    /\ IsProcess(Down) /\ Down.d = NoDurable /\ Down.queue = <<>> /\ Down.issued = {}
  BY DEF Down, IsProcess

LEMMA LaunchKept ==
    ASSUME IInv, NEW CONSTANT p \in Proc, Launch(p)
    PROVE  IInv'
<1>1. PICK x : x = [Down EXCEPT !.up = TRUE, !.loaded = head, !.notice = discoverRecovery]
  OBVIOUS
<1>2. PICK s : s = db
  OBVIOUS
<1>3. IsProcess(x) /\ x.d = NoDurable /\ x.queue = <<>> /\ x.issued = {}
  BY <1>1, DownIsProcess DEF IsProcess
<1>4. ui' = [ui EXCEPT ![p] = x] /\ db' = db /\ lock' = lock
  BY <1>1 DEF Launch
<1>5. Tables(s)
  BY <1>2 DEF IInv
<1>6. ProcessOK(x, s)
  BY <1>3, <1>5, DownIs
<1> QED BY <1>2, <1>3, <1>4, <1>6, LocalKept

LEMMA CrashKept ==
    ASSUME IInv, NEW CONSTANT p \in Proc, Crash(p)
    PROVE  IInv'
<1>1. PICK x : x = Down
  OBVIOUS
<1>2. PICK s : s = db
  OBVIOUS
<1>3. ui' = [ui EXCEPT ![p] = x] /\ db' = db /\ (lock' = lock \/ lock = p)
  BY <1>1 DEF Crash
<1>4. Tables(s)
  BY <1>2 DEF IInv
<1>5. ProcessOK(x, s) /\ x.d = NoDurable
  BY <1>1, <1>4, DownIs, DownIsProcess
<1> QED BY <1>2, <1>3, <1>5, LocalKept

LEMMA ReloadKept ==
    ASSUME IInv, NEW CONSTANT p \in Proc, Reload(p)
    PROVE  IInv'
<1>1. PICK x : x = ui[p]
  OBVIOUS
<1>2. PICK s : s = db
  OBVIOUS
<1>3. PICK y : y = [x EXCEPT !.loaded = head, !.gate = IF @ = "off" THEN @ ELSE "reloaded"]
  OBVIOUS
<1>4. ProcessOK(x, s) /\ (x.d # NoDurable => lock = p) /\ p \in DOMAIN ui
  BY <1>1, <1>2 DEF IInv
<1>5. ui' = [ui EXCEPT ![p] = y] /\ db' = db /\ lock' = lock
  BY <1>1, <1>3, <1>4 DEF Reload
<1>6. IsProcess(y) /\ y.d = x.d /\ y.queue = x.queue /\ y.issued = x.issued
  BY <1>3, <1>4 DEF ProcessOK, IsProcess
<1>7. ProcessOK(y, s)
  BY <1>4, <1>6, SameProcess
<1> QED BY <1>2, <1>4, <1>5, <1>6, <1>7, LocalKept

\* A step that moves the tables only, and not the run or its item.
LEMMA TablesKept ==
    ASSUME IInv, ui' = ui, lock' = lock, NEW CONSTANT s, db' = s, Tables(s),
           db.nextOp <= s.nextOp,
           \/ s.run.op = db.run.op /\ s.run.current = db.run.current
           \/ (\A q \in Proc : ui[q].d = NoDurable) /\ db.nextOp <= s.run.op
    PROVE  IInv'
<1>1. PICK s0 : s0 = db
  OBVIOUS
<1>2. Tables(s0)
  BY <1>1 DEF IInv
<1>3. ASSUME NEW CONSTANT q \in Proc PROVE ProcessOK(ui[q], s)
  <2>1. PICK x : x = ui[q]
    OBVIOUS
  <2>2. ProcessOK(x, s0)
    BY <1>1, <2>1 DEF IInv
  <2>3. ProcessOK(x, s)
    BY <1>1, <1>2, <2>1, <2>2, Unaffected
  <2> QED BY <2>1, <2>3
<1> QED BY <1>3 DEF IInv

LEMMA ResolveUnknownKept ==
    ASSUME IInv, NEW CONSTANT p \in Proc, NEW CONSTANT t, ResolveUnknown(p, t)
    PROVE  IInv'
<1>1. PICK resolution : db' = Store!ResolveUnknown(db, t, resolution)
  BY DEF ResolveUnknown
<1>2. PICK s0 : s0 = db
  OBVIOUS
<1>3. PICK s : s = Store!ResolveUnknown(s0, t, resolution)
  OBVIOUS
<1>4. Tables(s0)
  BY <1>2 DEF IInv
<1>5. Tables(s) /\ s.nextOp = s0.nextOp /\ s.run = s0.run
  <2>1. PICK review, rows : /\ review = s0.drafts
                            /\ rows = [review EXCEPT ![t] = WithState(@, resolution)]
    OBVIOUS
  <2>2. s = [s0 EXCEPT !.drafts = rows]
    BY <1>3, <1>4, <2>1 DEF Store!ResolveUnknown, Store!WithState, WithState, Tables
  <2>3. Rows(rows)
    BY <1>4, <2>1, RowsKept DEF Tables
  <2> QED BY <1>4, <2>2, <2>3 DEF Tables
<1>6. ui' = ui /\ lock' = lock /\ db' = s
  BY <1>1, <1>2, <1>3 DEF ResolveUnknown
<1>7. db.nextOp <= s.nextOp
  BY <1>2, <1>4, <1>5 DEF Tables
<1> QED BY <1>2, <1>5, <1>6, <1>7, TablesKept

\* The driver DurableSubmission.create makes.
LEMMA createIs ==
    ASSUME NEW review, NEW m, "aborted" \in DOMAIN m, NEW op \in Nat, op # 0,
           NEW current, NEW source, NEW recovered
    PROVE  LET d == create(review, m, op, current, source, recovered)
           IN  /\ Clear(d) /\ d.phase = "recovery_check_queued"
               /\ d.op = op /\ d.current = current
  BY DEF create, Clear, IsDriver

LEMMA RecoveryCommandIs ==
    ASSUME NEW d
    PROVE  /\ RecoveryCommand(d).kind \in Kinds /\ RecoveryCommand(d).op = d.op
           /\ QueuedPhase(RecoveryCommand(d).kind) = "recovery_check_queued"
  BY DEF RecoveryCommand, Command, Kinds, QueuedPhase

\* With the lock free nobody drives a run.
LEMMA NobodyBusy ==
    ASSUME IInv, lock = Free
    PROVE  \A q \in Proc : ui[q].d = NoDurable
  BY EnvironmentAssumption DEF IInv

\* Process p claims the run of s with driver d and asks for the source check.
LEMMA ClaimedKept ==
    ASSUME IInv, lock = Free, NEW CONSTANT p \in Proc,
           NEW CONSTANT y, IsProcess(y), y.queue = ui[p].queue, y.issued = ui[p].issued,
           NEW CONSTANT d, Clear(d), d.phase = "recovery_check_queued",
           NEW CONSTANT s, Tables(s), AtRow(d, s), db.nextOp <= s.nextOp,
           s.run.op = db.run.op \/ db.nextOp <= s.run.op,
           ui' = [ui EXCEPT ![p] = Enqueue(y, d, RecoveryCommand(d))], lock' = p, db' = s
    PROVE  IInv'
<1>1. PICK x : x = ui[p]
  OBVIOUS
<1>2. PICK s0 : s0 = db
  OBVIOUS
<1>3. \A q \in Proc : ui[q].d = NoDurable
  BY NobodyBusy
<1>4. Tables(s0) /\ ProcessOK(x, s0) /\ x.d = NoDurable
  BY <1>1, <1>2, <1>3 DEF IInv
<1>5. ProcessOK(x, s)
  BY <1>2, <1>4, Unaffected
<1>6. Commands(x, s.nextOp) /\ Idle(x, s.run.op) /\ IsProcess(x)
  BY <1>4, <1>5, SoundIsBusy DEF ProcessOK
<1>7. Sound(d) /\ d.op = s.run.op /\ d.op \in Nat /\ d.op # 0
  BY DEF Clear, Sound, IsDriver, AtRow, Checking
<1>8. PICK c : c = RecoveryCommand(d)
  OBVIOUS
<1>9. c.kind \in Kinds /\ c.op = d.op /\ d.phase = QueuedPhase(c.kind)
  BY <1>8, RecoveryCommandIs
<1>10. Leaves(x, d.op, s.nextOp, Result(Enqueue(y, d, c), s, 0))
  BY <1>1, <1>6, <1>7, <1>9, Sends
<1>11. PICK z : z = Enqueue(y, d, c)
  OBVIOUS
<1>12. z.d = d
  BY <1>11, EnqueueIs
<1>13. ProcessOK(z, s)
  <2>1. PICK r : r = Result(z, s, 0)
    OBVIOUS
  <2>2. r.x = z /\ r.db = s
    BY <2>1 DEF Result
  <2>3. d.op < s.nextOp /\ s.nextOp \in Nat
    BY <1>7 DEF Tables
  <2>4. Idle(x, d.op)
    BY <1>6, <1>7
  <2>5. Leaves(x, d.op, s.nextOp, r)
    BY <1>10, <1>11, <2>1
  <2>6. ProcessOK(r.x, r.db)
    BY <1>6, <1>7, <2>3, <2>4, <2>5, OutcomeKept
  <2> QED BY <2>2, <2>6
<1>14. ui' = [ui EXCEPT ![p] = z]
  BY <1>8, <1>11
<1> QED BY <1>3, <1>13, <1>14, StepKept

\* The machine of a new run, before and after the retry point is restored.
LEMMA StartedMachine ==
    ASSUME NEW review, NEW root
    PROVE  /\ "aborted" \in DOMAIN init(review)
           /\ "aborted" \in DOMAIN initSubtree(review, root)
  BY DEF init, initSubtree, initOrder

LEMMA FrozenMachine ==
    ASSUME NEW review, NEW items
    PROVE  "aborted" \in DOMAIN initFrozen(review, items)
  BY DEF initFrozen, initOrder

LEMMA StaysAMachine ==
    ASSUME NEW review, NEW m, "aborted" \in DOMAIN m, NEW retry
    PROVE  /\ "aborted" \in DOMAIN advance(review, m)
           /\ "aborted" \in DOMAIN restoreRetry(m, retry)
<1>1. "aborted" \in DOMAIN advance(review, m)
  BY DEF advance
<1>2. "aborted" \in DOMAIN restoreRetry(m, retry)
  BY DEF restoreRetry
<1> QED BY <1>1, <1>2

LEMMA BeginSubmissionIs ==
    ASSUME NEW s, Tables(s), NEW source, NEW items, NEW S, items \in Seq(S)
    PROVE  LET begun == Store!BeginSubmission(s, source, items)
           IN  /\ Tables(begun) /\ begun.run.op = s.nextOp /\ begun.nextOp = s.nextOp + 1
               /\ begun.run.current = items[1].temp
<1>1. PICK first, st : first = items[1].temp /\ st = Submitting
  OBVIOUS
<1>2. PICK review, rows : /\ review = s.drafts
                          /\ rows = [review EXCEPT ![first] = WithState(@, st)]
  OBVIOUS
<1>3. PICK retry, left : /\ retry = Store!CarriedRetry(s, first)
                         /\ left = Store!WithoutRows(s.carryovers, {first})
  OBVIOUS
<1>4. PICK begun : begun = Store!BeginSubmission(s, source, items)
  OBVIOUS
<1>5. begun = [s EXCEPT !.drafts = rows,
                        !.run = [op |-> s.nextOp, items |-> items, current |-> first,
                                 retry |-> retry, source |-> source],
                        !.nextOp = @ + 1, !.carryovers = left]
  BY <1>1, <1>2, <1>3, <1>4, StoreWords DEF Store!BeginSubmission, Store!WithState, WithState,
     Tables
<1>6. Rows(rows)
  BY <1>2, RowsKept DEF Tables
<1> QED BY <1>1, <1>4, <1>5, <1>6 DEF Tables

\* The driver of a new run, over the items that are left to submit.
Started(s, source, items, m) ==
    LET begun == Store!BeginSubmission(s, source, items)
    IN  create(s.drafts, IF begun.run.retry = NoRetry THEN m ELSE restoreRetry(m, begun.run.retry),
               begun.run.op, begun.run.current, source, FALSE)

LEMMA StartedIs ==
    ASSUME NEW s, Tables(s), NEW source, NEW items, NEW S, items \in Seq(S),
           NEW m, "aborted" \in DOMAIN m
    PROVE  LET d == Started(s, source, items, m)
           IN  /\ Clear(d) /\ d.phase = "recovery_check_queued"
               /\ AtRow(d, Store!BeginSubmission(s, source, items))
<1>1. PICK begun : begun = Store!BeginSubmission(s, source, items)
  OBVIOUS
<1>2. Tables(begun) /\ begun.run.op = s.nextOp /\ begun.nextOp = s.nextOp + 1
  BY <1>1, BeginSubmissionIs
<1>3. PICK retry : retry = begun.run.retry
  OBVIOUS
<1>4. PICK m1 : m1 = IF retry = NoRetry THEN m ELSE restoreRetry(m, retry)
  OBVIOUS
<1>5. "aborted" \in DOMAIN restoreRetry(m, retry)
  BY StaysAMachine
<1>6. "aborted" \in DOMAIN m1
  BY <1>4, <1>5
<1>7. PICK op, current : op = begun.run.op /\ current = begun.run.current
  OBVIOUS
<1>8. op \in Nat /\ op # 0
  BY <1>2, <1>7 DEF Tables
<1>9. PICK d : d = create(s.drafts, m1, op, current, source, FALSE)
  OBVIOUS
<1>10. Clear(d) /\ d.phase = "recovery_check_queued" /\ d.op = op /\ d.current = current
  <2>1. PICK review, recovered : review = s.drafts /\ recovered = FALSE
    OBVIOUS
  <2>2. d = create(review, m1, op, current, source, recovered)
    BY <1>9, <2>1
  <2> QED BY <1>6, <1>8, <2>2, createIs
<1>11. d = Started(s, source, items, m)
  BY <1>1, <1>3, <1>4, <1>7, <1>9 DEF Started
<1> QED BY <1>1, <1>7, <1>10, <1>11 DEF AtRow

LEMMA StartSubmissionKept ==
    ASSUME IInv, NEW CONSTANT p \in Proc, NEW CONSTANT root, StartSubmission(p, root)
    PROVE  IInv'
<1> DEFINE M0 == IF root = NoTemp THEN init(db.drafts) ELSE initSubtree(db.drafts, root)
<1> DEFINE M == advance(db.drafts, M0)
<1> DEFINE rest == SubSeq(M.order, M.idx, Len(M.order))
<1> DEFINE Items == [i \in DOMAIN rest |-> [temp |-> rest[i], parent |-> db.drafts[rest[i]].parent]]
<1> DEFINE Begun == Store!BeginSubmission(db, ui[p].loaded, Items)
<1> DEFINE D == create(db.drafts,
                       IF Begun.run.retry = NoRetry THEN M ELSE restoreRetry(M, Begun.run.retry),
                       Begun.run.op, Begun.run.current, ui[p].loaded, FALSE)
<1>1. /\ lock = Free /\ db' = Begun
      /\ \/ lock' = p /\ ui' = [ui EXCEPT ![p] = Enqueue(ui[p], D, RecoveryCommand(D))]
         \/ UNCHANGED <<lock, ui>>
  <2> HIDE DEF Items
  <2> QED BY DEF StartSubmission, Items
<1> HIDE DEF Items
<1>2. PICK x : x = ui[p]
  OBVIOUS
<1>3. PICK s : s = db
  OBVIOUS
<1>4. PICK m0 : m0 = M0
  OBVIOUS
<1>5. PICK m : m = M
  OBVIOUS
<1>6. PICK items : items = Items
  OBVIOUS
<1>7. PICK source : source = x.loaded
  OBVIOUS
<1>8. PICK begun : begun = Store!BeginSubmission(s, source, items)
  OBVIOUS
<1>9. PICK d : d = Started(s, source, items, m)
  OBVIOUS
<1>10. /\ lock = Free /\ db' = begun
       /\ \/ lock' = p /\ ui' = [ui EXCEPT ![p] = Enqueue(x, d, RecoveryCommand(d))]
          \/ UNCHANGED <<lock, ui>>
  <2>1. begun = Begun
    BY <1>2, <1>3, <1>6, <1>7, <1>8
  <2>2. d = D
    BY <1>2, <1>3, <1>5, <1>6, <1>7, <1>9 DEF Started
  <2> HIDE DEF Begun, D
  <2> QED BY <1>1, <1>2, <2>1, <2>2
<1>a. m0 = IF root = NoTemp THEN init(s.drafts) ELSE initSubtree(s.drafts, root)
  BY <1>3, <1>4
<1>b. m = advance(s.drafts, m0)
  BY <1>3, <1>4, <1>5
<1>11. Tables(s) /\ ProcessOK(x, s)
  BY <1>2, <1>3 DEF IInv
<1>c. PICK S : items \in Seq(S)
  <2>1. PICK review : review = s.drafts
    OBVIOUS
  <2>2. IsMachine(m0)
    BY <1>a, <2>1, initIs
  <2>3. IsMachine(m)
    BY <1>b, <2>1, <2>2, advanceIs
  <2>4. items \in Seq(Members(items))
    <3>1. PICK left : left = SubSeq(m.order, m.idx, Len(m.order))
      OBVIOUS
    <3>2. PICK T : m.order \in Seq(T) /\ m.idx \in Nat /\ m.idx # 0
      BY <2>3 DEF IsMachine
    <3>3. left \in Seq(T)
      BY <3>1, <3>2
    <3>4. items = [i \in DOMAIN left |-> [temp |-> left[i], parent |-> review[left[i]].parent]]
      BY <1>3, <1>5, <1>6, <2>1, <3>1 DEF Items
    <3>5. DOMAIN items = 1..Len(left) /\ Len(left) \in Nat
      BY <3>3, <3>4
    <3>6. items \in Seq({items[i] : i \in 1..Len(left)})
      BY <3>4, <3>5
    <3>7. Len(items) = Len(left)
      BY <3>5, <3>6
    <3> QED BY <3>6, <3>7 DEF Members
  <2> QED BY <2>4
<1>12. Tables(begun) /\ begun.run.op = s.nextOp /\ begun.nextOp = s.nextOp + 1
  BY <1>8, <1>11, <1>c, BeginSubmissionIs
<1>13. db.nextOp <= begun.nextOp /\ db.nextOp <= begun.run.op
  BY <1>3, <1>11, <1>12 DEF Tables
<1>14. "aborted" \in DOMAIN m
  <2>1. "aborted" \in DOMAIN m0
    BY <1>a, StartedMachine
  <2> QED BY <1>b, <2>1, StaysAMachine
<1>15. Clear(d) /\ d.phase = "recovery_check_queued" /\ AtRow(d, begun)
  BY <1>8, <1>9, <1>11, <1>14, <1>c, StartedIs
<1>16. CASE lock' = p /\ ui' = [ui EXCEPT ![p] = Enqueue(x, d, RecoveryCommand(d))]
  <2>1. IsProcess(x) /\ x.queue = ui[p].queue /\ x.issued = ui[p].issued
    BY <1>2, <1>11 DEF ProcessOK
  <2> QED BY <1>10, <1>12, <1>13, <1>15, <1>16, <2>1, ClaimedKept
<1>17. CASE UNCHANGED <<lock, ui>>
  BY <1>10, <1>12, <1>13, <1>17, NobodyBusy, TablesKept
<1> QED BY <1>10, <1>16, <1>17

\* The driver of a recovered run.
RecoveredMachine(s) ==
    LET m0 == initFrozen(s.drafts, s.run.items)
    IN  IF s.run.retry # NoRetry THEN restoreRetry(m0, s.run.retry)
        ELSE [m0 EXCEPT !.attempts[m0.idx] = 1, !.ambiguous[m0.idx] = TRUE]

LEMMA RecoveredMachineIs ==
    ASSUME NEW s
    PROVE  "aborted" \in DOMAIN RecoveredMachine(s)
<1>1. PICK m0 : m0 = initFrozen(s.drafts, s.run.items)
  OBVIOUS
<1>2. PICK retry : retry = s.run.retry
  OBVIOUS
<1>3. "aborted" \in DOMAIN m0
  <2>1. PICK review, items : review = s.drafts /\ items = s.run.items
    OBVIOUS
  <2> QED BY <1>1, <2>1, FrozenMachine
<1>4. "aborted" \in DOMAIN restoreRetry(m0, retry)
  BY <1>3, StaysAMachine
<1>5. "aborted" \in DOMAIN [m0 EXCEPT !.attempts[m0.idx] = 1, !.ambiguous[m0.idx] = TRUE]
  BY <1>3
<1> QED BY <1>1, <1>2, <1>4, <1>5 DEF RecoveredMachine

LEMMA RecoveredIs ==
    ASSUME Tables(db), db.run.op # 0
    PROVE  /\ Clear(Recovered(db.run)) /\ Recovered(db.run).phase = "recovery_check_queued"
           /\ AtRow(Recovered(db.run), db)
<1>1. PICK s : s = db
  OBVIOUS
<1>2. PICK m : m = RecoveredMachine(s)
  OBVIOUS
<1>3. PICK d : d = create(s.drafts, m, s.run.op, s.run.current, s.run.source, TRUE)
  OBVIOUS
<1>4. "aborted" \in DOMAIN m
  BY <1>2, RecoveredMachineIs
<1>5. s.run.op \in Nat /\ s.run.op # 0
  BY <1>1 DEF Tables
<1>6. Clear(d) /\ d.phase = "recovery_check_queued" /\ AtRow(d, s)
  <2>1. PICK op, current, source : op = s.run.op /\ current = s.run.current /\ source = s.run.source
    OBVIOUS
  <2>2. PICK review, recovered : review = s.drafts /\ recovered = TRUE
    OBVIOUS
  <2>3. d = create(review, m, op, current, source, recovered)
    BY <1>3, <2>1, <2>2
  <2>4. Clear(d) /\ d.phase = "recovery_check_queued" /\ d.op = op /\ d.current = current
    BY <1>4, <1>5, <2>1, <2>3, createIs
  <2> QED BY <2>1, <2>4 DEF AtRow
<1>7. PICK e : e = Advanced(d)
  OBVIOUS
<1>8. Clear(e) /\ e.phase = "recovery_check_queued" /\ AtRow(e, s)
  BY <1>6, <1>7, AdvancedIs DEF Clear, AtRow
<1>9. e = Recovered(db.run)
  BY <1>1, <1>2, <1>3, <1>7 DEF Recovered, RecoveredMachine
<1> QED BY <1>1, <1>8, <1>9

\* A process that only changes its Notice.
LEMMA NoticeKept ==
    ASSUME IInv, NEW CONSTANT p \in Proc, NEW CONSTANT y, IsProcess(y), y.d = ui[p].d,
           y.queue = ui[p].queue, y.issued = ui[p].issued,
           ui' = [ui EXCEPT ![p] = y], db' = db, lock' = lock
    PROVE  IInv'
<1>1. PICK x : x = ui[p]
  OBVIOUS
<1>2. PICK s : s = db
  OBVIOUS
<1>3. ProcessOK(x, s) /\ (x.d # NoDurable => lock = p)
  BY <1>1, <1>2 DEF IInv
<1>4. ProcessOK(y, s)
  BY <1>1, <1>3, SameProcess
<1> QED BY <1>1, <1>2, <1>3, <1>4, LocalKept

LEMMA RecoverSubmissionKept ==
    ASSUME IInv, NEW CONSTANT p \in Proc, RecoverSubmission(p)
    PROVE  IInv'
<1>1. PICK x : x = ui[p]
  OBVIOUS
<1>2. PICK s : s = db
  OBVIOUS
<1>3. PICK d : d = Recovered(db.run)
  OBVIOUS
<1>4. PICK known : known = [x EXCEPT !.notice = NoNotice]
  OBVIOUS
<1>5. Tables(s) /\ ProcessOK(x, s) /\ IsProcess(x) /\ p \in DOMAIN ui
  BY <1>1, <1>2 DEF IInv, ProcessOK
<1>6. IsProcess(known) /\ known.d = x.d /\ known.queue = x.queue /\ known.issued = x.issued
  BY <1>4, <1>5 DEF IsProcess
<1>7. x.d = NoDurable
  BY <1>1 DEF RecoverSubmission
<1>8. \/ /\ ui' = [ui EXCEPT ![p].notice.ownership = "running_elsewhere"]
         /\ UNCHANGED <<db, lock, faults>>
      \/ ui' = [ui EXCEPT ![p] = known] /\ UNCHANGED <<db, lock, faults>>
      \/ ui' = [ui EXCEPT ![p].notice = discoverRecovery] /\ UNCHANGED <<db, lock, faults>>
      \/ /\ lock = Free
         /\ \E r \in Completing(s, s.run.op, IF AllPosted(s.drafts) THEN "clean" ELSE "partial",
                                NoOutcome) :
              Handled(p, Result(IF r.done THEN known ELSE x, r.db, r.f))
      \/ /\ lock = Free /\ Store!Active(s)
         /\ ui' = [ui EXCEPT ![p] = Enqueue(known, d, RecoveryCommand(d))]
         /\ lock' = p /\ UNCHANGED <<db, faults>>
  BY <1>1, <1>2, <1>3, <1>4 DEF RecoverSubmission
<1>9. CASE /\ ui' = [ui EXCEPT ![p].notice.ownership = "running_elsewhere"]
           /\ UNCHANGED <<db, lock, faults>>
  <2>1. PICK y : y = [x EXCEPT !.notice.ownership = "running_elsewhere"]
    OBVIOUS
  <2>2. ui' = [ui EXCEPT ![p] = y]
    BY <1>1, <1>5, <1>9, <2>1
  <2>3. IsProcess(y) /\ y.d = x.d /\ y.queue = x.queue /\ y.issued = x.issued
    BY <1>5, <2>1 DEF IsProcess
  <2> QED BY <1>1, <1>9, <2>2, <2>3, NoticeKept
<1>10. CASE ui' = [ui EXCEPT ![p] = known] /\ UNCHANGED <<db, lock, faults>>
  BY <1>1, <1>6, <1>10, NoticeKept
<1>11. CASE ui' = [ui EXCEPT ![p].notice = discoverRecovery] /\ UNCHANGED <<db, lock, faults>>
  <2>1. PICK y : y = [x EXCEPT !.notice = discoverRecovery]
    OBVIOUS
  <2>2. ui' = [ui EXCEPT ![p] = y]
    BY <1>1, <1>5, <1>11, <2>1
  <2>3. IsProcess(y) /\ y.d = x.d /\ y.queue = x.queue /\ y.issued = x.issued
    BY <1>5, <2>1 DEF IsProcess
  <2> QED BY <1>1, <1>11, <2>2, <2>3, NoticeKept
<1>12. CASE /\ lock = Free
            /\ \E r \in Completing(s, s.run.op, IF AllPosted(s.drafts) THEN "clean" ELSE "partial",
                                   NoOutcome) :
                 Handled(p, Result(IF r.done THEN known ELSE x, r.db, r.f))
  <2>1. PICK completion \in {"clean", "partial", "aborted"} :
            completion = IF AllPosted(s.drafts) THEN "clean" ELSE "partial"
    OBVIOUS
  <2>2. PICK r \in Completing(s, s.run.op, completion, NoOutcome) :
            Handled(p, Result(IF r.done THEN known ELSE x, r.db, r.f))
    BY <1>12, <2>1
  <2>3. PICK op : op = s.run.op
    OBVIOUS
  <2>4. /\ Tables(r.db) /\ r.db.nextOp = s.nextOp
        /\ (r.done /\ r.db.run.op = 0) \/ (~r.done /\ r.db = s)
    BY <1>5, <2>2, <2>3, CompletingIs
  <2>5. PICK y : y = IF r.done THEN known ELSE x
    OBVIOUS
  <2>6. PICK s1 : s1 = r.db
    OBVIOUS
  <2>7. ui' = [ui EXCEPT ![p] = y] /\ db' = s1 /\ y.d = NoDurable
    BY <1>6, <1>7, <2>2, <2>5, <2>6 DEF Handled, Result
  <2>8. IsProcess(y) /\ y.d = x.d /\ y.queue = x.queue /\ y.issued = x.issued
    BY <1>5, <1>6, <2>5
  <2>9. ProcessOK(y, s)
    BY <1>5, <2>8, SameProcess
  <2>10. s.nextOp <= s1.nextOp /\ Tables(s1)
    BY <1>5, <2>4, <2>6 DEF Tables
  <2>11. s1.run.op \in {0, s.run.op}
    BY <2>4, <2>6
  <2>12. ProcessOK(y, s1)
    BY <1>5, <2>7, <2>9, <2>10, <2>11, Unaffected
  <2>13. \A q \in Proc : ui[q].d = NoDurable
    BY <1>12, NobodyBusy
  <2> QED BY <1>2, <2>7, <2>10, <2>11, <2>12, <2>13, StepKept
<1>13. CASE /\ lock = Free /\ Store!Active(s)
            /\ ui' = [ui EXCEPT ![p] = Enqueue(known, d, RecoveryCommand(d))]
            /\ lock' = p /\ UNCHANGED <<db, faults>>
  <2>1. s.run.op # 0
    BY <1>13 DEF Store!Active
  <2>2. Clear(d) /\ d.phase = "recovery_check_queued" /\ AtRow(d, s)
    BY <1>2, <1>3, <1>5, <2>1, RecoveredIs
  <2>3. db.nextOp <= s.nextOp /\ s.run.op = db.run.op /\ db' = s
    BY <1>2, <1>5, <1>13 DEF Tables
  <2> QED BY <1>1, <1>5, <1>6, <1>13, <2>2, <2>3, ClaimedKept
<1> QED BY <1>8, <1>9, <1>10, <1>11, <1>12, <1>13

-----------------------------------------------------------------------------
(* Theorems *)

LEMMA InitIInv == Init => IInv
<1> SUFFICES ASSUME Init PROVE IInv
  OBVIOUS
<1>1. PICK s : s = db
  OBVIOUS
<1>2. Tables(s)
  <2>1. PICK run : run = NoRun
    OBVIOUS
  <2>2. run.op = 0 /\ {"op", "items", "current", "retry", "source"} \subseteq DOMAIN run
        /\ run.items \in Seq({})
    BY <2>1 DEF NoRun
  <2>3. s = [drafts |-> Pending0, counter |-> MaxTempId + 1, run |-> run, nextOp |-> 1,
             carryovers |-> <<>>, posted |-> <<>>]
    BY <1>1, <2>1 DEF Init
  <2>4. Rows(Pending0)
    <3>1. ASSUME NEW t \in DOMAIN Pending0 PROVE IsRow(Pending0[t])
      <4>1. Pending0[t] \in Draft
        BY EnvironmentAssumption
      <4> QED BY <4>1 DEF IsRow, Draft, Parent, NoParent, DraftParent, CommentParent
    <3> QED BY <3>1 DEF Rows
  <2> QED BY <2>2, <2>3, <2>4 DEF Tables
<1>3. PICK x : x = Down
  OBVIOUS
<1>4. ProcessOK(x, s) /\ x.d = NoDurable
  BY <1>2, <1>3, DownIs, DownIsProcess
<1> QED BY <1>1, <1>2, <1>3, <1>4 DEF Init, IInv

LEMMA NextIInv == IInv /\ [Next]_vars => IInv'
<1> SUFFICES ASSUME IInv, [Next]_vars PROVE IInv'
  OBVIOUS
<1>1. CASE HeadMoves
  BY <1>1 DEF HeadMoves, IInv
<1>2. ASSUME NEW p \in Proc, ProcessStep(p) PROVE IInv'
  <2>1. CASE Launch(p)
    BY <2>1, LaunchKept
  <2>2. CASE Reload(p)
    BY <2>2, ReloadKept
  <2>3. CASE Crash(p)
    BY <2>3, CrashKept
  <2>4. CASE \E root \in DOMAIN db.drafts \cup {NoTemp} : StartSubmission(p, root)
    BY <2>4, StartSubmissionKept
  <2>5. CASE RecoverSubmission(p)
    BY <2>5, RecoverSubmissionKept
  <2>6. CASE TakeCommand(p)
    BY <2>6, TakeCommandKept
  <2>7. CASE Completion(p)
    BY <2>7, CompletionKept
  <2>8. CASE Resume(p)
    BY <2>8, ResumeKept
  <2>9. CASE AbandonRecovered(p)
    BY <2>9, AbandonRecoveredKept
  <2>10. CASE \E t \in DOMAIN db.drafts : ResolveUnknown(p, t)
    BY <2>10, ResolveUnknownKept
  <2> QED BY <1>2, <2>1, <2>2, <2>3, <2>4, <2>5, <2>6, <2>7, <2>8, <2>9, <2>10 DEF ProcessStep
<1>3. CASE UNCHANGED vars
  BY <1>3 DEF vars, IInv
<1> QED BY <1>1, <1>2, <1>3 DEF Next

\* The inductive invariant holds of every behaviour.
THEOREM Invariance == Spec => []IInv
  BY InitIInv, NextIInv, PTL DEF Spec

\* The driver of a run holds the review's lock, and its operation and current item
\* are those of the run row (DurableSubmission.recordCheckpoint follows every
\* checkpointSubmission), whichever transaction, launch or process fails.
THEOREM OwnerMatches == Spec => []OwnerMatchesRun
<1>1. IInv => OwnerMatchesRun
  BY DEF IInv, ProcessOK, AtRow, OwnerMatchesRun, Busy
<1> QED BY <1>1, Invariance, PTL

LEMMA CommandsOfIs ==
    ASSUME NEW x, NEW n, Commands(x, n), NEW c \in CommandsOf(x)
    PROVE  IsCommand(c, n) /\ (c \in x.issued \/ \E i \in 1..Len(x.queue) : c = x.queue[i])
<1>1. PICK S : x.queue \in Seq(S)
  BY DEF Commands
<1>2. DOMAIN x.queue = 1..Len(x.queue)
  BY <1>1
<1> QED BY <1>2 DEF CommandsOf, ToSet, Commands

LEMMA IdleIs ==
    ASSUME NEW x, NEW n, Commands(x, n), NEW op, Idle(x, op), NEW c \in CommandsOf(x)
    PROVE  c.op # op
  BY CommandsOfIs DEF Idle, NoneQueued, NoneIssued

\* The driver's commands are one, of the kind its phase tells.
LEMMA OneCommandIs ==
    ASSUME NEW x, NEW n, Commands(x, n), OneCommand(x),
           NEW c \in CommandsOf(x), c.op = x.d.op
    PROVE  /\ x.d.phase \in {QueuedPhase(c.kind), AwaitingPhase(c.kind)}
           /\ \A e \in CommandsOf(x) : e.op = x.d.op => e = c
<1>1. ~Idle(x, x.d.op)
  BY IdleIs
<1>2. CASE \E kind \in Kinds : Queued(x, x.d.op, kind) /\ x.d.phase = QueuedPhase(kind)
  <2>1. PICK kind \in Kinds : Queued(x, x.d.op, kind) /\ x.d.phase = QueuedPhase(kind)
    BY <1>2
  <2>2. PICK i \in 1..Len(x.queue) : /\ x.queue[i].op = x.d.op /\ x.queue[i].kind = kind
                                     /\ \A j \in 1..Len(x.queue) : x.queue[j].op = x.d.op => j = i
    BY <2>1 DEF Queued
  <2>3. \A e \in CommandsOf(x) : e.op = x.d.op => e = x.queue[i]
    BY <2>1, <2>2, CommandsOfIs DEF Queued, NoneIssued
  <2> QED BY <2>1, <2>2, <2>3
<1>3. CASE \E kind \in Kinds : /\ UnderWay(x, x.d.op, kind)
                               /\ x.d.phase \in {QueuedPhase(kind), AwaitingPhase(kind)}
  <2>1. PICK kind \in Kinds : /\ UnderWay(x, x.d.op, kind)
                              /\ x.d.phase \in {QueuedPhase(kind), AwaitingPhase(kind)}
    BY <1>3
  <2>2. PICK w \in x.issued : /\ w.op = x.d.op /\ w.kind = kind
                              /\ \A e \in x.issued : e.op = x.d.op => e = w
    BY <2>1 DEF UnderWay
  <2>3. \A e \in CommandsOf(x) : e.op = x.d.op => e = w
    BY <2>1, <2>2, CommandsOfIs DEF UnderWay, NoneQueued
  <2> QED BY <2>1, <2>2, <2>3
<1> QED BY <1>1, <1>2, <1>3 DEF OneCommand

\* Over all the processes, at most one command of the active run is queued or under
\* way, and its holder drives the run: no request of it is ever sent twice at a time,
\* however often it was resumed, recovered or taken over after a kill.
OneCommandOfTheRun ==
    \A p, q \in Proc : \A c \in CommandsOf(ui[p]), e \in CommandsOf(ui[q]) :
        c.op = db.run.op /\ e.op = db.run.op => p = q /\ c = e /\ Busy(p)

\* What IInv says of a command of the active run.
LEMMA RunCommandIs ==
    ASSUME IInv, NEW CONSTANT p \in Proc, NEW CONSTANT c \in CommandsOf(ui[p]), c.op = db.run.op
    PROVE  /\ Busy(p) /\ lock = p
           /\ ui[p].d.phase \in {QueuedPhase(c.kind), AwaitingPhase(c.kind)} /\ c.kind \in Kinds
           /\ \A e \in CommandsOf(ui[p]) : e.op = db.run.op => e = c
<1>1. PICK x : x = ui[p]
  OBVIOUS
<1>2. PICK s : s = db
  OBVIOUS
<1>3. ProcessOK(x, s) /\ (x.d # NoDurable => lock = p)
  BY <1>1, <1>2 DEF IInv
<1>4. Commands(x, s.nextOp) /\ c \in CommandsOf(x) /\ c.op = s.run.op
  BY <1>1, <1>2, <1>3 DEF ProcessOK
<1>5. ~Idle(x, s.run.op)
  BY <1>4, IdleIs
<1>6. Sound(x.d) /\ AtRow(x.d, s) /\ OneCommand(x)
  BY <1>3, <1>5 DEF ProcessOK
<1>7. x.d # NoDurable /\ x.d.op = s.run.op
  BY <1>6, SoundIsBusy DEF AtRow
<1>8. /\ x.d.phase \in {QueuedPhase(c.kind), AwaitingPhase(c.kind)}
      /\ \A e \in CommandsOf(x) : e.op = x.d.op => e = c
  BY <1>4, <1>6, <1>7, OneCommandIs
<1>9. c.kind \in Kinds
  BY <1>4, CommandsOfIs DEF IsCommand
<1> QED BY <1>1, <1>2, <1>3, <1>7, <1>8, <1>9 DEF Busy

\* At most one command of the active run exists, in the process that drives it.
THEOREM SingleCommand == Spec => []OneCommandOfTheRun
<1>1. IInv => OneCommandOfTheRun
  <2> SUFFICES ASSUME IInv, NEW CONSTANT p \in Proc, NEW CONSTANT q \in Proc,
                      NEW CONSTANT c \in CommandsOf(ui[p]), NEW CONSTANT e \in CommandsOf(ui[q]),
                      c.op = db.run.op, e.op = db.run.op
               PROVE  p = q /\ c = e /\ Busy(p)
    BY DEF OneCommandOfTheRun
  <2>1. Busy(p) /\ lock = p
    BY RunCommandIs
  <2>2. lock = q
    BY RunCommandIs
  <2>3. p = q
    BY <2>1, <2>2
  <2>4. c = e
    BY <2>3, RunCommandIs
  <2> QED BY <2>1, <2>3, <2>4
<1> QED BY <1>1, Invariance, PTL

\* Once the driver of a recovered run has seen the source move, nobody has a POST of
\* the run queued or under way: acceptRecoveryCheck leads to the duplicate guard, and
\* from there every answer, failure and resumption leads back to it or ends the run.
THEOREM StaleGate == Spec => []StaleGateBlocksPosts
<1>1. IInv => StaleGateBlocksPosts
  <2> SUFFICES ASSUME IInv, NEW CONSTANT p \in Proc, Busy(p), ui[p].d.sourceChanged,
                      NEW CONSTANT q \in Proc, NEW CONSTANT c \in CommandsOf(ui[q]),
                      c.kind = "post", c.op = db.run.op
               PROVE  FALSE
    BY DEF StaleGateBlocksPosts, CommandsOf
  <2>1. lock = p /\ Sound(ui[p].d)
    BY DEF IInv, ProcessOK, Busy
  <2>2. /\ lock = q /\ ui[q].d.phase \in {QueuedPhase(c.kind), AwaitingPhase(c.kind)}
    BY RunCommandIs
  <2>3. ui[p].d.phase \in {"post_queued", "awaiting_post"}
    BY <2>1, <2>2 DEF QueuedPhase, AwaitingPhase
  <2> QED BY <2>1, <2>3 DEF Sound, Checking
<1> QED BY <1>1, Invariance, PTL

\* The answer to a policy check never meets an aborted machine: the `.aborted =>
\* unreachable` of advanceAfterPolicyCheck is unreachable, whatever the answer.
PolicyCheckNotAborted ==
    \A p \in Proc : \A c \in ui[p].issued : \A reply :
        Expected(ui[p], c) /\ c.kind = "find_duplicate" =>
            NextStep([ui[p].d EXCEPT !.policyCheck = FALSE, !.m = reportCheck(@, reply)]).kind
                # "aborted"

\* No policy check is answered to an aborted machine.
THEOREM PolicyCheckNeverAborts == Spec => []PolicyCheckNotAborted
<1>1. IInv => PolicyCheckNotAborted
  <2> SUFFICES ASSUME IInv, NEW CONSTANT p \in Proc, NEW CONSTANT c \in ui[p].issued,
                      NEW CONSTANT reply, Expected(ui[p], c), c.kind = "find_duplicate"
               PROVE  NextStep([ui[p].d EXCEPT !.policyCheck = FALSE,
                                               !.m = reportCheck(@, reply)]).kind # "aborted"
    BY DEF PolicyCheckNotAborted
  <2>1. PICK d : d = ui[p].d
    OBVIOUS
  <2>2. Sound(d) /\ d.phase = "awaiting_duplicate"
    BY <2>1 DEF IInv, ProcessOK, Expected, Concerns, AwaitingPhase
  <2>3. IsDriver(d) /\ ~d.m.aborted
    BY <2>2 DEF Sound, Checking
  <2>4. PICK m : m = reportCheck(d.m, reply)
    OBVIOUS
  <2>5. "aborted" \in DOMAIN m /\ m.aborted = d.m.aborted
    <3>1. PICK m0 : m0 = d.m
      OBVIOUS
    <3>2. "aborted" \in DOMAIN m0
      BY <2>3, <3>1 DEF IsDriver
    <3> QED BY <2>4, <3>1, <3>2, MachineIs
  <2>6. PICK e : e = [d EXCEPT !.policyCheck = FALSE, !.m = m]
    OBVIOUS
  <2>7. IsDriver(e) /\ ~e.m.aborted
    BY <2>3, <2>5, <2>6 DEF IsDriver
  <2>8. NextStep(e).kind # "aborted"
    BY <2>7, NextStepIs
  <2>9. e = [ui[p].d EXCEPT !.policyCheck = FALSE, !.m = reportCheck(@, reply)]
    BY <2>1, <2>3, <2>4, <2>6 DEF IsDriver
  <2> QED BY <2>8, <2>9
<1> QED BY <1>1, Invariance, PTL

-----------------------------------------------------------------------------
(* Where a machine stands *)

\* A poised machine is neither waiting nor passing its item.
Aligned(d) == Here(d.review, d.m) /\ Current(d.m) = d.current

LEMMA SameHere ==
    ASSUME NEW review, NEW m, NEW n, n.order = m.order, n.idx = m.idx, n.results = m.results,
           Here(review, m), n.aborted = m.aborted \/ n.aborted
    PROVE  Here(review, n) /\ Current(n) = Current(m)
<1>1. ~Ended(n) /\ Current(n) = Current(m)
  BY DEF Here, Ended, Current
<1>2. ~Skippable(review, n)
  BY <1>1 DEF Here, Skippable, Ended, Current, Blocked, ParentIds
<1> QED BY <1>1, <1>2 DEF Here

\* Where Advanced leaves a driver, and what NextStep says of it.
LEMMA AdvancedTo ==
    ASSUME NEW d, IsDriver(d), IsMachine(d.m)
    PROVE  LET e == Advanced(d)
               step == NextStep(d)
           IN  /\ IsMachine(e.m) /\ SameControl(d.m, e.m) /\ e.review = d.review
               /\ ~Skippable(e.review, e.m)
               /\ ~Skippable(d.review, d.m) => e.m.idx = d.m.idx /\ e.m.results = d.m.results
               /\ Aligned(d) => Aligned(e)
               /\ step.kind \in {"aborted", "done", "wait", "check", "post"}
               /\ step.kind = "aborted" <=> e.m.aborted
               /\ step.kind = "done" <=> ~e.m.aborted /\ Ended(e.m)
               /\ step.kind = "wait" => e.m.mustWait
               /\ step.kind \in {"check", "post"} => ~e.m.mustWait
               /\ step.kind \in {"wait", "check", "post"} =>
                    Here(e.review, e.m) /\ step.temp = Current(e.m)
<1>1. PICK m : m = advance(d.review, d.m)
  OBVIOUS
<1>2. PICK review, m0 : review = d.review /\ m0 = d.m
  OBVIOUS
<1>3. /\ IsMachine(m) /\ SameControl(m0, m) /\ ~Skippable(review, m)
      /\ ~Skippable(review, m0) => m.idx = m0.idx /\ m.results = m0.results
  BY <1>1, <1>2, advanceIs
<1>4. PICK e : e = Advanced(d)
  OBVIOUS
<1>5. e.m = m /\ e.review = review /\ e.current = d.current
  BY <1>1, <1>2, <1>4 DEF Advanced, IsDriver
<1>6. Aligned(d) => Aligned(e)
  <2> SUFFICES ASSUME Aligned(d) PROVE Aligned(e)
    OBVIOUS
  <2>1. Here(review, m0) /\ Current(m0) = d.current
    BY <1>2 DEF Aligned
  <2>2. m.idx = m0.idx /\ m.results = m0.results /\ m.order = m0.order /\ m.aborted = m0.aborted
    BY <1>3, <2>1 DEF Here, SameControl
  <2>3. Here(review, m) /\ Current(m) = d.current
    BY <2>1, <2>2, SameHere
  <2> QED BY <1>5, <2>3 DEF Aligned
<1>7. PICK step : step = StepOf(review, m)
  OBVIOUS
<1>8. step = NextStep(d)
  BY <1>4, <1>5, <1>7, <1>2 DEF NextStep
<1>9. /\ m.aborted => step.kind = "aborted"
      /\ ~m.aborted /\ Ended(m) => step.kind = "done"
      /\ ~m.aborted /\ ~Ended(m) =>
            /\ step.kind = CASE m.mustWait -> "wait"
                             [] ~m.mustWait /\ m.ambiguous[m.idx] -> "check"
                             [] OTHER -> "post"
            /\ step.temp = Current(m)
  BY <1>7 DEF StepOf, Step
<1>10. ~m.aborted /\ ~Ended(m) =>
          /\ step.kind \in {"wait", "check", "post"} /\ step.temp = Current(m)
          /\ step.kind = "wait" => m.mustWait
          /\ step.kind \in {"check", "post"} => ~m.mustWait
  BY <1>9
<1>11. /\ step.kind \in {"aborted", "done", "wait", "check", "post"}
       /\ step.kind = "aborted" <=> m.aborted
       /\ step.kind = "done" <=> ~m.aborted /\ Ended(m)
       /\ step.kind = "wait" => m.mustWait
       /\ step.kind \in {"check", "post"} => ~m.mustWait
       /\ step.kind \in {"wait", "check", "post"} => ~Ended(m) /\ step.temp = Current(m)
  BY <1>9, <1>10
<1> QED BY <1>2, <1>3, <1>4, <1>5, <1>6, <1>8, <1>11 DEF Here

-----------------------------------------------------------------------------
(* Answers *)

\* An answer decides the item, or leaves the machine at it.
Decides(m, n) ==
    n.idx = m.idx + 1 /\ n.mustWait = m.mustWait /\ n.aborted = m.aborted
Remains(m, n) == n.idx = m.idx /\ n.results = m.results

LEMMA DecideTo ==
    ASSUME NEW m, IsMachine(m), NEW result
    PROVE  LET n == Decide(m, result)
           IN  /\ IsMachine(n) /\ n.order = m.order /\ Decides(m, n)
               /\ m.idx \in 1..Len(m.order) => n.results[m.idx] = result
<1>1. PICK n : n = [m EXCEPT !.results[m.idx] = result, !.idx = @ + 1]
  OBVIOUS
<1>2. /\ DOMAIN n = DOMAIN m /\ n.idx = m.idx + 1 /\ n.order = m.order
      /\ n.mustWait = m.mustWait /\ n.aborted = m.aborted
      /\ n.results = [m.results EXCEPT ![m.idx] = result]
  BY <1>1 DEF IsMachine
<1>3. DOMAIN n.results = 1..Len(n.order)
  BY <1>2 DEF IsMachine
<1>4. IsMachine(n)
  BY <1>2, <1>3 DEF IsMachine
<1>5. m.idx \in 1..Len(m.order) => n.results[m.idx] = result
  BY <1>2 DEF IsMachine
<1> QED BY <1>1, <1>2, <1>4, <1>5 DEF Decide, Decides

\* A machine that differs from m in its budgets and its wait.
Budgeted(m, n) ==
    /\ IsMachine(n) /\ n.order = m.order /\ Remains(m, n) /\ n.aborted = m.aborted

LEMMA BudgetedIs ==
    ASSUME NEW m, IsMachine(m), NEW n, DOMAIN n = DOMAIN m, n.order = m.order, n.idx = m.idx,
           n.results = m.results, n.aborted = m.aborted
    PROVE  Budgeted(m, n)
  BY DEF Budgeted, Remains, IsMachine

LEMMA WaitsAre ==
    ASSUME NEW m, IsMachine(m), NEW after
    PROVE  Budgeted(m, setWait(m, after)) /\ Budgeted(m, setCheckWait(m, after))
<1>1. PICK n : n = setWait(m, after)
  OBVIOUS
<1>2. /\ DOMAIN n = DOMAIN m /\ n.order = m.order /\ n.idx = m.idx
      /\ n.results = m.results /\ n.aborted = m.aborted
  BY <1>1 DEF setWait, IsMachine
<1>3. PICK k : k = setCheckWait(m, after)
  OBVIOUS
<1>4. /\ DOMAIN k = DOMAIN m /\ k.order = m.order /\ k.idx = m.idx
      /\ k.results = m.results /\ k.aborted = m.aborted
  BY <1>3 DEF setCheckWait, IsMachine
<1> QED BY <1>1, <1>2, <1>3, <1>4, BudgetedIs

LEMMA BudgetsCompose ==
    ASSUME NEW m, NEW k, NEW n, Budgeted(m, k), k.mustWait = m.mustWait
    PROVE  /\ Budgeted(k, n) => Budgeted(m, n)
           /\ Decides(k, n) => Decides(m, n)
  BY DEF Budgeted, Remains, Decides

\* What a POST's answer does to the machine.
LEMMA reportTo ==
    ASSUME NEW m, IsMachine(m), NEW reply,
           reply.outcome \in {"posted", "rejected", "ambiguous"}
    PROVE  LET n == report(m, reply)
           IN  /\ IsMachine(n) /\ n.order = m.order
               /\ \/ Decides(m, n)
                  \/ Remains(m, n) /\ n.aborted = m.aborted
                  \/ Remains(m, n) /\ n.aborted /\ n.mustWait = m.mustWait
<1>1. PICK k : k = [m EXCEPT !.terminalDelay = NoDelay]
  OBVIOUS
<1>2. Budgeted(m, k) /\ k.mustWait = m.mustWait /\ IsMachine(k)
  <2>1. /\ DOMAIN k = DOMAIN m /\ k.order = m.order /\ k.idx = m.idx
        /\ k.results = m.results /\ k.aborted = m.aborted /\ k.mustWait = m.mustWait
    BY <1>1 DEF IsMachine
  <2>2. Budgeted(m, k)
    BY <2>1, BudgetedIs
  <2> QED BY <2>1, <2>2 DEF Budgeted
<1>3. PICK n : n = report(m, reply)
  OBVIOUS
<1> DEFINE c1 == [k EXCEPT !.ambiguous[k.idx] = FALSE]
<1> DEFINE c2 == [k EXCEPT !.attempts[k.idx] = @ + 1, !.ambiguous[k.idx] = TRUE,
                           !.checks[k.idx] = 0]
<1> DEFINE c3 == [k EXCEPT !.aborted = TRUE]
<1>4. \/ n = Decide(c1, PostedAs(reply.id)) \/ n = c2 \/ n = c3
      \/ n = scheduleRetryOrFail(k, reply.after) \/ n = Decide(k, Decided("failed"))
  <2> DEFINE policy == classifyPolicy(reply.err)
  <2>1. n = CASE reply.outcome = "posted" -> Decide(c1, PostedAs(reply.id))
              [] reply.outcome = "ambiguous" -> c2
              [] reply.outcome = "rejected" /\ policy = "abort" -> c3
              [] reply.outcome = "rejected" /\ policy = "retry" -> scheduleRetryOrFail(k, reply.after)
              [] OTHER -> Decide(k, Decided("failed"))
    BY <1>1, <1>3 DEF report
  <2> HIDE DEF c1, c2, c3, policy
  <2> QED BY <2>1
<1>5. CASE n = Decide(c1, PostedAs(reply.id))
  <2>1. PICK b : b = c1
    OBVIOUS
  <2>2. /\ DOMAIN b = DOMAIN k /\ b.order = k.order /\ b.idx = k.idx
        /\ b.results = k.results /\ b.aborted = k.aborted /\ b.mustWait = k.mustWait
    BY <1>2, <2>1 DEF IsMachine
  <2>3. Budgeted(k, b)
    BY <1>2, <2>2, BudgetedIs
  <2>4. IsMachine(n) /\ n.order = b.order /\ Decides(b, n)
    BY <1>5, <2>1, <2>3, DecideTo DEF Budgeted
  <2> QED BY <1>2, <1>3, <2>2, <2>4 DEF Decides, Budgeted, Remains
<1>6. CASE n = c2
  <2>1. /\ DOMAIN n = DOMAIN k /\ n.order = k.order /\ n.idx = k.idx
        /\ n.results = k.results /\ n.aborted = k.aborted
    BY <1>2, <1>6 DEF IsMachine
  <2>2. Budgeted(k, n)
    BY <1>2, <2>1, BudgetedIs
  <2> QED BY <1>2, <1>3, <2>2 DEF Budgeted, Remains
<1>7. CASE n = c3
  <2>1. /\ DOMAIN n = DOMAIN k /\ n.order = k.order /\ n.idx = k.idx
        /\ n.results = k.results /\ n.aborted /\ n.mustWait = k.mustWait
    BY <1>2, <1>7 DEF IsMachine
  <2> QED BY <1>2, <1>3, <2>1 DEF Budgeted, Remains, IsMachine
<1>8. CASE n = scheduleRetryOrFail(k, reply.after)
  <2>1. PICK spent : spent = [k EXCEPT !.attempts[k.idx] = @ + 1]
    OBVIOUS
  <2>2. /\ DOMAIN spent = DOMAIN k /\ spent.order = k.order /\ spent.idx = k.idx
        /\ spent.results = k.results /\ spent.aborted = k.aborted /\ spent.mustWait = k.mustWait
    BY <1>2, <2>1 DEF IsMachine
  <2>3. Budgeted(k, spent) /\ IsMachine(spent)
    BY <1>2, <2>2, BudgetedIs DEF Budgeted
  <2>4. PICK b : b = [spent EXCEPT !.terminalDelay = reply.after]
    OBVIOUS
  <2>5. PICK w : w = [spent EXCEPT !.ambiguous[k.idx] = FALSE]
    OBVIOUS
  <2>6. n = Decide(b, Decided("failed")) \/ n = setWait(w, reply.after)
    BY <1>8, <2>1, <2>2, <2>4, <2>5 DEF scheduleRetryOrFail
  <2>7. /\ DOMAIN b = DOMAIN spent /\ b.order = spent.order /\ b.idx = spent.idx
        /\ b.results = spent.results /\ b.aborted = spent.aborted /\ b.mustWait = spent.mustWait
        /\ DOMAIN w = DOMAIN spent /\ w.order = spent.order /\ w.idx = spent.idx
        /\ w.results = spent.results /\ w.aborted = spent.aborted /\ w.mustWait = spent.mustWait
    BY <2>3, <2>4, <2>5 DEF IsMachine
  <2>8. IsMachine(b) /\ IsMachine(w)
    BY <2>3, <2>7, BudgetedIs DEF Budgeted
  <2>9. CASE n = Decide(b, Decided("failed"))
    <3>1. IsMachine(n) /\ n.order = b.order /\ Decides(b, n)
      BY <2>8, <2>9, DecideTo
    <3> QED BY <1>2, <1>3, <2>2, <2>7, <3>1 DEF Decides, Budgeted, Remains
  <2>10. CASE n = setWait(w, reply.after)
    <3>1. Budgeted(w, n)
      BY <2>8, <2>10, WaitsAre
    <3> QED BY <1>2, <1>3, <2>2, <2>7, <3>1 DEF Budgeted, Remains
  <2> QED BY <2>6, <2>9, <2>10
<1>9. CASE n = Decide(k, Decided("failed"))
  <2>1. IsMachine(n) /\ n.order = k.order /\ Decides(k, n)
    BY <1>2, <1>9, DecideTo
  <2> QED BY <1>2, <1>3, <2>1 DEF Decides, Budgeted, Remains
<1> HIDE DEF c1, c2, c3
<1> QED BY <1>4, <1>5, <1>6, <1>7, <1>8, <1>9

\* What a publication check's answer does to it.
LEMMA reportCheckTo ==
    ASSUME NEW m, IsMachine(m), NEW reply
    PROVE  LET n == reportCheck(m, reply)
           IN  /\ IsMachine(n) /\ n.order = m.order
               /\ \/ Remains(m, n) /\ n.aborted = m.aborted
                  \/ /\ Decides(m, n)
                     /\ m.idx \in 1..Len(m.order) =>
                          n.results[m.idx].status \in {"posted", "outcome_unknown"}
<1>1. PICK n : n = reportCheck(m, reply)
  OBVIOUS
<1> DEFINE c1 == [m EXCEPT !.ambiguous[m.idx] = FALSE]
<1> DEFINE absent == [m EXCEPT !.ambiguous[m.idx] = FALSE, !.checks[m.idx] = 0]
<1>2. \/ n = Decide(c1, PostedAs(reply.id)) \/ n = Decide(absent, Decided("outcome_unknown"))
      \/ n = setWait(absent, reply.after) \/ n = scheduleCheckRetryOrUnknown(m, reply.after)
      \/ n = Decide(m, Decided("outcome_unknown"))
  <2> DEFINE policy == classifyPolicy(reply.err)
  <2>1. n = CASE reply.outcome = "found" -> Decide(c1, PostedAs(reply.id))
              [] reply.outcome = "missing" ->
                   IF m.attempts[m.idx] >= max_attempts
                   THEN Decide(absent, Decided("outcome_unknown")) ELSE setWait(absent, reply.after)
              [] reply.outcome = "ambiguous" \/ (reply.outcome = "rejected" /\ policy = "retry") ->
                   scheduleCheckRetryOrUnknown(m, reply.after)
              [] OTHER -> Decide(m, Decided("outcome_unknown"))
    BY <1>1 DEF reportCheck
  <2> HIDE DEF c1, absent, policy
  <2> QED BY <2>1
<1>3. PICK a, b : a = c1 /\ b = absent
  OBVIOUS
<1>4. /\ DOMAIN a = DOMAIN m /\ a.order = m.order /\ a.idx = m.idx
      /\ a.results = m.results /\ a.aborted = m.aborted /\ a.mustWait = m.mustWait
      /\ DOMAIN b = DOMAIN m /\ b.order = m.order /\ b.idx = m.idx
      /\ b.results = m.results /\ b.aborted = m.aborted /\ b.mustWait = m.mustWait
  BY <1>3 DEF IsMachine
<1>5. IsMachine(a) /\ IsMachine(b)
  BY <1>4, BudgetedIs DEF Budgeted
<1>6. PostedAs(reply.id).status = "posted" /\ Decided("outcome_unknown").status = "outcome_unknown"
  BY DEF PostedAs, Decided
<1>7. ASSUME NEW k, IsMachine(k), k.order = m.order, k.idx = m.idx, k.results = m.results,
             k.aborted = m.aborted, k.mustWait = m.mustWait,
             NEW result, result.status \in {"posted", "outcome_unknown"}, n = Decide(k, result)
      PROVE  /\ IsMachine(n) /\ n.order = m.order /\ Decides(m, n)
             /\ m.idx \in 1..Len(m.order) =>
                  n.results[m.idx].status \in {"posted", "outcome_unknown"}
  <2>1. /\ IsMachine(n) /\ n.order = k.order /\ Decides(k, n)
        /\ k.idx \in 1..Len(k.order) => n.results[k.idx] = result
    BY <1>7, DecideTo
  <2> QED BY <1>7, <2>1 DEF Decides
<1>8. CASE n = Decide(a, PostedAs(reply.id))
  BY <1>1, <1>4, <1>5, <1>6, <1>7, <1>8
<1>9. CASE n = Decide(b, Decided("outcome_unknown"))
  BY <1>1, <1>4, <1>5, <1>6, <1>7, <1>9
<1>10. CASE n = setWait(b, reply.after)
  <2>1. Budgeted(b, n)
    BY <1>5, <1>10, WaitsAre
  <2> QED BY <1>1, <1>4, <2>1 DEF Budgeted, Remains
<1>11. CASE n = scheduleCheckRetryOrUnknown(m, reply.after)
  <2>1. PICK spent : spent = [m EXCEPT !.checks[m.idx] = @ + 1]
    OBVIOUS
  <2>2. /\ DOMAIN spent = DOMAIN m /\ spent.order = m.order /\ spent.idx = m.idx
        /\ spent.results = m.results /\ spent.aborted = m.aborted /\ spent.mustWait = m.mustWait
    BY <2>1 DEF IsMachine
  <2>3. IsMachine(spent)
    BY <2>2, BudgetedIs DEF Budgeted
  <2>4. n = Decide(spent, Decided("outcome_unknown")) \/ n = setCheckWait(spent, reply.after)
    BY <1>11, <2>1 DEF scheduleCheckRetryOrUnknown
  <2>5. CASE n = Decide(spent, Decided("outcome_unknown"))
    BY <1>1, <1>6, <1>7, <2>2, <2>3, <2>5
  <2>6. CASE n = setCheckWait(spent, reply.after)
    <3>1. Budgeted(spent, n)
      BY <2>3, <2>6, WaitsAre
    <3> QED BY <1>1, <2>2, <3>1 DEF Budgeted, Remains
  <2> QED BY <2>4, <2>5, <2>6
<1>12. CASE n = Decide(m, Decided("outcome_unknown"))
  BY <1>1, <1>6, <1>7, <1>12
<1> QED BY <1>2, <1>3, <1>8, <1>9, <1>10, <1>11, <1>12

\* Row next is marked submitting: the machine stays at its item.
LEMMA recordCheckpointTo ==
    ASSUME NEW d, IsDriver(d), Rows(d.review), IsMachine(d.m), NEW t, NEW outcome, NEW next
    PROVE  LET e == recordCheckpoint(d, t, outcome, next)
           IN  /\ Rows(e.review)
               /\ Here(d.review, d.m) /\ next = Current(d.m) /\ t \in Members(d.m.order) =>
                    Here(e.review, d.m)
<1>1. PICK review, m : review = d.review /\ m = d.m
  OBVIOUS
<1>2. PICK a, b : a = Submitting /\ b = outcome
  OBVIOUS
<1>3. PICK rows : rows = [u \in DOMAIN review |-> IF u = next THEN WithState(review[u], a)
                                                  ELSE IF u = t THEN WithState(review[u], b)
                                                  ELSE review[u]]
  OBVIOUS
<1>4. PICK e : e = recordCheckpoint(d, t, outcome, next)
  OBVIOUS
<1>5. e.review = rows
  BY <1>1, <1>2, <1>3, <1>4 DEF recordCheckpoint, IsDriver
<1>6. Rows(review) /\ Rows(rows)
  BY <1>1, <1>3, TwoRowsKept
<1>7. ASSUME Here(review, m), next = Current(m), t \in Members(m.order), Skippable(rows, m)
      PROVE  FALSE
  <2>1. ~m.aborted /\ ~Ended(m) /\ ~Skippable(review, m)
    BY <1>7 DEF Here, Skippable
  <2>2. m.results[m.idx] = NoResult /\ next \in DOMAIN review
    BY <1>7, <2>1 DEF Skippable
  <2>3. IsRow(review[next]) /\ rows[next] = WithState(review[next], a)
    BY <1>3, <1>6, <2>2 DEF Rows
  <2>4. rows[next].state = "submitting" /\ rows[next].parent = review[next].parent
    BY <1>2, <2>3, WithStateIs DEF Submitting
  <2>5. next \in DOMAIN rows
    BY <1>3, <2>2
  <2>6. Blocked(rows, m, next) /\ ~Blocked(review, m, next)
    BY <1>7, <2>1, <2>2, <2>4, <2>5 DEF Skippable
  <2>7. PICK p : p = review[next].parent
    OBVIOUS
  <2>8. PICK at : at = {i \in DOMAIN m.order : m.order[i] = p.id}
    OBVIOUS
  <2>9. p.kind \in {"none", "draft", "comment"}
    BY <2>3, <2>7 DEF IsRow
  <2> DEFINE Posteds(r) == {r[q].comment : q \in {x \in DOMAIN r \cap {p.id} : r[x].state = "posted"}}
  <2>10. \A r : r[next].parent = p =>
            ParentIds(r, m, next) =
               CASE p.kind = "none" -> {NoComment}
                 [] p.kind = "comment" -> {p.id}
                 [] p.kind = "draft" /\ at # {} ->
                       {m.results[i].id : i \in {j \in at : m.results[j].status = "posted"}}
                 [] OTHER -> Posteds(r)
    BY <2>8 DEF ParentIds
  <2>11. CASE p.kind = "draft" /\ at = {}
    <3>1. p.id # t /\ p.id # next
      <4>1. next = m.order[m.idx] /\ m.idx \in DOMAIN m.order
        BY <1>1, <1>7, <2>1 DEF Current, Ended, IsMachine
      <4>2. \E i \in DOMAIN m.order : m.order[i] = t
        BY <1>1, <1>7 DEF Members, IsMachine
      <4> QED BY <2>8, <2>11, <4>1, <4>2
    <3>2. DOMAIN rows = DOMAIN review /\ (p.id \in DOMAIN review => rows[p.id] = review[p.id])
      BY <1>3, <3>1
    <3>3. Posteds(rows) = Posteds(review)
      BY <3>2
    <3>4. ParentIds(review, m, next) = Posteds(review) /\ ParentIds(rows, m, next) = Posteds(rows)
      <4> HIDE DEF Posteds
      <4> QED BY <2>4, <2>7, <2>10, <2>11
    <3> QED BY <2>6, <3>3, <3>4 DEF Blocked
  <2>12. CASE ~(p.kind = "draft" /\ at = {})
    <3>1. \A r : r[next].parent = p =>
             ParentIds(r, m, next) =
                CASE p.kind = "none" -> {NoComment}
                  [] p.kind = "comment" -> {p.id}
                  [] OTHER -> {m.results[i].id : i \in {j \in at : m.results[j].status = "posted"}}
      <4> HIDE DEF Posteds
      <4>1. p.kind = "none" \/ p.kind = "comment" \/ (p.kind = "draft" /\ at # {})
        BY <2>9, <2>12
      <4> QED BY <2>10, <4>1
    <3>2. ParentIds(review, m, next) = ParentIds(rows, m, next)
      BY <2>4, <2>7, <3>1
    <3> QED BY <2>6, <3>2 DEF Blocked
  <2> QED BY <2>11, <2>12
<1> QED BY <1>1, <1>4, <1>5, <1>6, <1>7 DEF Here

-----------------------------------------------------------------------------
(* Poised drivers *)

Standing(d) == IsMachine(d.m) /\ Rows(d.review)

\* The phases of a driver that is at the item its machine is at.
AtItem == {"recovery_check_queued", "awaiting_recovery_check", "recovery_check_paused",
           "wait_queued", "awaiting_wait", "wait_retry_paused", "awaiting_post",
           "post_retry_paused", "admission_paused"}
AtPost == {"post_queued", "awaiting_post", "post_retry_paused"}

\* An answer of the current item's POST.
IsAnswer(d, t, reply) ==
    /\ ~d.m.mustWait /\ ~d.m.aborted /\ t = d.current
    /\ reply.outcome \in {"posted", "rejected", "ambiguous"}

\* An outcome that is still to be checkpointed, with the intent of the item the
\* machine is at.
IsNextIntent(d, p) ==
    /\ ~p.checkpointDone /\ p.outcome # NoOutcome
    /\ p.next.temp = Current(d.m) /\ p.temp \in Members(d.m.order)
    /\ Here(d.review, d.m) /\ ~d.m.mustWait /\ ~d.m.aborted

Poised(d) ==
    /\ Standing(d)
    /\ d.phase \in AtItem => Aligned(d)
    /\ d.phase \in AtPost => Here(d.review, d.m) /\ ~d.m.mustWait
    /\ d.phase = "admission_paused" /\ d.admission.kind = "post" =>
         IsAnswer(d, d.admission.cmd.temp, d.admission.reply)
    /\ d.policyCheck => Aligned(d) /\ ~d.m.mustWait
    /\ d.phase = "persistence_paused" /\ d.persistence.completion = "none" =>
         IsNextIntent(d, d.persistence)

\* What a driver's own command is about.
Meant(d, c) ==
    /\ c.kind = "post" => c.temp = Current(d.m) /\ ~d.m.aborted
    /\ c.kind \in {"wait", "find_duplicate"} => c.temp = d.current

\* A handler that met process x leaves its driver poised: paused, or with a
\* command that is for the current item; ex is the one way around that.
Reaches(x, ex, r) ==
    r.x.d # NoDurable =>
        /\ Poised(r.x.d)
        /\ \/ r.x.queue = x.queue
              /\ (r.x.d.phase \in PausedPhase \/ r.x.d.m.aborted \/ ex)
           \/ \E c : /\ c.kind \in Kinds /\ c.op = r.x.d.op
                     /\ r.x.d.phase = QueuedPhase(c.kind)
                     /\ r.x.queue = Append(x.queue, c) /\ Meant(r.x.d, c)
                     /\ c.kind = "post" => c.temp = r.x.d.current \/ ex

LEMMA PausesTo ==
    ASSUME NEW x, NEW y, y.queue = x.queue, Poised(y.d), NEW ex,
           y.d.phase \in PausedPhase \/ y.d.m.aborted \/ ex, NEW s, NEW f
    PROVE  Reaches(x, ex, Result(y, s, f))
  BY DEF Reaches, Result

LEMMA SendsTo ==
    ASSUME NEW x, NEW y, IsProcess(y), y.queue = x.queue, NEW d, Poised(d), NEW c,
           c.kind \in Kinds, c.op = d.op, d.phase = QueuedPhase(c.kind), Meant(d, c),
           NEW ex, c.kind = "post" => c.temp = d.current \/ ex, NEW s, NEW f
    PROVE  Reaches(x, ex, Result(Enqueue(y, d, c), s, f))
  BY EnqueueIs DEF Reaches, Result

LEMMA EndsTo ==
    ASSUME NEW x, NEW y, y.d = NoDurable, NEW ex, NEW s, NEW f
    PROVE  Reaches(x, ex, Result(y, s, f))
  BY DEF Reaches, Result

\* Reaches looks at the queue only.
LEMMA ReachesFrom ==
    ASSUME NEW x, NEW y, y.queue = x.queue, NEW ex, NEW r, Reaches(y, ex, r)
    PROVE  Reaches(x, ex, r)
  BY DEF Reaches

LEMMA CommandHas ==
    ASSUME NEW kind, NEW op, NEW t, NEW parent, NEW draft, NEW retry, NEW c,
           c = Command(kind, op, t, parent, draft, retry)
    PROVE  c.kind = kind /\ c.op = op /\ c.temp = t
  BY DEF Command

\* A driver that only changed its phase, to one of a plain pause or queue.
LEMMA PhasedTo ==
    ASSUME NEW d, Standing(d), ~d.policyCheck, NEW e, e.m = d.m, e.review = d.review,
           e.current = d.current, ~e.policyCheck,
           \/ e.phase \in {"duplicate_queued", "awaiting_duplicate", "duplicate_check_paused",
                           "duplicate_persistence_paused"}
           \/ /\ Aligned(d)
              /\ e.phase \in AtItem \ {"awaiting_post", "post_retry_paused", "admission_paused"}
           \/ e.phase = "post_queued" /\ Here(d.review, d.m) /\ ~d.m.mustWait
    PROVE  Poised(e)
<1>1. Standing(e) /\ (Aligned(d) => Aligned(e)) /\ (Here(d.review, d.m) => Here(e.review, e.m))
  BY DEF Standing, Aligned
<1>2. CASE e.phase \in {"duplicate_queued", "awaiting_duplicate", "duplicate_check_paused",
                        "duplicate_persistence_paused"}
  BY <1>1, <1>2 DEF Poised, AtItem, AtPost
<1>3. CASE /\ Aligned(d)
           /\ e.phase \in AtItem \ {"awaiting_post", "post_retry_paused", "admission_paused"}
  BY <1>1, <1>3 DEF Poised, AtItem, AtPost
<1>4. CASE e.phase = "post_queued" /\ Here(d.review, d.m) /\ ~d.m.mustWait
  BY <1>1, <1>4 DEF Poised, AtItem, AtPost
<1> QED BY <1>2, <1>3, <1>4

LEMMA ScheduleWaitTo ==
    ASSUME NEW x, IsProcess(x), NEW d, Clear(d), Standing(d), Aligned(d), NEW s,
           NEW r \in ScheduleWait(x, d, s), NEW ex
    PROVE  Reaches(x, ex, r)
<1>1. PICK e, g : e = [d EXCEPT !.phase = "wait_queued"]
                  /\ g = [d EXCEPT !.wait = d.m.retry, !.phase = "wait_retry_paused"]
  OBVIOUS
<1>2. PICK a \in Retrying(s, d, Current(d.m), d.m.retry) :
          r = IF a.done THEN Result(Enqueue(x, e, WaitCommand(d)), a.db, a.f)
              ELSE Result([x EXCEPT !.d = g], a.db, a.f)
  BY <1>1 DEF ScheduleWait
<1>3. /\ e.m = d.m /\ e.review = d.review /\ e.current = d.current /\ ~e.policyCheck
      /\ e.phase = "wait_queued" /\ e.op = d.op
      /\ g.m = d.m /\ g.review = d.review /\ g.current = d.current /\ ~g.policyCheck
      /\ g.phase = "wait_retry_paused"
  BY <1>1 DEF Clear, IsDriver
<1>4. Poised(e) /\ Poised(g)
  BY <1>3, PhasedTo DEF AtItem, Clear
<1>5. CASE a.done
  <2>1. PICK c : c = WaitCommand(d)
    OBVIOUS
  <2>2. c.kind = "wait" /\ c.op = d.op /\ c.temp = Current(d.m)
    BY <2>1, CommandHas DEF WaitCommand
  <2>3. /\ c.kind \in Kinds /\ c.op = e.op /\ e.phase = QueuedPhase(c.kind) /\ Meant(e, c)
        /\ c.kind # "post"
    BY <1>3, <2>2 DEF Kinds, QueuedPhase, Meant, Aligned
  <2>4. r = Result(Enqueue(x, e, c), a.db, a.f)
    BY <1>2, <1>5, <2>1
  <2> QED BY <1>4, <2>3, <2>4, SendsTo
<1>6. CASE ~a.done
  <2>1. PICK y : y = [x EXCEPT !.d = g]
    OBVIOUS
  <2>2. y.queue = x.queue /\ y.d = g
    BY <2>1 DEF IsProcess
  <2>3. r = Result(y, a.db, a.f)
    BY <1>2, <1>6, <2>1
  <2>4. y.d.phase \in PausedPhase /\ Poised(y.d)
    BY <1>3, <1>4, <2>2 DEF PausedPhase
  <2> QED BY <2>2, <2>3, <2>4, PausesTo
<1> QED BY <1>5, <1>6

LEMMA queueDuplicateCheckTo ==
    ASSUME NEW x, IsProcess(x), IsDriver(x.d), ~x.d.policyCheck, Standing(x.d),
           NEW s, NEW f, NEW ex
    PROVE  Reaches(x, ex, Result(queueDuplicateCheck(x), s, f))
<1>1. PICK d, step : d = Advanced(x.d) /\ step = NextStep(x.d)
  OBVIOUS
<1>2. PICK e : e = [d EXCEPT !.policyCheck = step.kind = "check" /\ ~d.sourceChanged,
                             !.phase = "duplicate_queued"]
  OBVIOUS
<1>3. PICK g : g = [d EXCEPT !.phase = "duplicate_check_paused"]
  OBVIOUS
<1>4. PICK c : c = Command("find_duplicate", d.op, step.temp, step.parent,
                           d.review[step.temp], NoRetry)
  OBVIOUS
<1>5. queueDuplicateCheck(x) = IF step.kind \in {"post", "check"} /\ step.temp = d.current
                               THEN Enqueue(x, e, c) ELSE [x EXCEPT !.d = g]
  BY <1>1, <1>2, <1>3, <1>4 DEF queueDuplicateCheck
<1>6. IsDriver(d) /\ ~d.policyCheck
  BY <1>1, AdvancedIs
<1>7. /\ Standing(d)
      /\ step.kind \in {"check", "post"} =>
           /\ Here(d.review, d.m) /\ step.temp = Current(d.m) /\ ~d.m.mustWait
  <2>1. PICK d0 : d0 = x.d
    OBVIOUS
  <2>2. IsDriver(d0) /\ IsMachine(d0.m) /\ Rows(d0.review) /\ d = Advanced(d0) /\ step = NextStep(d0)
    BY <1>1, <2>1 DEF Standing
  <2>3. /\ IsMachine(d.m) /\ d.review = d0.review
        /\ SameControl(d0.m, d.m)
        /\ step.kind \in {"check", "post"} => ~d.m.mustWait
        /\ step.kind \in {"wait", "check", "post"} => Here(d.review, d.m) /\ step.temp = Current(d.m)
    BY <2>2, AdvancedTo
  <2> QED BY <2>2, <2>3 DEF Standing
<1>8. /\ e.m = d.m /\ e.review = d.review /\ e.current = d.current /\ e.op = d.op
      /\ e.phase = "duplicate_queued" /\ e.policyCheck => step.kind = "check"
      /\ g.m = d.m /\ g.review = d.review /\ g.current = d.current /\ ~g.policyCheck
      /\ g.phase = "duplicate_check_paused"
  BY <1>2, <1>3, <1>6 DEF IsDriver
<1>9. CASE step.kind \in {"post", "check"} /\ step.temp = d.current
  <2>1. Standing(e) /\ Aligned(e) /\ ~e.m.mustWait /\ e.phase = "duplicate_queued"
    BY <1>2, <1>6, <1>7, <1>8, <1>9 DEF Standing, Aligned, IsDriver
  <2>2. Poised(e)
    BY <2>1 DEF Poised, AtItem, AtPost
  <2>3. c.kind = "find_duplicate" /\ c.op = d.op /\ c.temp = step.temp
    BY <1>4, CommandHas
  <2>4. /\ c.kind \in Kinds /\ c.op = e.op /\ e.phase = QueuedPhase(c.kind) /\ Meant(e, c)
        /\ c.kind # "post"
    BY <1>8, <1>9, <2>1, <2>3 DEF Kinds, QueuedPhase, Meant
  <2> QED BY <1>5, <1>9, <2>2, <2>4, SendsTo
<1>10. CASE ~(step.kind \in {"post", "check"} /\ step.temp = d.current)
  <2>1. PICK y : y = [x EXCEPT !.d = g]
    OBVIOUS
  <2>2. y.queue = x.queue /\ y.d = g
    BY <2>1 DEF IsProcess
  <2>3. Poised(g) /\ g.phase \in PausedPhase
    BY <1>6, <1>7, <1>8, PhasedTo DEF PausedPhase
  <2>4. queueDuplicateCheck(x) = y
    BY <1>5, <1>10, <2>1
  <2> QED BY <2>2, <2>3, <2>4, PausesTo
<1> QED BY <1>9, <1>10

LEMMA retryPersistenceTo ==
    ASSUME NEW x, IsProcess(x), Sound(x.d), x.d.persistence # NoPersistence, Poised(x.d),
           NEW s, NEW r \in retryPersistence(x, s), NEW ex
    PROVE  Reaches(x, ex, r)
<1> DEFINE D == x.d
<1> DEFINE P == D.persistence
<1> DEFINE D1 == [D EXCEPT !.persistence.retryDone = @ \/ P.retry # NoRetry]
<1> DEFINE D2 == IF P.checkpointDone \/ P.outcome = NoOutcome THEN D1
                 ELSE [recordCheckpoint(D1, P.temp, P.outcome, P.next.temp)
                         EXCEPT !.persistence.checkpointDone = TRUE]
<1> DEFINE D3 == [D2 EXCEPT !.persistence = NoPersistence, !.phase = "post_queued"]
<1> DEFINE Retried == IF P.retryDone \/ P.retry = NoRetry THEN NoCall(s)
                      ELSE Retrying(s, D, P.temp, P.retry)
<1> DEFINE Checkpointed(s1) == IF P.checkpointDone \/ P.outcome = NoOutcome THEN NoCall(s1)
                               ELSE Checkpointing(s1, D, P.temp, P.outcome, P.next.temp)
<1> DEFINE Completed(s2) == IF P.completion = "none" THEN NoCall(s2)
                            ELSE Completing(s2, D.op, P.completion, P.restore)
<1> DEFINE After == IF P.completion # "none" THEN destroy(x)
                    ELSE Enqueue(x, D3, PostCommand(D, P.next))
<1>7. PICK a \in Retried :
          r \in IF ~a.done THEN {Result(x, a.db, a.f)} ELSE
                UNION {IF ~b.done THEN {Result([x EXCEPT !.d = D1], b.db, b.f)} ELSE
                         {IF ~c.done THEN Result([x EXCEPT !.d = D2], c.db, c.f)
                          ELSE Result(After, c.db, 0) : c \in Completed(b.db)}
                       : b \in Checkpointed(a.db)}
  BY DEF retryPersistence
<1>8. \E s1, f1 :
          \/ r = Result(x, s1, f1) \/ r = Result([x EXCEPT !.d = D1], s1, f1)
          \/ P.completion # "none" /\ r = Result([x EXCEPT !.d = D2], s1, f1)
          \/ P.completion # "none" /\ r = Result(destroy(x), s1, f1)
          \/ P.completion = "none" /\ r = Result(Enqueue(x, D3, PostCommand(D, P.next)), s1, f1)
  <2>1. \A s2 : P.completion = "none" => \A e \in Completed(s2) : e.done
    BY DEF NoCall
  <2> HIDE DEF Retried, Checkpointed, Completed, After, D1, D2, D3
  <2>3. CASE ~a.done
    BY <1>7, <2>3
  <2>4. CASE a.done
    <3>1. PICK b \in Checkpointed(a.db) :
              r \in IF ~b.done THEN {Result([x EXCEPT !.d = D1], b.db, b.f)} ELSE
                      {IF ~e.done THEN Result([x EXCEPT !.d = D2], e.db, e.f)
                       ELSE Result(After, e.db, 0) : e \in Completed(b.db)}
      BY <1>7, <2>4
    <3>2. CASE ~b.done
      BY <3>1, <3>2
    <3>3. CASE b.done
      <4>1. PICK e \in Completed(b.db) :
                r = IF ~e.done THEN Result([x EXCEPT !.d = D2], e.db, e.f)
                    ELSE Result(After, e.db, 0)
        BY <3>1, <3>3
      <4>2. CASE ~e.done
        BY <2>1, <4>1, <4>2
      <4>3. CASE e.done
        BY <4>1, <4>3 DEF After
      <4> QED BY <4>2, <4>3
    <3> QED BY <3>2, <3>3
  <2> QED BY <2>3, <2>4
<1> HIDE DEF Retried, Checkpointed, Completed, After, D1, D2, D3
<1>1. PICK d, p : d = D /\ p = P
  OBVIOUS
<1>2. PICK d1 : d1 = D1 /\ d1 = [d EXCEPT !.persistence.retryDone = @ \/ p.retry # NoRetry]
  BY <1>1 DEF D1
<1>3. PICK k : k = recordCheckpoint(d1, p.temp, p.outcome, p.next.temp)
  OBVIOUS
<1>4. PICK d2 : d2 = D2 /\ d2 = IF p.checkpointDone \/ p.outcome = NoOutcome THEN d1
                                ELSE [k EXCEPT !.persistence.checkpointDone = TRUE]
  BY <1>1, <1>2, <1>3 DEF D2
<1>5. PICK d3 : d3 = D3 /\ d3 = [d2 EXCEPT !.persistence = NoPersistence, !.phase = "post_queued"]
  BY <1>4 DEF D3
<1>6. PICK c : c = PostCommand(d, p.next)
  OBVIOUS
<1>9. /\ IsDriver(d) /\ IsPersistence(p) /\ d.phase = "persistence_paused"
      /\ d.admission = NoAdmission /\ ~d.policyCheck /\ Poised(d)
  BY <1>1 DEF Sound, Checking
<1>10. /\ IsDriver(d1) /\ d1.m = d.m /\ d1.review = d.review /\ d1.current = d.current
       /\ d1.phase = d.phase /\ ~d1.policyCheck /\ d1.op = d.op
       /\ d1.persistence = [p EXCEPT !.retryDone = @ \/ p.retry # NoRetry]
  BY <1>1, <1>2, <1>9 DEF IsDriver
<1>11. /\ DOMAIN d1.persistence = DOMAIN p /\ d1.persistence.completion = p.completion
       /\ d1.persistence.checkpointDone = p.checkpointDone
       /\ d1.persistence.outcome = p.outcome /\ d1.persistence.next = p.next
       /\ d1.persistence.temp = p.temp
  BY <1>9, <1>10 DEF IsPersistence
<1>12. Poised(d1)
  <2>1. p.completion = "none" => IsNextIntent(d, p)
    BY <1>1, <1>9 DEF Poised
  <2>2. p.completion = "none" => IsNextIntent(d1, d1.persistence)
    BY <1>10, <1>11, <2>1 DEF IsNextIntent
  <2> QED BY <1>9, <1>10, <1>11, <2>2 DEF Poised, Standing, AtItem, AtPost
<1>13. /\ IsDriver(k) /\ k.current = p.next.temp /\ k.op = d.op /\ k.phase = d.phase
       /\ k.m = d.m /\ ~k.policyCheck /\ Rows(k.review) /\ k.persistence = d1.persistence
       /\ Here(d.review, d.m) /\ p.next.temp = Current(d.m) /\ p.temp \in Members(d.m.order) =>
            Here(k.review, d.m)
  <2>1. PICK next, t, outcome : next = p.next.temp /\ t = p.temp /\ outcome = p.outcome
    OBVIOUS
  <2>2. k = recordCheckpoint(d1, t, outcome, next)
    BY <1>3, <2>1
  <2>3. Rows(d1.review) /\ IsMachine(d1.m)
    BY <1>12 DEF Poised, Standing
  <2>4. /\ Rows(k.review)
        /\ Here(d1.review, d1.m) /\ next = Current(d1.m) /\ t \in Members(d1.m.order) =>
             Here(k.review, d1.m)
    BY <1>10, <2>2, <2>3, recordCheckpointTo
  <2>5. /\ IsDriver(k) /\ k.current = next /\ k.op = d1.op /\ k.phase = d1.phase
        /\ k.policyCheck = d1.policyCheck /\ k.m = d1.m /\ k.persistence = d1.persistence
    BY <1>10, <2>2, recordCheckpointIs
  <2> QED BY <1>10, <2>1, <2>4, <2>5
<1>14. /\ IsDriver(d2) /\ d2.op = d.op /\ d2.phase = d.phase /\ d2.m = d.m /\ ~d2.policyCheck
       /\ d2.persistence.completion = p.completion
       /\ Rows(d2.review)
       /\ ~(p.checkpointDone \/ p.outcome = NoOutcome) =>
            d2.review = k.review /\ d2.current = p.next.temp
  <2>1. CASE p.checkpointDone \/ p.outcome = NoOutcome
    BY <1>4, <1>10, <1>11, <1>12, <2>1 DEF Poised, Standing
  <2>2. CASE ~(p.checkpointDone \/ p.outcome = NoOutcome)
    <3>1. d2 = [k EXCEPT !.persistence.checkpointDone = TRUE]
      BY <1>4, <2>2
    <3>2. d2.persistence = [d1.persistence EXCEPT !.checkpointDone = TRUE]
      BY <1>13, <3>1 DEF IsDriver
    <3>3. d2.persistence.completion = p.completion
      BY <1>9, <1>11, <3>2 DEF IsPersistence
    <3> QED BY <1>13, <2>2, <3>1, <3>3 DEF IsDriver
  <2> QED BY <2>1, <2>2
<1>15. PICK s1, f1 :
          \/ r = Result(x, s1, f1) \/ r = Result([x EXCEPT !.d = d1], s1, f1)
          \/ p.completion # "none" /\ r = Result([x EXCEPT !.d = d2], s1, f1)
          \/ p.completion # "none" /\ r = Result(destroy(x), s1, f1)
          \/ p.completion = "none" /\ r = Result(Enqueue(x, d3, c), s1, f1)
  BY <1>1, <1>2, <1>4, <1>5, <1>6, <1>8
<1>16. CASE r = Result(x, s1, f1)
  <2>1. Poised(x.d) /\ x.d.phase \in PausedPhase
    BY <1>1, <1>9 DEF PausedPhase
  <2> QED BY <1>16, <2>1, PausesTo
<1>17. CASE r = Result([x EXCEPT !.d = d1], s1, f1)
  <2>1. PICK y : y = [x EXCEPT !.d = d1]
    OBVIOUS
  <2>2. y.queue = x.queue /\ y.d = d1 /\ r = Result(y, s1, f1)
    BY <1>17, <2>1 DEF IsProcess
  <2>3. Poised(y.d) /\ y.d.phase \in PausedPhase
    BY <1>9, <1>10, <1>12, <2>2 DEF PausedPhase
  <2> QED BY <2>2, <2>3, PausesTo
<1>18. CASE p.completion # "none" /\ r = Result([x EXCEPT !.d = d2], s1, f1)
  <2>1. PICK y : y = [x EXCEPT !.d = d2]
    OBVIOUS
  <2>2. y.queue = x.queue /\ y.d = d2 /\ r = Result(y, s1, f1)
    BY <1>18, <2>1 DEF IsProcess
  <2>3. Standing(d2)
    BY <1>9, <1>14 DEF Standing, Poised
  <2>4. Poised(y.d) /\ y.d.phase \in PausedPhase
    BY <1>9, <1>14, <1>18, <2>2, <2>3 DEF PausedPhase, Poised, AtItem, AtPost
  <2> QED BY <2>2, <2>4, PausesTo
<1>19. CASE p.completion # "none" /\ r = Result(destroy(x), s1, f1)
  <2>1. destroy(x).d = NoDurable
    BY DEF destroy, IsProcess
  <2> QED BY <1>19, <2>1, EndsTo
<1>20. CASE p.completion = "none" /\ r = Result(Enqueue(x, d3, c), s1, f1)
  <2>1. IsNextIntent(d, p)
    BY <1>1, <1>9, <1>20 DEF Poised
  <2>2. /\ d2.review = k.review /\ d2.current = p.next.temp /\ Here(k.review, d.m)
        /\ p.next.temp = Current(d.m) /\ ~d.m.mustWait /\ ~d.m.aborted
    BY <1>13, <1>14, <2>1 DEF IsNextIntent
  <2>3. /\ d3.m = d.m /\ d3.review = k.review /\ d3.current = p.next.temp /\ d3.op = d.op
        /\ d3.phase = "post_queued" /\ ~d3.policyCheck
    BY <1>5, <1>14, <2>2 DEF IsDriver
  <2>4. Standing(d2) /\ Here(d2.review, d2.m) /\ ~d2.m.mustWait
    BY <1>9, <1>14, <2>2 DEF Standing, Poised
  <2>5. Poised(d3)
    BY <1>14, <2>2, <2>3, <2>4, PhasedTo
  <2>6. c.kind = "post" /\ c.op = d.op /\ c.temp = p.next.temp
    BY <1>6, CommandHas DEF PostCommand
  <2>7. /\ c.kind \in Kinds /\ c.op = d3.op /\ d3.phase = QueuedPhase(c.kind) /\ Meant(d3, c)
        /\ c.temp = d3.current
    BY <2>2, <2>3, <2>6 DEF Kinds, QueuedPhase, Meant
  <2> QED BY <1>20, <2>5, <2>7, SendsTo
<1> QED BY <1>15, <1>16, <1>17, <1>18, <1>19, <1>20

LEMMA PersistTo ==
    ASSUME NEW x, IsProcess(x), NEW d, Clear(d), Standing(d), NEW s,
           NEW p, IsPersistence(p), p.completion = "none" => IsNextIntent(d, p),
           NEW r \in Persist(x, d, s, p), NEW ex
    PROVE  Reaches(x, ex, r)
<1>1. PICK e : e = [d EXCEPT !.persistence = p, !.phase = "persistence_paused"]
  OBVIOUS
<1>2. PICK y : y = [x EXCEPT !.d = e]
  OBVIOUS
<1>3. /\ Sound(e) /\ e.persistence # NoPersistence /\ e.m = d.m /\ e.review = d.review
      /\ e.persistence = p /\ e.phase = "persistence_paused" /\ ~e.policyCheck
  BY <1>1 DEF Clear, Sound, IsDriver, Checking, IsPersistence, NoPersistence
<1>4. IsProcess(y) /\ y.queue = x.queue /\ y.d = e
  BY <1>2 DEF IsProcess
<1>5. Poised(e)
  <2>1. p.completion = "none" => IsNextIntent(e, p)
    BY <1>3 DEF IsNextIntent
  <2> QED BY <1>3, <2>1 DEF Poised, Standing, AtItem, AtPost
<1>6. r \in retryPersistence(y, s)
  BY <1>1, <1>2 DEF Persist
<1>7. Reaches(y, ex, r)
  BY <1>3, <1>4, <1>5, <1>6, retryPersistenceTo
<1> QED BY <1>4, <1>7, ReachesFrom

LEMMA PersistenceIs ==
    ASSUME NEW t, NEW outcome, NEW next, NEW completion \in {"none", "clean", "partial", "aborted"},
           NEW restore, NEW retry, NEW p,
           p = Persistence(t, outcome, next, completion, restore, retry)
    PROVE  /\ IsPersistence(p) /\ p.completion = completion /\ p.temp = t /\ p.outcome = outcome
           /\ p.next = next /\ ~p.checkpointDone
  BY DEF IsPersistence, Persistence

\* The POST of the item the machine is at.
LEMMA PostIsMeant ==
    ASSUME NEW x, NEW y, IsProcess(y), y.queue = x.queue, NEW d, IsDriver(d), Standing(d),
           ~d.policyCheck, NEW step, step.temp = Current(d.m), Here(d.review, d.m),
           ~d.m.mustWait, ~d.m.aborted, NEW ex, step.temp = d.current \/ ex, NEW s, NEW f
    PROVE  Reaches(x, ex,
                   Result(Enqueue(y, [d EXCEPT !.phase = "post_queued"], PostCommand(d, step)), s, f))
<1>1. PICK e : e = [d EXCEPT !.phase = "post_queued"]
  OBVIOUS
<1>2. /\ e.m = d.m /\ e.review = d.review /\ e.current = d.current /\ e.op = d.op
      /\ e.phase = "post_queued" /\ ~e.policyCheck
  BY <1>1 DEF IsDriver
<1>3. Poised(e)
  BY <1>2, PhasedTo
<1>4. PICK c : c = PostCommand(d, step)
  OBVIOUS
<1>5. c.kind = "post" /\ c.op = d.op /\ c.temp = step.temp
  BY <1>4, CommandHas DEF PostCommand
<1>6. /\ c.kind \in Kinds /\ c.op = e.op /\ e.phase = QueuedPhase(c.kind) /\ Meant(e, c)
      /\ c.temp = e.current \/ ex
  BY <1>2, <1>5 DEF Kinds, QueuedPhase, Meant
<1>7. Reaches(x, ex, Result(Enqueue(y, e, c), s, f))
  BY <1>3, <1>6, SendsTo
<1> QED BY <1>1, <1>4, <1>7

LEMMA OutcomeOfIs ==
    ASSUME NEW reply, reply.outcome \in {"posted", "rejected", "ambiguous"}
    PROVE  OutcomeOf(reply) # NoOutcome
  BY DEF OutcomeOf, NoOutcome, Posted, Failed, Unknown

LEMMA acceptPostTo ==
    ASSUME NEW x, IsProcess(x), Clear(x.d), Standing(x.d), Aligned(x.d),
           x.d.phase = "awaiting_post", NEW t, NEW reply, IsAnswer(x.d, t, reply),
           NEW s, NEW r \in acceptPost(x, s, t, reply), NEW ex
    PROVE  Reaches(x, ex, r)
<1> DEFINE Reported == [x.d EXCEPT !.m = report(@, reply)]
<1> DEFINE D == Advanced(Reported)
<1> DEFINE Step0 == NextStep(Reported)
<1> DEFINE row == D.review[t]
<1> DEFINE completion == IF isClean(D.m) THEN "clean" ELSE "partial"
<1> DEFINE P1 == Persistence(t, OutcomeOf(reply), Step0, "none", NoOutcome, TerminalRetry(D.m))
<1> DEFINE P2 == Persistence(t, OutcomeOf(reply), NoStep, completion, NoOutcome, TerminalRetry(D.m))
<1> DEFINE P3 == Persistence(t, NoOutcome, NoStep, "aborted",
                             [state |-> row.state, comment |-> row.comment], NoRetry)
<1> DEFINE Y == [x EXCEPT !.d = D]
<1>1. r \in CASE Step0.kind = "post" -> Persist(x, D, s, P1)
              [] Step0.kind = "done" -> Persist(x, D, s, P2)
              [] Step0.kind = "aborted" /\ row.state \in {"draft", "failed", "outcome_unknown"} ->
                   Persist(x, D, s, P3)
              [] Step0.kind = "aborted" /\ row.state \notin {"draft", "failed", "outcome_unknown"} ->
                   Settled(x, D, s)
              [] Step0.kind = "wait" -> ScheduleWait(x, D, s)
              [] Step0.kind = "check" -> {Result(queueDuplicateCheck(Y), s, 0)}
  BY DEF acceptPost
<1>2. PICK d0, reported : d0 = x.d /\ reported = Reported
  OBVIOUS
<1>3. PICK d, step, y : d = D /\ step = Step0 /\ y = Y
  OBVIOUS
<1>4. PICK p1, p2, p3 : p1 = P1 /\ p2 = P2 /\ p3 = P3
  OBVIOUS
<1>5. completion \in {"clean", "partial"}
  OBVIOUS
<1>6. PICK n : n = report(d0.m, reply)
  OBVIOUS
<1>7. /\ IsDriver(d0) /\ IsMachine(d0.m) /\ Rows(d0.review) /\ Aligned(d0) /\ Clear(d0)
      /\ ~d0.m.mustWait /\ ~d0.m.aborted /\ t = d0.current
      /\ reply.outcome \in {"posted", "rejected", "ambiguous"} /\ d0.phase = "awaiting_post"
  BY <1>2 DEF Clear, Standing, IsAnswer
<1>8. /\ IsMachine(n) /\ n.order = d0.m.order
      /\ \/ Decides(d0.m, n)
         \/ Remains(d0.m, n) /\ n.aborted = d0.m.aborted
         \/ Remains(d0.m, n) /\ n.aborted /\ n.mustWait = d0.m.mustWait
  BY <1>6, <1>7, reportTo
<1>9. /\ reported.m = n /\ reported.review = d0.review /\ reported.current = d0.current
      /\ Clear(reported) /\ IsDriver(reported) /\ reported.phase = d0.phase
  <2>1. reported = [d0 EXCEPT !.m = n]
    BY <1>2, <1>6
  <2>2. "aborted" \in DOMAIN n
    BY <1>8 DEF IsMachine
  <2> QED BY <1>7, <2>1, <2>2 DEF Clear, IsDriver
<1>10. Remains(d0.m, n) => Aligned(reported)
  <2> SUFFICES ASSUME Remains(d0.m, n) PROVE Aligned(reported)
    OBVIOUS
  <2>1. PICK review, m : review = d0.review /\ m = d0.m
    OBVIOUS
  <2>2. /\ n.order = m.order /\ n.idx = m.idx /\ n.results = m.results
        /\ n.aborted = m.aborted \/ n.aborted
    BY <1>8, <2>1 DEF Remains, Decides
  <2>3. Here(review, m) /\ Current(m) = d0.current
    BY <1>7, <2>1 DEF Aligned
  <2>4. Here(review, n) /\ Current(n) = Current(m)
    BY <2>2, <2>3, SameHere
  <2> QED BY <1>9, <2>1, <2>3, <2>4 DEF Aligned
<1>11. d = Advanced(reported) /\ step = NextStep(reported)
  BY <1>2, <1>3
<1>12. /\ IsMachine(d.m) /\ SameControl(n, d.m) /\ d.review = d0.review
       /\ Aligned(reported) => Aligned(d)
       /\ step.kind \in {"aborted", "done", "wait", "check", "post"}
       /\ step.kind = "aborted" <=> d.m.aborted
       /\ step.kind = "wait" => d.m.mustWait
       /\ step.kind \in {"check", "post"} => ~d.m.mustWait
       /\ step.kind \in {"wait", "check", "post"} => Here(d.review, d.m) /\ step.temp = Current(d.m)
  <2>1. IsDriver(reported) /\ IsMachine(reported.m)
    BY <1>8, <1>9
  <2>2. /\ IsMachine(d.m) /\ SameControl(reported.m, d.m) /\ d.review = reported.review
        /\ Aligned(reported) => Aligned(d)
        /\ step.kind \in {"aborted", "done", "wait", "check", "post"}
        /\ step.kind = "aborted" <=> d.m.aborted
        /\ step.kind = "wait" => d.m.mustWait
        /\ step.kind \in {"check", "post"} => ~d.m.mustWait
        /\ step.kind \in {"wait", "check", "post"} => Here(d.review, d.m) /\ step.temp = Current(d.m)
    BY <1>11, <2>1, AdvancedTo
  <2> QED BY <1>9, <2>2
<1>13. /\ Clear(d) /\ IsDriver(d) /\ d.phase = "awaiting_post" /\ ~d.policyCheck
  BY <1>7, <1>9, <1>11, AdvancedIs DEF Clear
<1>14. Standing(d)
  BY <1>7, <1>12 DEF Standing
<1>15. t \in Members(d.m.order)
  <2>1. d0.m.idx \in 1..Len(d0.m.order) /\ t = d0.m.order[d0.m.idx]
    BY <1>7 DEF Aligned, Here, Ended, Current, IsMachine
  <2>2. d.m.order = d0.m.order
    BY <1>8, <1>12 DEF SameControl
  <2> QED BY <2>1, <2>2 DEF Members
<1>16. /\ IsPersistence(p1) /\ p1.completion = "none" /\ p1.temp = t
       /\ p1.outcome = OutcomeOf(reply) /\ p1.next = step /\ ~p1.checkpointDone
       /\ IsPersistence(p2) /\ p2.completion # "none"
       /\ IsPersistence(p3) /\ p3.completion # "none"
  <2>1. PICK o1, o2, retry, kind, restore :
            /\ o1 = OutcomeOf(reply) /\ o2 = NoOutcome /\ retry = TerminalRetry(D.m)
            /\ kind = completion /\ restore = [state |-> row.state, comment |-> row.comment]
    OBVIOUS
  <2>2. PICK none, stop : none = NoRetry /\ stop = NoStep
    OBVIOUS
  <2>3. /\ p1 = Persistence(t, o1, step, "none", o2, retry)
        /\ p2 = Persistence(t, o1, stop, kind, o2, retry)
        /\ p3 = Persistence(t, o2, stop, "aborted", restore, none)
    BY <1>3, <1>4, <2>1, <2>2
  <2>4. kind \in {"clean", "partial"}
    BY <1>5, <2>1
  <2>5. /\ IsPersistence(p1) /\ p1.completion = "none" /\ p1.temp = t
        /\ p1.outcome = o1 /\ p1.next = step /\ ~p1.checkpointDone
    <3>1. PICK k0 : k0 = "none" /\ k0 \in {"none", "clean", "partial", "aborted"}
      OBVIOUS
    <3>2. p1 = Persistence(t, o1, step, k0, o2, retry)
      BY <2>3, <3>1
    <3>3. /\ IsPersistence(p1) /\ p1.completion = k0 /\ p1.temp = t
          /\ p1.outcome = o1 /\ p1.next = step /\ ~p1.checkpointDone
      BY <3>1, <3>2, PersistenceIs
    <3> QED BY <3>1, <3>3
  <2>6. IsPersistence(p2) /\ p2.completion # "none"
    BY <2>3, <2>4, PersistenceIs
  <2>7. IsPersistence(p3) /\ p3.completion # "none"
    BY <2>3, PersistenceIs
  <2> QED BY <2>1, <2>5, <2>6, <2>7
<1>17. /\ IsProcess(y) /\ y.queue = x.queue /\ y.d = d
  BY <1>3 DEF IsProcess
<1> HIDE DEF D, Step0, row, P1, P2, P3, Y, Reported, completion
<1>18. \/ step.kind = "post" /\ r \in Persist(x, d, s, p1)
       \/ r \in Persist(x, d, s, p2) \/ r \in Persist(x, d, s, p3)
       \/ step.kind = "aborted" /\ r \in Settled(x, d, s)
       \/ step.kind = "wait" /\ r \in ScheduleWait(x, d, s)
       \/ step.kind = "check" /\ r = Result(queueDuplicateCheck(y), s, 0)
  <2>1. Step0.kind \in {"aborted", "done", "wait", "check", "post"}
    BY <1>3, <1>12
  <2>2. \/ Step0.kind = "post" /\ r \in Persist(x, D, s, P1)
        \/ r \in Persist(x, D, s, P2) \/ r \in Persist(x, D, s, P3)
        \/ Step0.kind = "aborted" /\ r \in Settled(x, D, s)
        \/ Step0.kind = "wait" /\ r \in ScheduleWait(x, D, s)
        \/ Step0.kind = "check" /\ r = Result(queueDuplicateCheck(Y), s, 0)
    BY <1>1, <2>1
  <2> QED BY <1>3, <1>4, <2>2
<1>19. CASE step.kind = "post" /\ r \in Persist(x, d, s, p1)
  <2>1. p1.outcome # NoOutcome
    BY <1>7, <1>16, OutcomeOfIs
  <2>2. IsNextIntent(d, p1)
    BY <1>12, <1>15, <1>16, <1>19, <2>1 DEF IsNextIntent
  <2> QED BY <1>13, <1>14, <1>16, <1>19, <2>2, PersistTo
<1>20. CASE r \in Persist(x, d, s, p2) \/ r \in Persist(x, d, s, p3)
  BY <1>13, <1>14, <1>16, <1>20, PersistTo
<1>21. CASE step.kind = "aborted" /\ r \in Settled(x, d, s)
  <2>1. Remains(d0.m, n) /\ ~n.mustWait
    <3>1. n.aborted
      BY <1>12, <1>21 DEF SameControl
    <3> QED BY <1>7, <1>8, <3>1 DEF Decides
  <2>2. Aligned(d) /\ ~d.m.mustWait
    BY <1>10, <1>12, <2>1 DEF SameControl
  <2>3. Poised(d)
    BY <1>13, <1>14, <2>2 DEF Poised, AtItem, AtPost, Aligned
  <2>4. r = Result(y, s, 0)
    BY <1>3, <1>21 DEF Settled, Y
  <2> QED BY <1>12, <1>17, <1>21, <2>3, <2>4, PausesTo
<1>22. CASE step.kind = "wait" /\ r \in ScheduleWait(x, d, s)
  <2>1. n.mustWait /\ ~n.aborted
    BY <1>12, <1>22 DEF SameControl
  <2>2. Remains(d0.m, n)
    BY <1>7, <1>8, <2>1 DEF Decides
  <2>3. Aligned(d)
    BY <1>10, <1>12, <2>2
  <2> QED BY <1>13, <1>14, <1>22, <2>3, ScheduleWaitTo
<1>23. CASE step.kind = "check" /\ r = Result(queueDuplicateCheck(y), s, 0)
  <2>1. Reaches(y, ex, r)
    BY <1>13, <1>14, <1>17, <1>23, queueDuplicateCheckTo
  <2> QED BY <1>17, <2>1, ReachesFrom
<1> QED BY <1>18, <1>19, <1>20, <1>21, <1>22, <1>23

LEMMA processSubmissionWaitTo ==
    ASSUME NEW x, IsProcess(x), Clear(x.d), Standing(x.d), Aligned(x.d), NEW s, NEW cmd,
           NEW r \in processSubmissionWait(x, s, cmd), NEW ex
    PROVE  Reaches(x, ex, r)
<1> DEFINE Waited == [x.d EXCEPT !.m = completeWait(@)]
<1> DEFINE D == Advanced(Waited)
<1> DEFINE Step0 == NextStep(Waited)
<1> DEFINE Parks(e) == [x EXCEPT !.d = [e EXCEPT !.phase = "admission_paused",
                                                 !.admission = [kind |-> "wait", cmd |-> cmd]]]
<1>1. PICK a \in Retrying(s, x.d, cmd.temp, [cmd.retry EXCEPT !.pending = FALSE]) :
          r = IF ~a.done THEN Result(Parks(x.d), a.db, a.f)
              ELSE IF Step0.kind = "post"
              THEN Result(Enqueue(x, [D EXCEPT !.phase = "post_queued"], PostCommand(D, Step0)),
                          a.db, a.f)
              ELSE Result(Parks(D), a.db, a.f)
  BY DEF processSubmissionWait
<1>2. PICK d0, n : d0 = x.d /\ n = completeWait(d0.m)
  OBVIOUS
<1>3. PICK waited : waited = Waited
  OBVIOUS
<1>4. PICK d, step : d = D /\ step = Step0
  OBVIOUS
<1>5. IsDriver(d0) /\ IsMachine(d0.m) /\ Rows(d0.review) /\ Aligned(d0) /\ Clear(d0)
  BY <1>2 DEF Clear, Standing
<1>6. /\ Budgeted(d0.m, n) /\ ~n.mustWait
  <2>1. PICK m : m = d0.m
    OBVIOUS
  <2>2. n = [m EXCEPT !.mustWait = FALSE] /\ IsMachine(m)
    BY <1>2, <1>5, <2>1 DEF completeWait
  <2>3. /\ DOMAIN n = DOMAIN m /\ n.order = m.order /\ n.idx = m.idx
        /\ n.results = m.results /\ n.aborted = m.aborted /\ ~n.mustWait
    BY <2>2 DEF IsMachine
  <2>4. Budgeted(m, n)
    BY <2>2, <2>3, BudgetedIs
  <2> QED BY <2>1, <2>3, <2>4
<1>7. /\ waited.m = n /\ waited.review = d0.review /\ waited.current = d0.current
      /\ Clear(waited) /\ IsDriver(waited)
  <2>1. waited = [d0 EXCEPT !.m = n]
    BY <1>2, <1>3
  <2>2. "aborted" \in DOMAIN n
    BY <1>6 DEF IsMachine, Budgeted
  <2> QED BY <1>5, <2>1, <2>2 DEF Clear, IsDriver
<1>8. Aligned(waited) /\ IsMachine(waited.m)
  BY <1>5, <1>6, <1>7, SameHere DEF Aligned, Remains, Budgeted
<1>9. d = Advanced(waited) /\ step = NextStep(waited)
  BY <1>3, <1>4
<1>10. /\ IsMachine(d.m) /\ d.review = d0.review /\ Aligned(d)
       /\ step.kind = "aborted" <=> d.m.aborted
       /\ step.kind = "post" =>
            ~d.m.mustWait /\ Here(d.review, d.m) /\ step.temp = Current(d.m)
  BY <1>7, <1>8, <1>9, AdvancedTo
<1>11. Clear(d)
  BY <1>7, <1>9, AdvancedIs DEF Clear
<1>12. Standing(d) /\ Standing(d0)
  BY <1>5, <1>10 DEF Standing
<1>13. ASSUME NEW e, Clear(e), Standing(e), Aligned(e)
       PROVE  Reaches(x, ex, Result(Parks(e), a.db, a.f))
  <2>1. PICK g : g = [e EXCEPT !.phase = "admission_paused",
                               !.admission = [kind |-> "wait", cmd |-> cmd]]
    OBVIOUS
  <2>2. PICK y : y = Parks(e)
    OBVIOUS
  <2>3. /\ g.m = e.m /\ g.review = e.review /\ g.current = e.current /\ ~g.policyCheck
        /\ g.phase = "admission_paused" /\ g.admission.kind = "wait"
    BY <1>13, <2>1 DEF Clear, IsDriver
  <2>4. Poised(g)
    BY <1>13, <2>3 DEF Poised, AtItem, AtPost, Standing, Aligned
  <2>5. y.queue = x.queue /\ y.d = g
    BY <2>1, <2>2 DEF IsProcess
  <2>6. Reaches(x, ex, Result(y, a.db, a.f))
    BY <2>3, <2>4, <2>5, PausesTo DEF PausedPhase
  <2> QED BY <2>2, <2>6
<1> HIDE DEF Waited, D, Step0, Parks
<1>14. CASE ~a.done
  BY <1>1, <1>2, <1>5, <1>12, <1>13, <1>14
<1>15. CASE a.done /\ step.kind = "post"
  <2>1. step.temp = d.current /\ IsDriver(d) /\ ~d.policyCheck /\ ~d.m.aborted
    BY <1>10, <1>11, <1>15 DEF Aligned, Clear
  <2>2. r = Result(Enqueue(x, [d EXCEPT !.phase = "post_queued"], PostCommand(d, step)), a.db, a.f)
    BY <1>1, <1>4, <1>15
  <2> QED BY <1>10, <1>12, <1>15, <2>1, <2>2, PostIsMeant
<1>16. CASE a.done /\ step.kind # "post"
  BY <1>1, <1>4, <1>10, <1>11, <1>12, <1>13, <1>16
<1> QED BY <1>14, <1>15, <1>16

LEMMA abortChangedSubmissionTo ==
    ASSUME NEW x, IsProcess(x), Clear(x.d), Standing(x.d), Aligned(x.d), NEW s,
           NEW r \in abortChangedSubmission(x, s), NEW ex
    PROVE  Reaches(x, ex, r)
<1> DEFINE Y == [destroy(x) EXCEPT !.gate = "stale"]
<1> DEFINE Z == [x EXCEPT !.d.phase = "recovery_check_paused"]
<1>1. PICK a \in Completing(s, x.d.op, "aborted", Pending) :
          r = IF a.done THEN Result(Y, a.db, a.f) ELSE Result(Z, a.db, a.f)
  BY DEF abortChangedSubmission
<1>2. PICK y, z, d : y = Y /\ z = Z /\ d = x.d
  OBVIOUS
<1>3. y.d = NoDurable
  BY <1>2 DEF IsProcess, destroy
<1>4. z.queue = x.queue /\ z.d = [d EXCEPT !.phase = "recovery_check_paused"]
  BY <1>2 DEF IsProcess
<1>5. /\ z.d.m = d.m /\ z.d.review = d.review /\ z.d.current = d.current /\ ~z.d.policyCheck
      /\ z.d.phase = "recovery_check_paused"
  BY <1>2, <1>4 DEF Clear, IsDriver
<1>6. Standing(d) /\ Aligned(d) /\ ~d.policyCheck
  BY <1>2 DEF Clear
<1>7. Poised(z.d)
  <2>1. PICK e : e = z.d
    OBVIOUS
  <2> QED BY <1>5, <1>6, <2>1, PhasedTo DEF AtItem
<1> HIDE DEF Y, Z
<1>8. CASE a.done
  BY <1>1, <1>2, <1>3, <1>8, EndsTo
<1>9. CASE ~a.done
  BY <1>1, <1>2, <1>4, <1>5, <1>7, <1>9, PausesTo DEF PausedPhase
<1> QED BY <1>8, <1>9

LEMMA acceptRecoveryCheckTo ==
    ASSUME NEW x, IsProcess(x), Clear(x.d), Standing(x.d), Aligned(x.d), NEW s, NEW observed,
           NEW r \in acceptRecoveryCheck(x, s, observed), NEW ex
    PROVE  Reaches(x, ex, r)
<1> DEFINE Same == [x EXCEPT !.gate = IF x.d.recovered THEN @ ELSE "off"]
<1> DEFINE D == Advanced(x.d)
<1> DEFINE Step0 == NextStep(x.d)
<1> DEFINE Moved == [x EXCEPT !.gate = "stale", !.d.sourceChanged = TRUE]
<1> DEFINE Paused == [D EXCEPT !.phase = "recovery_check_paused"]
<1> DEFINE First == [x.d EXCEPT !.phase = "recovery_check_paused"]
<1> DEFINE Waiting == [D EXCEPT !.phase = "wait_queued"]
<1> DEFINE R1 == Result(queueDuplicateCheck(Moved), s, 0)
<1> DEFINE R2 == Result(Enqueue(Same, Waiting, WaitCommand(D)), s, 0)
<1> DEFINE R3 == Result(Enqueue(Same, [D EXCEPT !.phase = "post_queued"], PostCommand(D, Step0)), s, 0)
<1> DEFINE R4 == Result(queueDuplicateCheck(Same), s, 0)
<1>1. \/ r \in Settled(x, First, s) \/ r = R1 \/ r \in abortChangedSubmission(x, s)
      \/ (Step0.kind = "wait" /\ r = R2) \/ (Step0.kind = "post" /\ r = R3) \/ r = R4
      \/ r \in Settled(Same, Paused, s)
  <2> DEFINE c1 == observed = NoSource
  <2> DEFINE c2 == observed # NoSource /\ observed # x.d.source /\ x.d.recovered
  <2> DEFINE c3 == observed # NoSource /\ observed # x.d.source /\ ~x.d.recovered
  <2> DEFINE b4 == observed = x.d.source /\ Step0.kind = "wait"
  <2> DEFINE b5 == observed = x.d.source /\ Step0.kind = "post" /\ ~D.recovered
  <2> DEFINE c6 == observed = x.d.source
                      /\ (Step0.kind = "check" \/ (Step0.kind = "post" /\ D.recovered))
  <2>1. r \in CASE c1 -> Settled(x, First, s)
                [] c2 -> {R1}
                [] c3 -> abortChangedSubmission(x, s)
                [] b4 -> {R2}
                [] b5 -> {R3}
                [] c6 -> {R4}
                [] OTHER -> Settled(Same, Paused, s)
    BY DEF acceptRecoveryCheck
  <2>2. (b4 => Step0.kind = "wait") /\ (b5 => Step0.kind = "post")
    OBVIOUS
  <2> HIDE DEF c1, c2, c3, b4, b5, c6, Same, D, Step0, Moved, Paused, First, Waiting, R1, R2, R3, R4
  <2>3. \/ r \in Settled(x, First, s) \/ r = R1 \/ r \in abortChangedSubmission(x, s)
        \/ (b4 /\ r = R2) \/ (b5 /\ r = R3) \/ r = R4 \/ r \in Settled(Same, Paused, s)
    BY <2>1
  <2> QED BY <2>2, <2>3
<1>2. PICK d0, d, step : d0 = x.d /\ d = D /\ step = Step0
  OBVIOUS
<1>3. PICK same, moved : same = Same /\ moved = Moved
  OBVIOUS
<1>4. PICK paused, first, waiting : paused = Paused /\ first = First /\ waiting = Waiting
  OBVIOUS
<1>5. IsDriver(d0) /\ Standing(d0) /\ Aligned(d0) /\ Clear(d0) /\ ~d0.policyCheck
  BY <1>2 DEF Clear
<1>6. /\ IsProcess(same) /\ same.queue = x.queue /\ same.d = d0
      /\ IsProcess(moved) /\ moved.queue = x.queue /\ moved.d = [d0 EXCEPT !.sourceChanged = TRUE]
  BY <1>2, <1>3 DEF IsProcess
<1>7. IsDriver(moved.d) /\ ~moved.d.policyCheck /\ Standing(moved.d)
  BY <1>5, <1>6 DEF IsDriver, Standing
<1>8. d = Advanced(d0) /\ step = NextStep(d0)
  BY <1>2
<1>9. /\ Standing(d) /\ Aligned(d)
      /\ step.kind = "aborted" <=> d.m.aborted
      /\ step.kind = "post" => ~d.m.mustWait /\ Here(d.review, d.m) /\ step.temp = Current(d.m)
  <2>1. IsMachine(d0.m) /\ Rows(d0.review)
    BY <1>5 DEF Standing
  <2>2. /\ IsMachine(d.m) /\ d.review = d0.review /\ Aligned(d)
        /\ step.kind = "aborted" <=> d.m.aborted
        /\ step.kind = "post" => ~d.m.mustWait /\ Here(d.review, d.m) /\ step.temp = Current(d.m)
    BY <1>5, <1>8, <2>1, AdvancedTo
  <2> QED BY <2>1, <2>2 DEF Standing
<1>10. Clear(d) /\ IsDriver(d) /\ ~d.policyCheck
  BY <1>5, <1>8, AdvancedIs DEF Clear
<1>11. /\ paused.m = d.m /\ paused.review = d.review /\ paused.current = d.current
       /\ ~paused.policyCheck /\ paused.phase = "recovery_check_paused"
       /\ first.m = d0.m /\ first.review = d0.review /\ first.current = d0.current
       /\ ~first.policyCheck /\ first.phase = "recovery_check_paused"
       /\ waiting.m = d.m /\ waiting.review = d.review /\ waiting.current = d.current
       /\ ~waiting.policyCheck /\ waiting.phase = "wait_queued" /\ waiting.op = d.op
  BY <1>2, <1>4, <1>5, <1>10 DEF IsDriver
<1>12. Poised(paused) /\ Poised(first) /\ Poised(waiting)
  BY <1>5, <1>9, <1>10, <1>11, PhasedTo DEF AtItem
<1> HIDE DEF Same, D, Step0, Moved, Paused, First, Waiting
<1>13. CASE r \in Settled(x, First, s)
  <2>1. PICK y : y = [x EXCEPT !.d = first]
    OBVIOUS
  <2>2. r = Result(y, s, 0) /\ y.queue = x.queue /\ y.d = first
    BY <1>4, <1>13, <2>1 DEF Settled, IsProcess
  <2> QED BY <1>11, <1>12, <2>2, PausesTo DEF PausedPhase
<1>14. CASE r = R1
  <2>1. Reaches(moved, ex, r)
    BY <1>3, <1>6, <1>7, <1>14, queueDuplicateCheckTo
  <2> QED BY <1>6, <2>1, ReachesFrom
<1>15. CASE r \in abortChangedSubmission(x, s)
  BY <1>15, abortChangedSubmissionTo
<1>16. CASE step.kind = "wait" /\ r = R2
  <2>1. PICK c : c = WaitCommand(d)
    OBVIOUS
  <2>2. c.kind = "wait" /\ c.op = d.op /\ c.temp = Current(d.m)
    BY <2>1, CommandHas DEF WaitCommand
  <2>3. /\ c.kind \in Kinds /\ c.op = waiting.op /\ waiting.phase = QueuedPhase(c.kind)
        /\ Meant(waiting, c) /\ c.kind # "post"
    BY <1>9, <1>11, <2>2 DEF Kinds, QueuedPhase, Meant, Aligned
  <2>4. r = Result(Enqueue(same, waiting, c), s, 0)
    BY <1>2, <1>3, <1>4, <1>16, <2>1
  <2> QED BY <1>6, <1>12, <2>3, <2>4, SendsTo
<1>17. CASE step.kind = "post" /\ r = R3
  <2>1. /\ step.temp = d.current /\ step.temp = Current(d.m) /\ Here(d.review, d.m)
        /\ ~d.m.mustWait /\ ~d.m.aborted /\ Standing(d)
    BY <1>9, <1>17 DEF Aligned
  <2>2. r = Result(Enqueue(same, [d EXCEPT !.phase = "post_queued"], PostCommand(d, step)), s, 0)
    BY <1>2, <1>3, <1>17
  <2> QED BY <1>6, <1>10, <2>1, <2>2, PostIsMeant
<1>18. CASE r = R4
  <2>1. Reaches(same, ex, r)
    BY <1>3, <1>5, <1>6, <1>18, queueDuplicateCheckTo
  <2> QED BY <1>6, <2>1, ReachesFrom
<1>19. CASE r \in Settled(Same, Paused, s)
  <2>1. PICK y : y = [same EXCEPT !.d = paused]
    OBVIOUS
  <2>2. r = Result(y, s, 0) /\ y.queue = x.queue /\ y.d = paused
    BY <1>3, <1>4, <1>6, <1>19, <2>1 DEF Settled, IsProcess
  <2> QED BY <1>11, <1>12, <2>2, PausesTo DEF PausedPhase
<1> HIDE DEF R1, R2, R3, R4
<1> QED BY <1>1, <1>2, <1>13, <1>14, <1>15, <1>16, <1>17, <1>18, <1>19

LEMMA persistDuplicateResolutionTo ==
    ASSUME NEW x, IsProcess(x), Resolving(x.d), Standing(x.d), NEW s,
           NEW r \in persistDuplicateResolution(x, s), NEW ex
    PROVE  Reaches(x, ex, r)
<1> DEFINE D == x.d
<1> DEFINE done == D.duplicate.checkpointDone
<1> DEFINE D1 == IF done THEN D
                 ELSE [recordCheckpoint(D, D.current, D.duplicate.outcome, NoTemp)
                         EXCEPT !.duplicate.checkpointDone = TRUE]
<1> DEFINE clean == AllPosted(D1.review)
<1> DEFINE completion == IF clean THEN "clean" ELSE "partial"
<1> DEFINE Checkpointed == IF done THEN NoCall(s)
                           ELSE Checkpointing(s, D, D.current, D.duplicate.outcome, NoTemp)
<1> DEFINE Y == [destroy(x) EXCEPT !.gate = IF clean /\ D.sourceChanged THEN "off" ELSE @]
<1> DEFINE Z == [x EXCEPT !.d = D1]
<1>1. PICK a \in Checkpointed :
          r \in IF ~a.done THEN {Result(x, a.db, a.f)} ELSE
                  {IF b.done THEN Result(Y, b.db, b.f) ELSE Result(Z, b.db, b.f)
                   : b \in Completing(a.db, D.op, completion, NoOutcome)}
  BY DEF persistDuplicateResolution
<1>2. Y.d = NoDurable
  BY DEF IsProcess, destroy
<1>3. Z.queue = x.queue /\ Z.d = D1
  BY DEF IsProcess
<1>4. PICK d, t, outcome : d = D /\ t = D.current /\ outcome = D.duplicate.outcome
  OBVIOUS
<1>5. PICK k, next : next = NoTemp /\ k = recordCheckpoint(d, t, outcome, next)
  OBVIOUS
<1>6. PICK d1 : d1 = D1 /\ d1 = IF d.duplicate.checkpointDone THEN d
                                ELSE [k EXCEPT !.duplicate.checkpointDone = TRUE]
  BY <1>4, <1>5
<1>7. IsDriver(d) /\ IsMachine(d.m) /\ Rows(d.review) /\ Resolving(d)
  BY <1>4 DEF Resolving, Standing
<1>8. /\ IsDriver(k) /\ k.phase = d.phase /\ k.m = d.m /\ k.policyCheck = d.policyCheck
  BY <1>5, <1>7, recordCheckpointIs
<1>9. Rows(k.review)
  BY <1>5, <1>7, recordCheckpointTo
<1>10. Poised(d) /\ d.phase \in PausedPhase
  BY <1>7 DEF Poised, Resolving, AtItem, AtPost, Standing, PausedPhase
<1>11. Poised(d1) /\ d1.phase \in PausedPhase
  <2>1. CASE d.duplicate.checkpointDone
    BY <1>6, <1>10, <2>1
  <2>2. CASE ~d.duplicate.checkpointDone
    <3>1. /\ d1.m = d.m /\ d1.review = k.review /\ d1.phase = d.phase /\ ~d1.policyCheck
      BY <1>6, <1>7, <1>8, <2>2 DEF IsDriver, Resolving
    <3> QED BY <1>7, <1>9, <3>1 DEF Poised, Resolving, AtItem, AtPost, Standing, PausedPhase
  <2> QED BY <2>1, <2>2
<1>12. PICK y, z : y = Y /\ z = Z
  OBVIOUS
<1> HIDE DEF Y, Z, D1, clean, completion, Checkpointed
<1>13. CASE ~a.done
  BY <1>1, <1>4, <1>10, <1>13, PausesTo
<1>14. CASE a.done
  <2>1. \E s1, f1 : r = Result(y, s1, f1) \/ r = Result(z, s1, f1)
    BY <1>1, <1>12, <1>14
  <2>2. PICK s1, f1 : r = Result(y, s1, f1) \/ r = Result(z, s1, f1)
    BY <2>1
  <2>3. y.d = NoDurable /\ z.queue = x.queue /\ z.d = d1
    BY <1>2, <1>3, <1>6, <1>12
  <2> QED BY <1>11, <2>2, <2>3, EndsTo, PausesTo
<1> QED BY <1>13, <1>14

\* The one way round the current item: a policy check that decided an item with
\* others behind it (ex).
LEMMA advanceAfterPolicyCheckTo ==
    ASSUME NEW x, IsProcess(x), Clear(x.d), Standing(x.d), ~x.d.m.aborted,
           x.d.phase = "awaiting_duplicate", NEW ex,
           \/ Aligned(x.d)
           \/ /\ ~x.d.m.mustWait
              /\ ex \/ (Ended(x.d.m) /\ LastOutcome(x.d.m) # NoOutcome),
           NEW s, NEW t, NEW r \in advanceAfterPolicyCheck(x, s, t)
    PROVE  Reaches(x, ex, r)
<1> DEFINE D == Advanced(x.d)
<1> DEFINE Step0 == NextStep(x.d)
<1> DEFINE completion == IF isClean(D.m) THEN "clean" ELSE "partial"
<1> DEFINE P == Persistence(t, LastOutcome(D.m), NoStep, completion, NoOutcome, NoRetry)
<1> DEFINE R1 == Result(Enqueue(x, [D EXCEPT !.phase = "post_queued"], PostCommand(D, Step0)), s, 0)
<1> DEFINE R2 == Result(queueDuplicateCheck(x), s, 0)
<1>1. r \in CASE Step0.kind = "post" -> {R1}
              [] Step0.kind = "check" -> {R2}
              [] Step0.kind = "wait" -> ScheduleWait(x, D, s)
              [] Step0.kind = "done" /\ LastOutcome(D.m) # NoOutcome -> Persist(x, D, s, P)
              [] Step0.kind = "done" /\ LastOutcome(D.m) = NoOutcome -> Settled(x, D, s)
  BY DEF advanceAfterPolicyCheck
<1>2. PICK d0, d, step, p : d0 = x.d /\ d = D /\ step = Step0 /\ p = P
  OBVIOUS
<1>3. d = Advanced(d0) /\ step = NextStep(d0)
  BY <1>2
<1>4. /\ IsDriver(d0) /\ Clear(d0) /\ Standing(d0) /\ IsMachine(d0.m) /\ Rows(d0.review)
      /\ ~d0.m.aborted /\ d0.phase = "awaiting_duplicate"
      /\ \/ Aligned(d0)
         \/ /\ ~d0.m.mustWait
            /\ ex \/ (Ended(d0.m) /\ LastOutcome(d0.m) # NoOutcome)
  BY <1>2 DEF Clear, Standing
<1>5. /\ IsMachine(d.m) /\ SameControl(d0.m, d.m) /\ d.review = d0.review
      /\ ~Skippable(d0.review, d0.m) => d.m.idx = d0.m.idx /\ d.m.results = d0.m.results
      /\ Aligned(d0) => Aligned(d)
      /\ step.kind \in {"aborted", "done", "wait", "check", "post"}
      /\ step.kind = "aborted" <=> d.m.aborted
      /\ step.kind = "done" <=> ~d.m.aborted /\ Ended(d.m)
      /\ step.kind = "wait" => d.m.mustWait
      /\ step.kind \in {"check", "post"} => ~d.m.mustWait
      /\ step.kind \in {"wait", "check", "post"} => Here(d.review, d.m) /\ step.temp = Current(d.m)
  BY <1>3, <1>4, AdvancedTo
<1>6. ~d.m.aborted /\ (d.m.mustWait <=> d0.m.mustWait)
  BY <1>4, <1>5 DEF SameControl
<1>7. Clear(d) /\ IsDriver(d) /\ ~d.policyCheck /\ d.phase = "awaiting_duplicate"
  BY <1>3, <1>4, AdvancedIs DEF Clear
<1>8. Standing(d)
  BY <1>4, <1>5 DEF Standing
<1>9. Ended(d0.m) /\ LastOutcome(d0.m) # NoOutcome => Ended(d.m) /\ LastOutcome(d.m) # NoOutcome
  <2> SUFFICES ASSUME Ended(d0.m), LastOutcome(d0.m) # NoOutcome
               PROVE  Ended(d.m) /\ LastOutcome(d.m) # NoOutcome
    OBVIOUS
  <2>1. PICK m0, m : m0 = d0.m /\ m = d.m
    OBVIOUS
  <2>2. m.idx = m0.idx /\ m.results = m0.results /\ m.order = m0.order
    BY <1>5, <2>1 DEF Skippable, SameControl
  <2>3. Ended(m) /\ LastOutcome(m) = LastOutcome(m0)
    BY <2>1, <2>2 DEF Ended, LastOutcome
  <2> QED BY <2>1, <2>3
<1>10. IsPersistence(p) /\ p.completion # "none"
  <2>1. PICK o1, o2, stop, none, kind :
            /\ o1 = LastOutcome(D.m) /\ o2 = NoOutcome /\ stop = NoStep /\ none = NoRetry
            /\ kind = completion
    OBVIOUS
  <2>2. p = Persistence(t, o1, stop, kind, o2, none)
    BY <1>2, <2>1
  <2>3. kind \in {"clean", "partial"}
    BY <2>1
  <2> QED BY <2>2, <2>3, PersistenceIs
<1>11. PICK y : y = [x EXCEPT !.d = d]
  OBVIOUS
<1>12. y.queue = x.queue /\ y.d = d
  BY <1>11 DEF IsProcess
<1> HIDE DEF D, Step0, P, completion
<1>13. \/ step.kind = "post" /\ r = R1
       \/ step.kind = "check" /\ r = R2
       \/ step.kind = "wait" /\ r \in ScheduleWait(x, d, s)
       \/ r \in Persist(x, d, s, p)
       \/ step.kind = "done" /\ LastOutcome(d.m) = NoOutcome /\ r \in Settled(x, d, s)
  <2> HIDE DEF R1, R2
  <2>1. Step0.kind \in {"done", "wait", "check", "post"}
    BY <1>2, <1>5, <1>6
  <2>2. \/ Step0.kind = "post" /\ r = R1
        \/ Step0.kind = "check" /\ r = R2
        \/ Step0.kind = "wait" /\ r \in ScheduleWait(x, D, s)
        \/ r \in Persist(x, D, s, P)
        \/ Step0.kind = "done" /\ LastOutcome(D.m) = NoOutcome /\ r \in Settled(x, D, s)
    BY <1>1, <2>1
  <2> QED BY <1>2, <2>2
<1>14. CASE step.kind = "post" /\ r = R1
  <2>1. /\ step.temp = Current(d.m) /\ Here(d.review, d.m) /\ ~d.m.mustWait /\ ~d.m.aborted
        /\ ~Ended(d.m)
    BY <1>5, <1>6, <1>14 DEF Here
  <2>2. step.temp = d.current \/ ex
    BY <1>4, <1>5, <1>9, <2>1 DEF Aligned
  <2>3. r = Result(Enqueue(x, [d EXCEPT !.phase = "post_queued"], PostCommand(d, step)), s, 0)
    BY <1>2, <1>14
  <2> QED BY <1>7, <1>8, <2>1, <2>2, <2>3, PostIsMeant
<1>15. CASE step.kind = "check" /\ r = R2
  <2>1. IsDriver(x.d) /\ ~x.d.policyCheck
    BY DEF Clear
  <2> QED BY <1>15, <2>1, queueDuplicateCheckTo
<1>16. CASE step.kind = "wait" /\ r \in ScheduleWait(x, d, s)
  <2>1. Aligned(d)
    BY <1>4, <1>5, <1>6, <1>16
  <2> QED BY <1>7, <1>8, <1>16, <2>1, ScheduleWaitTo
<1>17. CASE r \in Persist(x, d, s, p)
  BY <1>7, <1>8, <1>10, <1>17, PersistTo
<1>18. CASE step.kind = "done" /\ LastOutcome(d.m) = NoOutcome /\ r \in Settled(x, d, s)
  <2>1. ex
    BY <1>4, <1>5, <1>9, <1>18 DEF Aligned, Here
  <2>2. Poised(d)
    BY <1>7, <1>8 DEF Poised, AtItem, AtPost
  <2>3. r = Result(y, s, 0)
    BY <1>11, <1>18 DEF Settled
  <2> QED BY <1>12, <2>1, <2>2, <2>3, PausesTo
<1> HIDE DEF R1, R2
<1> QED BY <1>13, <1>14, <1>15, <1>16, <1>17, <1>18

LEMMA acceptDuplicateCheckTo ==
    ASSUME NEW x, IsProcess(x), Sound(x.d), Poised(x.d), x.d.phase = "awaiting_duplicate",
           NEW ex, x.d.policyCheck /\ x.d.m.idx < Len(x.d.m.order) => ex,
           NEW s, NEW t, NEW reply, NEW r \in acceptDuplicateCheck(x, s, t, reply)
    PROVE  Reaches(x, ex, r)
<1> DEFINE Checked == [x EXCEPT !.d.policyCheck = FALSE, !.d.m = reportCheck(@, reply)]
<1> DEFINE Paused == [x.d EXCEPT !.phase = "duplicate_check_paused"]
<1> DEFINE Located == [x EXCEPT !.d.phase = "duplicate_persistence_paused",
                                !.d.duplicate = [outcome |-> IF reply.outcome = "found"
                                                             THEN Posted(reply.id) ELSE Unknown,
                                                 checkpointDone |-> FALSE]]
<1>1. PICK d0 : d0 = x.d
  OBVIOUS
<1>2. /\ IsDriver(d0) /\ d0.admission = NoAdmission /\ d0.persistence = NoPersistence
      /\ ~d0.m.aborted /\ d0.phase = "awaiting_duplicate"
      /\ d0.policyCheck => ~d0.sourceChanged /\ Aligned(d0) /\ ~d0.m.mustWait
      /\ d0.policyCheck /\ d0.m.idx < Len(d0.m.order) => ex
      /\ Standing(d0) /\ IsMachine(d0.m) /\ Rows(d0.review)
  BY <1>1 DEF Sound, Checking, Poised, Standing
<1>3. \/ x.d.policyCheck /\ r \in advanceAfterPolicyCheck(Checked, s, t)
      \/ ~x.d.policyCheck /\ r \in Settled(x, Paused, s)
      \/ ~x.d.policyCheck /\ r \in persistDuplicateResolution(Located, s)
  <2> HIDE DEF Paused
  <2>1. CASE x.d.policyCheck
    BY <2>1 DEF acceptDuplicateCheck
  <2>2. CASE ~x.d.policyCheck /\ reply.outcome \in {"ambiguous", "rejected"}
    BY <2>2 DEF acceptDuplicateCheck, Paused
  <2>3. CASE ~x.d.policyCheck /\ ~(reply.outcome \in {"ambiguous", "rejected"})
    BY <2>3 DEF acceptDuplicateCheck
  <2> QED BY <2>1, <2>2, <2>3
<1>4. CASE d0.policyCheck /\ r \in advanceAfterPolicyCheck(Checked, s, t)
  <2>1. PICK n, y : n = reportCheck(d0.m, reply) /\ y = Checked
    OBVIOUS
  <2>2. /\ IsMachine(n) /\ n.order = d0.m.order
        /\ \/ Remains(d0.m, n) /\ n.aborted = d0.m.aborted
           \/ /\ Decides(d0.m, n)
              /\ d0.m.idx \in 1..Len(d0.m.order) =>
                   n.results[d0.m.idx].status \in {"posted", "outcome_unknown"}
    BY <1>2, <2>1, reportCheckTo
  <2>3. ~n.aborted /\ "aborted" \in DOMAIN n
    BY <1>2, <2>2 DEF Decides, IsMachine
  <2>4. PICK e : e = [d0 EXCEPT !.policyCheck = FALSE, !.m = n]
    OBVIOUS
  <2>5. IsProcess(y) /\ y.queue = x.queue /\ y.d = e
    BY <1>1, <2>1, <2>4 DEF IsProcess
  <2>6. /\ e.m = n /\ e.review = d0.review /\ e.current = d0.current
        /\ e.phase = "awaiting_duplicate" /\ Clear(e) /\ Standing(e)
    BY <1>2, <1>4, <2>2, <2>3, <2>4 DEF Clear, IsDriver, Standing
  <2>7. \/ Aligned(e)
        \/ /\ ~e.m.mustWait
           /\ ex \/ (Ended(e.m) /\ LastOutcome(e.m) # NoOutcome)
    <3>1. PICK review, m : review = d0.review /\ m = d0.m
      OBVIOUS
    <3>2. Here(review, m) /\ Current(m) = d0.current /\ ~m.mustWait /\ IsMachine(m)
      BY <1>2, <1>4, <3>1 DEF Aligned
    <3>3. CASE Remains(d0.m, n) /\ n.aborted = d0.m.aborted
      <4>1. Here(review, n) /\ Current(n) = Current(m)
        BY <2>2, <3>1, <3>2, <3>3, SameHere DEF Remains
      <4> QED BY <2>6, <3>1, <3>2, <4>1 DEF Aligned
    <3>4. CASE /\ Decides(d0.m, n)
               /\ d0.m.idx \in 1..Len(d0.m.order) =>
                    n.results[d0.m.idx].status \in {"posted", "outcome_unknown"}
      <4>1. n.idx = m.idx + 1 /\ ~n.mustWait /\ m.idx \in 1..Len(m.order) /\ n.order = m.order
        BY <2>2, <3>1, <3>2, <3>4 DEF Decides, Here, Ended, IsMachine
      <4>2. CASE m.idx < Len(m.order)
        BY <1>2, <1>4, <2>6, <3>1, <4>1, <4>2
      <4>3. CASE m.idx = Len(m.order)
        <5>1. Ended(n)
          BY <4>1, <4>3 DEF Ended, IsMachine
        <5>2. n.idx - 1 = m.idx /\ n.results[m.idx].status \in {"posted", "outcome_unknown"}
          BY <3>1, <3>4, <4>1
        <5>3. LastOutcome(n) # NoOutcome
          BY <5>2 DEF LastOutcome, NoOutcome, Posted, Unknown
        <5> QED BY <2>6, <4>1, <5>1, <5>3
      <4> QED BY <4>1, <4>2, <4>3
    <3> QED BY <2>2, <3>3, <3>4
  <2>8. ~y.d.m.aborted /\ y.d.phase = "awaiting_duplicate" /\ Clear(y.d) /\ Standing(y.d)
    BY <2>3, <2>5, <2>6
  <2>9. Reaches(y, ex, r)
    <3> HIDE DEF Checked
    <3>1. r \in advanceAfterPolicyCheck(y, s, t)
      BY <1>4, <2>1
    <3> QED BY <2>5, <2>7, <2>8, <3>1, advanceAfterPolicyCheckTo
  <2> QED BY <2>5, <2>9, ReachesFrom
<1>5. CASE ~d0.policyCheck /\ r \in Settled(x, Paused, s)
  <2>1. PICK e, y : e = Paused /\ y = [x EXCEPT !.d = e]
    OBVIOUS
  <2>2. /\ e.m = d0.m /\ e.review = d0.review /\ e.current = d0.current /\ ~e.policyCheck
        /\ e.phase = "duplicate_check_paused"
    BY <1>1, <1>2, <1>5, <2>1 DEF IsDriver
  <2>3. Poised(e)
    BY <1>2, <1>5, <2>2, PhasedTo
  <2>4. r = Result(y, s, 0) /\ y.queue = x.queue /\ y.d = e
    BY <1>5, <2>1 DEF Settled, IsProcess
  <2> QED BY <2>2, <2>3, <2>4, PausesTo DEF PausedPhase
<1>6. CASE ~d0.policyCheck /\ r \in persistDuplicateResolution(Located, s)
  <2>1. PICK y, o : y = Located /\ o = [outcome |-> IF reply.outcome = "found"
                                               THEN Posted(reply.id) ELSE Unknown,
                                   checkpointDone |-> FALSE]
    OBVIOUS
  <2>2. PICK e : e = [d0 EXCEPT !.phase = "duplicate_persistence_paused", !.duplicate = o]
    OBVIOUS
  <2>3. IsProcess(y) /\ y.queue = x.queue /\ y.d = e
    BY <1>1, <2>1, <2>2 DEF IsProcess
  <2>4. Resolving(e) /\ Standing(e)
    BY <1>2, <1>6, <2>2 DEF Resolving, Standing, IsDriver
  <2>5. Reaches(y, ex, r)
    <3> HIDE DEF Located
    <3> QED BY <1>6, <2>1, <2>3, <2>4, persistDuplicateResolutionTo
  <2> QED BY <2>3, <2>5, ReachesFrom
<1> HIDE DEF Checked, Paused, Located
<1> QED BY <1>1, <1>3, <1>4, <1>5, <1>6

LEMMA ResumeLaunchTo ==
    ASSUME NEW x, IsProcess(x), Clear(x.d), Standing(x.d), Aligned(x.d), NEW s,
           NEW r \in ResumeLaunch(x, s), NEW ex,
           x.d.phase \in {"post_retry_paused", "wait_retry_paused"}, Poised(x.d)
    PROVE  Reaches(x, ex, r)
<1>1. PICK d0, d, step : d0 = x.d /\ d = Advanced(x.d) /\ step = NextStep(x.d)
  OBVIOUS
<1>2. /\ IsDriver(d0) /\ Clear(d0) /\ Standing(d0) /\ Aligned(d0) /\ IsMachine(d0.m)
      /\ Rows(d0.review) /\ d = Advanced(d0) /\ step = NextStep(d0)
  BY <1>1 DEF Clear, Standing
<1>3. CASE d0.phase = "post_retry_paused"
  <2>1. step.kind = "post"
        /\ r = Result(Enqueue(x, [d EXCEPT !.phase = "post_queued"], PostCommand(d, step)), s, 0)
    BY <1>1, <1>3 DEF ResumeLaunch
  <2>2. /\ IsMachine(d.m) /\ d.review = d0.review /\ Aligned(d)
        /\ step.kind = "aborted" <=> d.m.aborted
        /\ step.kind = "post" =>
             ~d.m.mustWait /\ Here(d.review, d.m) /\ step.temp = Current(d.m)
    BY <1>2, AdvancedTo
  <2>3. IsDriver(d) /\ ~d.policyCheck
    BY <1>2, AdvancedIs DEF Clear
  <2>4. /\ step.temp = Current(d.m) /\ Here(d.review, d.m) /\ ~d.m.mustWait /\ ~d.m.aborted
        /\ step.temp = d.current
    BY <2>1, <2>2 DEF Aligned
  <2>5. Standing(d)
    BY <1>2, <2>2 DEF Standing
  <2> QED BY <2>1, <2>3, <2>4, <2>5, PostIsMeant
<1>4. CASE d0.phase = "wait_retry_paused"
  <2>1. PICK e, c : /\ e = [d0 EXCEPT !.phase = "wait_queued", !.wait = NoRetry]
                    /\ c = Command("wait", d0.op, d0.current, NoComment, NoDraft, d0.wait)
    OBVIOUS
  <2>2. PICK a \in Retrying(s, x.d, x.d.current, x.d.wait) :
            r = IF a.done THEN Result(Enqueue(x, e, c), a.db, a.f) ELSE Result(x, a.db, a.f)
    BY <1>1, <1>4, <2>1 DEF ResumeLaunch
  <2>3. /\ e.m = d0.m /\ e.review = d0.review /\ e.current = d0.current /\ ~e.policyCheck
        /\ e.phase = "wait_queued" /\ e.op = d0.op
    BY <1>2, <2>1 DEF Clear, IsDriver
  <2>4. Poised(e)
    BY <1>2, <2>3, PhasedTo DEF AtItem, Clear
  <2>5. c.kind = "wait" /\ c.op = d0.op /\ c.temp = d0.current
    BY <2>1, CommandHas
  <2>6. /\ c.kind \in Kinds /\ c.op = e.op /\ e.phase = QueuedPhase(c.kind)
        /\ Meant(e, c) /\ c.kind # "post"
    BY <2>3, <2>5 DEF Kinds, QueuedPhase, Meant
  <2>7. CASE a.done
    BY <2>2, <2>4, <2>6, <2>7, SendsTo
  <2>8. CASE ~a.done
    BY <1>1, <1>4, <2>2, <2>8, PausesTo DEF PausedPhase
  <2> QED BY <2>7, <2>8
<1> QED BY <1>1, <1>3, <1>4

LEMMA ResumeAdmissionTo ==
    ASSUME NEW x, IsProcess(x), Sound(x.d), Poised(x.d), x.d.admission # NoAdmission,
           NEW s, NEW r \in ResumeAdmission(x, s), NEW ex
    PROVE  Reaches(x, ex, r)
<1>1. PICK d0, a, phase : d0 = x.d /\ a = d0.admission /\ phase = AwaitingPhase(a.kind)
  OBVIOUS
<1>2. /\ d0.phase = "admission_paused" /\ a.kind \in {"post", "wait"} /\ IsDriver(d0)
      /\ d0.persistence = NoPersistence /\ ~d0.policyCheck /\ ~d0.sourceChanged
      /\ Aligned(d0) /\ Standing(d0)
      /\ a.kind = "post" => IsAnswer(d0, a.cmd.temp, a.reply)
  BY <1>1 DEF Sound, Checking, Poised, AtItem
<1>3. PICK e, y : /\ e = [d0 EXCEPT !.admission = NoAdmission, !.phase = phase]
                  /\ y = [x EXCEPT !.d = e]
  OBVIOUS
<1>4. r \in IF a.kind = "post" THEN acceptPost(y, s, a.cmd.temp, a.reply)
            ELSE processSubmissionWait(y, s, a.cmd)
  <2>1. y = [x EXCEPT !.d.admission = NoAdmission, !.d.phase = phase]
    BY <1>1, <1>3 DEF IsProcess
  <2> QED BY <1>1, <2>1 DEF ResumeAdmission
<1>5. IsProcess(y) /\ y.queue = x.queue /\ y.d = e
  BY <1>3 DEF IsProcess
<1>6. /\ e.m = d0.m /\ e.review = d0.review /\ e.current = d0.current /\ e.phase = phase
      /\ Clear(e) /\ Standing(e) /\ Aligned(e)
  BY <1>2, <1>3 DEF Clear, IsDriver, Standing, Aligned
<1>7. CASE a.kind = "post"
  <2>1. PICK t, reply : t = a.cmd.temp /\ reply = a.reply
    OBVIOUS
  <2>2. IsAnswer(e, t, reply) /\ e.phase = "awaiting_post"
    BY <1>1, <1>2, <1>6, <1>7, <2>1 DEF IsAnswer, AwaitingPhase
  <2>3. r \in acceptPost(y, s, t, reply)
    BY <1>4, <1>7, <2>1
  <2>4. Reaches(y, ex, r)
    BY <1>5, <1>6, <2>2, <2>3, acceptPostTo
  <2> QED BY <1>5, <2>4, ReachesFrom
<1>8. CASE a.kind # "post"
  <2>1. Reaches(y, ex, r)
    BY <1>4, <1>5, <1>6, <1>8, processSubmissionWaitTo
  <2> QED BY <1>5, <2>1, ReachesFrom
<1> QED BY <1>7, <1>8

LEMMA resumeDurableSubmissionTo ==
    ASSUME NEW x, IsProcess(x), Sound(x.d), Poised(x.d), NEW s,
           NEW r \in resumeDurableSubmission(x, s), NEW ex
    PROVE  Reaches(x, ex, r)
<1> DEFINE byPhase == {"post_retry_paused", "wait_retry_paused", "recovery_check_paused",
                       "duplicate_check_paused", "duplicate_persistence_paused"}
<1>1. Standing(x.d) /\ (x.d.phase \in AtItem => Aligned(x.d))
  BY DEF Poised
<1>2. CASE x.d.phase \in {"post_retry_paused", "wait_retry_paused"}
  <2>1. r \in ResumeLaunch(x, s)
    BY <1>2 DEF resumeDurableSubmission
  <2> QED BY <1>1, <1>2, <2>1, ClearPhases, ResumeLaunchTo DEF AtItem
<1>3. CASE x.d.phase = "recovery_check_paused"
  <2>1. PICK d, e, c : /\ d = x.d /\ e = [d EXCEPT !.phase = "recovery_check_queued"]
                       /\ c = RecoveryCommand(d)
    OBVIOUS
  <2>2. r = Result(Enqueue(x, e, c), s, 0)
    BY <1>3, <2>1 DEF resumeDurableSubmission
  <2>3. Clear(d) /\ Standing(d) /\ Aligned(d)
    BY <1>1, <1>3, <2>1, ClearPhases DEF AtItem
  <2>4. /\ e.m = d.m /\ e.review = d.review /\ e.current = d.current /\ ~e.policyCheck
        /\ e.phase = "recovery_check_queued" /\ e.op = d.op
    BY <2>1, <2>3 DEF Clear, IsDriver
  <2>5. Poised(e)
    BY <2>3, <2>4, PhasedTo DEF AtItem, Clear
  <2>6. c.kind = "check_recovery" /\ c.op = d.op
    BY <2>1, CommandHas DEF RecoveryCommand
  <2>7. /\ c.kind \in Kinds /\ c.op = e.op /\ e.phase = QueuedPhase(c.kind)
        /\ Meant(e, c) /\ c.kind # "post"
    BY <2>4, <2>6 DEF Kinds, QueuedPhase, Meant
  <2> QED BY <2>2, <2>5, <2>7, SendsTo
<1>4. CASE x.d.phase = "duplicate_check_paused"
  <2>1. r = Result(queueDuplicateCheck(x), s, 0)
    BY <1>4 DEF resumeDurableSubmission
  <2>2. IsDriver(x.d) /\ ~x.d.policyCheck
    BY <1>4 DEF Sound, Checking
  <2> QED BY <1>1, <2>1, <2>2, queueDuplicateCheckTo
<1>5. CASE x.d.phase = "duplicate_persistence_paused"
  <2>1. r \in persistDuplicateResolution(x, s)
    BY <1>5 DEF resumeDurableSubmission
  <2>2. Resolving(x.d)
    BY <1>5 DEF Sound, Resolving, Checking
  <2> QED BY <1>1, <2>1, <2>2, persistDuplicateResolutionTo
<1>6. CASE x.d.phase \notin byPhase /\ x.d.admission # NoAdmission
  <2>1. r \in ResumeAdmission(x, s)
    BY <1>6 DEF resumeDurableSubmission
  <2> QED BY <1>6, <2>1, ResumeAdmissionTo
<1>7. CASE x.d.phase \notin byPhase /\ x.d.admission = NoAdmission
             /\ x.d.persistence # NoPersistence
  <2>1. r \in retryPersistence(x, s)
    BY <1>7 DEF resumeDurableSubmission
  <2> QED BY <1>7, <2>1, retryPersistenceTo
<1>8. CASE x.d.phase \notin byPhase /\ x.d.admission = NoAdmission
             /\ x.d.persistence = NoPersistence
  BY <1>8 DEF resumeDurableSubmission
<1> QED BY <1>2, <1>3, <1>4, <1>5, <1>6, <1>7, <1>8

-----------------------------------------------------------------------------
(* What a step intends *)

\* The driver of a process is poised, and its commands are about what it is at.
PoisedProcess(x) ==
    x.d # NoDurable =>
        /\ Poised(x.d)
        /\ \A c \in CommandsOf(x) : c.op = x.d.op => Meant(x.d, c)

PInv == IInv /\ \A p \in Proc : PoisedProcess(ui[p])

\* What the phase of x waits for is queued or under way.
Proceeds(x) ==
    \A kind \in Kinds :
        /\ x.d.phase = QueuedPhase(kind) =>
             \E c \in ToSet(x.queue) : c.kind = kind /\ Concerns(x.d, c)
        /\ x.d.phase = AwaitingPhase(kind) =>
             \E c \in x.issued : c.kind = kind /\ Concerns(x.d, c)
Stuck(x) == x.d # NoDurable /\ ~x.d.m.aborted /\ ~Proceeds(x)

\* Process x keeps command c as it becomes y: if c is of the run y drives, x was
\* driving it and was at the same item.
Keeps(x, y, c) ==
    /\ c \in CommandsOf(x)
    /\ y.d # NoDurable /\ c.op = y.d.op =>
         x.d # NoDurable /\ x.d.op = y.d.op /\ x.d.current = y.d.current

\* A step of process p leaves it poised, and any POST it has queued is for the item
\* the run row names, but for the one way around that.
Intends(p) ==
    /\ PoisedProcess(ui'[p])
    /\ \A c \in CommandsOf(ui'[p]) :
          Keeps(ui[p], ui'[p], c) \/ c.kind # "post" \/ c.temp = db'.run.current \/ CheckInside(p)
    /\ Stuck(ui'[p]) => Stuck(ui[p]) \/ CheckInside(p)

LEMMA AppendedIs ==
    ASSUME NEW S, NEW q \in Seq(S), NEW c
    PROVE  ToSet(Append(q, c)) = ToSet(q) \cup {c}
<1>1. q \in Seq(S \cup {c})
  OBVIOUS
<1>2. PICK k : k = Append(q, c)
  OBVIOUS
<1>3. /\ k \in Seq(S \cup {c}) /\ Len(k) = Len(q) + 1 /\ Len(q) \in Nat
      /\ k[Len(q) + 1] = c /\ \A i \in 1..Len(q) : k[i] = q[i]
  BY <1>1, <1>2
<1>4. DOMAIN k = 1..(Len(q) + 1) /\ DOMAIN q = 1..Len(q)
  BY <1>3
<1>5. 1..(Len(q) + 1) = 1..Len(q) \cup {Len(q) + 1}
  BY <1>3
<1>6. ToSet(k) \subseteq ToSet(q) \cup {c}
  BY <1>3, <1>4, <1>5 DEF ToSet
<1>7. ToSet(q) \cup {c} \subseteq ToSet(k)
  BY <1>3, <1>4, <1>5 DEF ToSet
<1> QED BY <1>2, <1>6, <1>7

LEMMA PausedProceeds ==
    ASSUME NEW x, x.d.phase \in PausedPhase
    PROVE  Proceeds(x)
  BY DEF Proceeds, PausedPhase, Kinds, QueuedPhase, AwaitingPhase

LEMMA QueuedProceeds ==
    ASSUME NEW x, NEW c \in ToSet(x.queue), c.kind \in Kinds, x.d.phase = QueuedPhase(c.kind),
           Concerns(x.d, c)
    PROVE  Proceeds(x)
<1>1. \A kind \in Kinds : x.d.phase = QueuedPhase(kind) => kind = c.kind
  BY DEF Kinds, QueuedPhase
<1>2. \A kind \in Kinds : x.d.phase # AwaitingPhase(kind)
  BY DEF Kinds, QueuedPhase, AwaitingPhase
<1> QED BY <1>1, <1>2 DEF Proceeds

\* A handler that found no command of its operation leaves the process poised.
LEMMA OutcomePoised ==
    ASSUME NEW x, NEW n, Commands(x, n), NEW op, Idle(x, op), NEW r, Leaves(x, op, n, r),
           NEW ex, Reaches(x, ex, r)
    PROVE  /\ PoisedProcess(r.x)
           /\ \A c \in CommandsOf(x) : r.x.d # NoDurable => c.op # r.x.d.op
           /\ \A c \in CommandsOf(r.x) :
                 c \in CommandsOf(x) \/ c.kind # "post" \/ c.temp = r.db.run.current \/ ex
           /\ Stuck(r.x) => ex
<1>1. PICK y, s : y = r.x /\ s = r.db
  OBVIOUS
<1>2. /\ y.issued = x.issued
      /\ \/ y.d = NoDurable /\ y.queue = x.queue
         \/ y.d # NoDurable /\ y.d.op = op /\ AtRow(y.d, s)
  BY <1>1, SoundIsBusy DEF Leaves
<1>3. \A c \in CommandsOf(x) : c.op # op
  BY IdleIs
<1>4. CASE y.d = NoDurable /\ y.queue = x.queue
  BY <1>1, <1>2, <1>4 DEF PoisedProcess, CommandsOf, Stuck
<1>5. CASE y.d # NoDurable /\ y.d.op = op /\ AtRow(y.d, s)
  <2>1. /\ Poised(y.d)
        /\ \/ y.queue = x.queue /\ (y.d.phase \in PausedPhase \/ y.d.m.aborted \/ ex)
           \/ \E c : /\ y.queue = Append(x.queue, c) /\ Meant(y.d, c)
                     /\ c.kind \in Kinds /\ c.op = y.d.op /\ y.d.phase = QueuedPhase(c.kind)
                     /\ c.kind = "post" => c.temp = y.d.current \/ ex
    BY <1>1, <1>5 DEF Reaches
  <2>2. CASE y.queue = x.queue /\ (y.d.phase \in PausedPhase \/ y.d.m.aborted \/ ex)
    <3>1. CommandsOf(y) = CommandsOf(x)
      BY <1>2, <2>2 DEF CommandsOf
    <3>2. Stuck(y) => ex
      BY <2>2, PausedProceeds DEF Stuck
    <3> QED BY <1>1, <1>3, <1>5, <2>1, <3>1, <3>2 DEF PoisedProcess
  <2>3. CASE \E c : /\ y.queue = Append(x.queue, c) /\ Meant(y.d, c)
                    /\ c.kind \in Kinds /\ c.op = y.d.op /\ y.d.phase = QueuedPhase(c.kind)
                    /\ c.kind = "post" => c.temp = y.d.current \/ ex
    <3>1. PICK c : /\ y.queue = Append(x.queue, c) /\ Meant(y.d, c)
                   /\ c.kind \in Kinds /\ c.op = y.d.op /\ y.d.phase = QueuedPhase(c.kind)
                   /\ c.kind = "post" => c.temp = y.d.current \/ ex
      BY <2>3
    <3>2. PICK S : x.queue \in Seq(S)
      BY DEF Commands
    <3>3. PICK q : q = x.queue
      OBVIOUS
    <3>4. ToSet(y.queue) = ToSet(x.queue) \cup {c}
      BY <3>1, <3>2, <3>3, AppendedIs
    <3>5. CommandsOf(y) = CommandsOf(x) \cup {c}
      BY <1>2, <3>4 DEF CommandsOf
    <3>6. y.d.current = s.run.current
      BY <1>5 DEF AtRow
    <3>7. Stuck(y) => ex
      <4> SUFFICES ASSUME ~ex PROVE Proceeds(y)
        BY DEF Stuck
      <4>1. Concerns(y.d, c)
        BY <1>5, <3>1 DEF Meant, Kinds, Concerns
      <4>2. c \in ToSet(y.queue)
        BY <3>4
      <4> QED BY <3>1, <4>1, <4>2, QueuedProceeds
    <3> QED BY <1>1, <1>3, <1>5, <2>1, <3>1, <3>5, <3>6, <3>7 DEF PoisedProcess
  <2> QED BY <2>1, <2>2, <2>3
<1> QED BY <1>2, <1>4, <1>5

\* A process that keeps its driver and takes on no command.
LEMMA SamePoised ==
    ASSUME NEW x, PoisedProcess(x), NEW y, y.d = x.d, CommandsOf(y) \subseteq CommandsOf(x)
    PROVE  PoisedProcess(y)
  BY DEF PoisedProcess

LEMMA EndedPoised ==
    ASSUME NEW y, y.d = NoDurable
    PROVE  PoisedProcess(y)
  BY DEF PoisedProcess

LEMMA LocalIntends ==
    ASSUME PInv, NEW CONSTANT p \in Proc, NEW CONSTANT y, ui' = [ui EXCEPT ![p] = y],
           y.d = ui[p].d \/ y.d = NoDurable, CommandsOf(y) \subseteq CommandsOf(ui[p]),
           y.d # NoDurable /\ Proceeds(ui[p]) => Proceeds(y)
    PROVE  Intends(p)
<1>1. PICK x : x = ui[p]
  OBVIOUS
<1>2. PoisedProcess(x) /\ ui'[p] = y
  BY <1>1 DEF PInv, IInv
<1>3. PoisedProcess(y)
  BY <1>1, <1>2, SamePoised, EndedPoised
<1>4. \A c \in CommandsOf(y) : Keeps(x, y, c)
  BY <1>1 DEF Keeps
<1>5. Stuck(y) => Stuck(x)
  BY <1>1 DEF Stuck
<1> QED BY <1>1, <1>2, <1>3, <1>4, <1>5 DEF Intends

LEMMA HandlerIntends ==
    ASSUME PInv, NEW CONSTANT p \in Proc, NEW CONSTANT x, NEW CONSTANT s, s = db,
           Commands(x, s.nextOp), Idle(x, x.d.op), CommandsOf(x) \subseteq CommandsOf(ui[p]),
           NEW CONSTANT r, Leaves(x, x.d.op, s.nextOp, r), Handled(p, r),
           NEW CONSTANT ex, ex => CheckInside(p), Reaches(x, ex, r)
    PROVE  Intends(p)
<1>1. PICK op : op = x.d.op
  OBVIOUS
<1>2. /\ PoisedProcess(r.x)
      /\ \A c \in CommandsOf(x) : r.x.d # NoDurable => c.op # r.x.d.op
      /\ \A c \in CommandsOf(r.x) :
            c \in CommandsOf(x) \/ c.kind # "post" \/ c.temp = r.db.run.current \/ ex
      /\ Stuck(r.x) => ex
  BY <1>1, OutcomePoised
<1>3. ui'[p] = r.x /\ db' = r.db
  BY DEF Handled, PInv, IInv
<1>4. \A c \in CommandsOf(x) : Keeps(ui[p], r.x, c)
  BY <1>2 DEF Keeps
<1> QED BY <1>2, <1>3, <1>4 DEF Intends

\* A completion that is dropped.
LEMMA DroppedIntends ==
    ASSUME PInv, NEW CONSTANT p \in Proc, NEW CONSTANT c \in ui[p].issued, ~Expected(ui[p], c),
           Handled(p, Result(Consumed(ui[p], c), db, 0))
    PROVE  Intends(p)
<1>1. PICK x, y : x = ui[p] /\ y = Consumed(x, c)
  OBVIOUS
<1>2. IsProcess(x)
  BY <1>1 DEF PInv, IInv, ProcessOK
<1>3. /\ y.d = x.d /\ y.queue = x.queue /\ y.issued = x.issued \ {c}
      /\ CommandsOf(y) \subseteq CommandsOf(x)
  BY <1>1, <1>2 DEF Consumed, IsProcess, CommandsOf
<1>4. ui' = [ui EXCEPT ![p] = y]
  BY <1>1 DEF Handled, Result
<1>5. Proceeds(x) => Proceeds(y)
  BY <1>1, <1>3 DEF Proceeds, Expected
<1> QED BY <1>1, <1>3, <1>4, <1>5, LocalIntends

\* What a handler of an expected completion finds.
LEMMA AwaitedPoised ==
    ASSUME PInv, NEW CONSTANT p \in Proc, NEW CONSTANT c \in ui[p].issued, Expected(ui[p], c),
           NEW CONSTANT x, x = Consumed(ui[p], c)
    PROVE  /\ Poised(x.d) /\ Meant(x.d, c) /\ CommandsOf(x) \subseteq CommandsOf(ui[p])
           /\ c.kind # "check_recovery" => x.d.current = c.temp
<1>1. PICK z : z = ui[p]
  OBVIOUS
<1>2. IsProcess(z) /\ PoisedProcess(z) /\ Expected(z, c) /\ c \in z.issued
  BY <1>1 DEF PInv, IInv, ProcessOK
<1>3. x.d = z.d /\ CommandsOf(x) \subseteq CommandsOf(z) /\ c \in CommandsOf(z)
  BY <1>1, <1>2 DEF Consumed, IsProcess, CommandsOf
<1> QED BY <1>1, <1>2, <1>3 DEF PoisedProcess, Expected, Concerns

LEMMA ReplyIs ==
    ASSUME NEW old, NEW t, NEW draft, NEW parent, NEW a \in post(old, t, draft, parent)
    PROVE  a.reply.outcome \in {"posted", "rejected", "ambiguous"}
<1>1. ASSUME NEW E, NEW e \in Rejections(E) PROVE e.outcome = "rejected"
  BY <1>1 DEF Rejections, Rejected
<1>2. \A n : Published(n).outcome = "posted"
  BY DEF Published
<1>3. Ambiguous.outcome = "ambiguous"
  BY DEF Ambiguous
<1>4. \/ \E n, after : a = Answer(Published(n), after)
      \/ \E E : \E e \in Rejections(E) : \E after : a = Answer(e, after)
      \/ \E after : a = Answer(Ambiguous, after)
  BY DEF post
<1>5. \A reply, after : Answer(reply, after).reply = reply
  BY DEF Answer
<1>6. CASE \E n, after : a = Answer(Published(n), after)
  BY <1>2, <1>5, <1>6
<1>7. CASE \E E : \E e \in Rejections(E) : \E after : a = Answer(e, after)
  BY <1>1, <1>5, <1>7
<1>8. CASE \E after : a = Answer(Ambiguous, after)
  BY <1>3, <1>5, <1>8
<1> QED BY <1>4, <1>6, <1>7, <1>8

\* A completion that is parked with the driver of x.
LEMMA ParkedTo ==
    ASSUME NEW CONSTANT x, IsProcess(x), Clear(x.d), Standing(x.d), Aligned(x.d),
           NEW CONSTANT admission,
           admission.kind = "post" => IsAnswer(x.d, admission.cmd.temp, admission.reply),
           NEW CONSTANT r, r \in Parked(x, admission), NEW CONSTANT ex
    PROVE  Reaches(x, ex, r)
<1>1. PICK d, e, y : /\ d = x.d
                     /\ e = [d EXCEPT !.admission = admission, !.phase = "admission_paused"]
                     /\ y = [x EXCEPT !.d = e]
  OBVIOUS
<1>2. IsDriver(d) /\ ~d.policyCheck /\ Standing(d) /\ Aligned(d)
  BY <1>1 DEF Clear
<1>3. /\ e.m = d.m /\ e.review = d.review /\ e.current = d.current /\ ~e.policyCheck
      /\ e.phase = "admission_paused" /\ e.admission = admission
  BY <1>1, <1>2 DEF IsDriver
<1>4. Poised(e)
  BY <1>1, <1>2, <1>3 DEF Poised, AtItem, AtPost, Standing, Aligned, IsAnswer
<1>5. y.queue = x.queue /\ y.d = e
  BY <1>1 DEF IsProcess
<1>6. \E s : r = Result(y, s, 1)
  <2>1. y = [x EXCEPT !.d.admission = admission, !.d.phase = "admission_paused"]
    BY <1>1 DEF IsProcess
  <2> QED BY <2>1 DEF Parked
<1>7. PICK s, f : r = Result(y, s, f)
  BY <1>6
<1> QED BY <1>3, <1>4, <1>5, <1>7, PausesTo DEF PausedPhase

LEMMA PostCompletedIntends ==
    ASSUME PInv, NEW CONSTANT p \in Proc, NEW CONSTANT c \in ui[p].issued, PostCompleted(p, c)
    PROVE  Intends(p)
<1>1. PICK x, s : x = Consumed(ui[p], c) /\ s = db
  OBVIOUS
<1>a. PICK a \in post(comments, c.temp, c.draft, c.parent) :
          Complete(p, c, acceptPost(x, s, c.temp, a.reply)
                           \cup Parked(x, [kind |-> "post", cmd |-> c, reply |-> a.reply]))
  BY <1>1 DEF PostCompleted
<1>b. PICK reply : reply = a.reply /\ reply.outcome \in {"posted", "rejected", "ambiguous"}
  BY ReplyIs
<1>c. PICK admission : admission = [kind |-> "post", cmd |-> c, reply |-> reply]
  OBVIOUS
<1>2. Complete(p, c, acceptPost(x, s, c.temp, reply) \cup Parked(x, admission))
  BY <1>a, <1>b, <1>c
<1>3. c.kind = "post"
  BY DEF PostCompleted
<1>4. CASE Expected(ui[p], c)
  <2>1. PICK r \in acceptPost(x, s, c.temp, reply) \cup Parked(x, admission) : Handled(p, r)
    BY <1>2, <1>4 DEF Complete
  <2>2. /\ IsProcess(x) /\ x.d = ui[p].d /\ Sound(x.d) /\ AtRow(x.d, s) /\ Tables(s)
        /\ Commands(x, s.nextOp) /\ Idle(x, x.d.op) /\ ui[p].d # NoDurable
        /\ x.d.phase = AwaitingPhase(c.kind)
    BY <1>1, <1>4, Awaited DEF PInv
  <2>3. x.d.phase = "awaiting_post" /\ Clear(x.d) /\ x.d.phase \notin Checking
    BY <1>3, <2>2, ClearPhases DEF AwaitingPhase
  <2>4. /\ Poised(x.d) /\ Meant(x.d, c) /\ CommandsOf(x) \subseteq CommandsOf(ui[p])
        /\ x.d.current = c.temp
    BY <1>1, <1>3, <1>4, AwaitedPoised
  <2>5. PICK d, t : d = x.d /\ t = c.temp
    OBVIOUS
  <2>6. Standing(d) /\ Aligned(d) /\ IsAnswer(d, t, reply)
    BY <1>b, <1>3, <2>3, <2>4, <2>5 DEF Poised, AtItem, AtPost, IsAnswer, Meant
  <2>7. admission.kind = "post" /\ admission.cmd.temp = t /\ admission.reply = reply
    BY <1>c, <2>5
  <2>8. PICK ex : ex = FALSE
    OBVIOUS
  <2>9. CASE r \in acceptPost(x, s, t, reply)
    <3>1. Leaves(x, x.d.op, s.nextOp, r)
      BY <2>2, <2>3, <2>9, acceptPostIs
    <3>2. Reaches(x, ex, r)
      BY <2>2, <2>3, <2>5, <2>6, <2>9, acceptPostTo
    <3> QED BY <1>1, <2>1, <2>2, <2>4, <2>8, <3>1, <3>2, HandlerIntends
  <2>10. CASE r \in Parked(x, admission)
    <3>1. Leaves(x, x.d.op, s.nextOp, r)
      BY <1>1, <2>2, <2>3, <2>7, <2>10, ParkedIs
    <3>2. Reaches(x, ex, r)
      BY <2>2, <2>3, <2>5, <2>6, <2>7, <2>10, ParkedTo
    <3> QED BY <1>1, <2>1, <2>2, <2>4, <2>8, <3>1, <3>2, HandlerIntends
  <2> QED BY <2>1, <2>5, <2>9, <2>10
<1>5. CASE ~Expected(ui[p], c)
  BY <1>2, <1>5, DroppedIntends DEF Complete
<1> QED BY <1>4, <1>5

LEMMA WaitCompletedIntends ==
    ASSUME PInv, NEW CONSTANT p \in Proc, NEW CONSTANT c \in ui[p].issued, WaitCompleted(p, c)
    PROVE  Intends(p)
<1>1. PICK x, s : x = Consumed(ui[p], c) /\ s = db
  OBVIOUS
<1>2. PICK admission : admission = [kind |-> "wait", cmd |-> c]
  OBVIOUS
<1>3. /\ c.kind = "wait"
      /\ Complete(p, c, processSubmissionWait(x, s, c) \cup Parked(x, admission))
  BY <1>1, <1>2 DEF WaitCompleted
<1>4. CASE Expected(ui[p], c)
  <2>1. PICK r \in processSubmissionWait(x, s, c) \cup Parked(x, admission) : Handled(p, r)
    BY <1>3, <1>4 DEF Complete
  <2>2. /\ IsProcess(x) /\ x.d = ui[p].d /\ Sound(x.d) /\ AtRow(x.d, s) /\ Tables(s)
        /\ Commands(x, s.nextOp) /\ Idle(x, x.d.op) /\ ui[p].d # NoDurable
        /\ x.d.phase = AwaitingPhase(c.kind)
    BY <1>1, <1>4, Awaited DEF PInv
  <2>3. x.d.phase = "awaiting_wait" /\ Clear(x.d)
    BY <1>3, <2>2, ClearPhases DEF AwaitingPhase
  <2>4. Poised(x.d) /\ CommandsOf(x) \subseteq CommandsOf(ui[p])
    BY <1>1, <1>4, AwaitedPoised
  <2>5. Standing(x.d) /\ Aligned(x.d)
    BY <2>3, <2>4 DEF Poised, AtItem
  <2>6. admission.kind = "wait"
    BY <1>2
  <2>7. PICK ex : ex = FALSE
    OBVIOUS
  <2>8. CASE r \in processSubmissionWait(x, s, c)
    <3>1. Leaves(x, x.d.op, s.nextOp, r)
      BY <2>2, <2>3, <2>8, processSubmissionWaitIs
    <3>2. Reaches(x, ex, r)
      BY <2>2, <2>3, <2>5, <2>8, processSubmissionWaitTo
    <3> QED BY <1>1, <2>1, <2>2, <2>4, <2>7, <3>1, <3>2, HandlerIntends
  <2>9. CASE r \in Parked(x, admission)
    <3>1. Leaves(x, x.d.op, s.nextOp, r)
      BY <1>1, <2>2, <2>3, <2>6, <2>9, ParkedIs
    <3>2. Reaches(x, ex, r)
      BY <2>2, <2>3, <2>5, <2>6, <2>9, ParkedTo
    <3> QED BY <1>1, <2>1, <2>2, <2>4, <2>7, <3>1, <3>2, HandlerIntends
  <2> QED BY <2>1, <2>8, <2>9
<1>5. CASE ~Expected(ui[p], c)
  BY <1>3, <1>5, DroppedIntends DEF Complete
<1> QED BY <1>4, <1>5

LEMMA LaunchFailedIntends ==
    ASSUME PInv, NEW CONSTANT p \in Proc, NEW CONSTANT c \in ui[p].issued, LaunchFailed(p, c)
    PROVE  Intends(p)
<1>1. PICK x, s : x = Consumed(ui[p], c) /\ s = db
  OBVIOUS
<1>2. PICK phase : phase = IF c.kind = "post" THEN "post_retry_paused" ELSE "wait_retry_paused"
  OBVIOUS
<1>3. PICK y : y = [x EXCEPT !.d.phase = phase, !.d.wait = c.retry]
  OBVIOUS
<1>4. c.kind \in {"post", "wait"} /\ Complete(p, c, {Result(y, s, 1)})
  BY <1>1, <1>2, <1>3 DEF LaunchFailed
<1>5. CASE Expected(ui[p], c)
  <2>1. PICK r : r = Result(y, s, 1) /\ Handled(p, r)
    BY <1>4, <1>5 DEF Complete
  <2>2. /\ IsProcess(x) /\ x.d = ui[p].d /\ Sound(x.d) /\ AtRow(x.d, s) /\ Tables(s)
        /\ Commands(x, s.nextOp) /\ Idle(x, x.d.op) /\ ui[p].d # NoDurable
        /\ x.d.phase = AwaitingPhase(c.kind)
    BY <1>1, <1>5, Awaited DEF PInv
  <2>3. Clear(x.d) /\ x.d.phase = IF c.kind = "post" THEN "awaiting_post" ELSE "awaiting_wait"
    BY <1>4, <2>2, ClearPhases DEF AwaitingPhase
  <2>4. Poised(x.d) /\ CommandsOf(x) \subseteq CommandsOf(ui[p])
    BY <1>1, <1>5, AwaitedPoised
  <2>5. PICK d, e : d = x.d /\ e = [d EXCEPT !.phase = phase, !.wait = c.retry]
    OBVIOUS
  <2>6. /\ IsProcess(y) /\ y.issued = x.issued /\ y.queue = x.queue /\ y.d = e
    BY <1>3, <2>2, <2>5 DEF IsProcess
  <2>7. /\ e.m = d.m /\ e.review = d.review /\ e.current = d.current /\ e.op = d.op
        /\ ~e.policyCheck /\ e.phase = phase /\ Clear(e)
    BY <2>3, <2>5 DEF Clear, IsDriver
  <2>8. Sound(e) /\ AtRow(e, s)
    BY <1>2, <2>2, <2>5, <2>7 DEF Clear, Sound, Checking, AtRow
  <2>9. Poised(e) /\ e.phase \in PausedPhase
    <3>1. /\ Standing(d) /\ Aligned(d) /\ (c.kind = "post" => ~d.m.mustWait)
      BY <2>3, <2>4, <2>5 DEF Poised, AtItem, AtPost
    <3> QED BY <1>2, <2>7, <3>1 DEF Poised, AtItem, AtPost, Standing, Aligned, PausedPhase
  <2>10. Leaves(x, x.d.op, s.nextOp, r)
    BY <2>1, <2>2, <2>5, <2>6, <2>7, <2>8, Stays
  <2>11. PICK ex : ex = FALSE
    OBVIOUS
  <2>12. Reaches(x, ex, r)
    BY <2>1, <2>6, <2>9, PausesTo
  <2> QED BY <1>1, <2>1, <2>2, <2>4, <2>10, <2>11, <2>12, HandlerIntends
<1>6. CASE ~Expected(ui[p], c)
  BY <1>4, <1>6, DroppedIntends DEF Complete
<1> QED BY <1>5, <1>6

LEMMA RecoveryCheckedIntends ==
    ASSUME PInv, NEW CONSTANT p \in Proc, NEW CONSTANT c \in ui[p].issued,
           NEW CONSTANT observed, RecoveryChecked(p, c, observed)
    PROVE  Intends(p)
<1>1. PICK x, s : x = Consumed(ui[p], c) /\ s = db
  OBVIOUS
<1>2. c.kind = "check_recovery" /\ Complete(p, c, acceptRecoveryCheck(x, s, observed))
  BY <1>1 DEF RecoveryChecked
<1>3. CASE Expected(ui[p], c)
  <2>1. PICK r \in acceptRecoveryCheck(x, s, observed) : Handled(p, r)
    BY <1>2, <1>3 DEF Complete
  <2>2. /\ IsProcess(x) /\ x.d = ui[p].d /\ Sound(x.d) /\ AtRow(x.d, s) /\ Tables(s)
        /\ Commands(x, s.nextOp) /\ Idle(x, x.d.op) /\ ui[p].d # NoDurable
        /\ x.d.phase = AwaitingPhase(c.kind)
    BY <1>1, <1>3, Awaited DEF PInv
  <2>3. x.d.phase = "awaiting_recovery_check" /\ Clear(x.d)
    BY <1>2, <2>2, ClearPhases DEF AwaitingPhase
  <2>4. Poised(x.d) /\ CommandsOf(x) \subseteq CommandsOf(ui[p])
    BY <1>1, <1>3, AwaitedPoised
  <2>5. Standing(x.d) /\ Aligned(x.d)
    BY <2>3, <2>4 DEF Poised, AtItem
  <2>6. PICK ex : ex = FALSE
    OBVIOUS
  <2>7. Leaves(x, x.d.op, s.nextOp, r)
    BY <2>1, <2>2, <2>3, acceptRecoveryCheckIs
  <2>8. Reaches(x, ex, r)
    BY <2>1, <2>2, <2>3, <2>5, acceptRecoveryCheckTo
  <2> QED BY <1>1, <2>1, <2>2, <2>4, <2>6, <2>7, <2>8, HandlerIntends
<1>4. CASE ~Expected(ui[p], c)
  BY <1>2, <1>4, DroppedIntends DEF Complete
<1> QED BY <1>3, <1>4

LEMMA DuplicateCheckedIntends ==
    ASSUME PInv, NEW CONSTANT p \in Proc, NEW CONSTANT c \in ui[p].issued,
           NEW CONSTANT reply, DuplicateChecked(p, c, reply)
    PROVE  Intends(p)
<1>1. PICK x, s : x = Consumed(ui[p], c) /\ s = db
  OBVIOUS
<1>2. c.kind = "find_duplicate" /\ Complete(p, c, acceptDuplicateCheck(x, s, c.temp, reply))
  BY <1>1 DEF DuplicateChecked
<1>3. CASE Expected(ui[p], c)
  <2>1. PICK r \in acceptDuplicateCheck(x, s, c.temp, reply) : Handled(p, r)
    BY <1>2, <1>3 DEF Complete
  <2>2. /\ IsProcess(x) /\ x.d = ui[p].d /\ Sound(x.d) /\ AtRow(x.d, s) /\ Tables(s)
        /\ Commands(x, s.nextOp) /\ Idle(x, x.d.op) /\ ui[p].d # NoDurable
        /\ x.d.phase = AwaitingPhase(c.kind)
    BY <1>1, <1>3, Awaited DEF PInv
  <2>3. x.d.phase = "awaiting_duplicate"
    BY <1>2, <2>2 DEF AwaitingPhase
  <2>4. Poised(x.d) /\ CommandsOf(x) \subseteq CommandsOf(ui[p])
    BY <1>1, <1>3, AwaitedPoised
  <2>5. PICK ex : ex = CheckInside(p)
    OBVIOUS
  <2>6. x.d.policyCheck /\ x.d.m.idx < Len(x.d.m.order) => ex
    BY <2>2, <2>5 DEF CheckInside, Busy
  <2>7. Leaves(x, x.d.op, s.nextOp, r)
    BY <2>1, <2>2, <2>3, acceptDuplicateCheckIs
  <2>8. Reaches(x, ex, r)
    BY <2>1, <2>2, <2>3, <2>4, <2>6, acceptDuplicateCheckTo
  <2> QED BY <1>1, <2>1, <2>2, <2>4, <2>5, <2>7, <2>8, HandlerIntends
<1>4. CASE ~Expected(ui[p], c)
  BY <1>2, <1>4, DroppedIntends DEF Complete
<1> QED BY <1>3, <1>4

LEMMA CompletionIntends ==
    ASSUME PInv, NEW CONSTANT p \in Proc, Completion(p)
    PROVE  Intends(p)
<1>1. PICK c \in ui[p].issued :
          \/ PostCompleted(p, c) \/ WaitCompleted(p, c) \/ LaunchFailed(p, c)
          \/ \E observed \in {head} \cup {NoSource : e \in CheckErrors} :
               RecoveryChecked(p, c, observed)
          \/ c.kind = "find_duplicate" /\ \E reply \in findExisting(comments, c.draft, c.parent) :
               DuplicateChecked(p, c, reply)
  BY DEF Completion
<1>2. \/ PostCompleted(p, c) \/ WaitCompleted(p, c) \/ LaunchFailed(p, c)
      \/ \E observed : RecoveryChecked(p, c, observed)
      \/ \E reply : DuplicateChecked(p, c, reply)
  BY <1>1
<1> QED BY <1>2, PostCompletedIntends, WaitCompletedIntends, LaunchFailedIntends,
           RecoveryCheckedIntends, DuplicateCheckedIntends

LEMMA ResumeIntends ==
    ASSUME PInv, NEW CONSTANT p \in Proc, Resume(p)
    PROVE  Intends(p)
<1>1. PICK x, s : x = ui[p] /\ s = db
  OBVIOUS
<1>2. PICK r \in resumeDurableSubmission(x, s) : x.d # NoDurable /\ Handled(p, r)
  BY <1>1 DEF Resume
<1>3. Tables(s) /\ ProcessOK(x, s) /\ PoisedProcess(x)
  BY <1>1 DEF PInv, IInv
<1>4. /\ IsProcess(x) /\ Sound(x.d) /\ AtRow(x.d, s) /\ OneCommand(x) /\ Commands(x, s.nextOp)
      /\ Poised(x.d)
  BY <1>2, <1>3 DEF ProcessOK, PoisedProcess
<1>5. Leaves(x, x.d.op, s.nextOp, r) /\ x.d.phase \in PausedPhase
  BY <1>2, <1>3, <1>4, resumeDurableSubmissionIs
<1>6. Idle(x, x.d.op)
  BY <1>4, <1>5, PausedIsIdle
<1>7. PICK ex : ex = FALSE
  OBVIOUS
<1>8. Reaches(x, ex, r)
  BY <1>2, <1>4, resumeDurableSubmissionTo
<1> QED BY <1>1, <1>2, <1>4, <1>5, <1>6, <1>7, <1>8, HandlerIntends

\* takeCommand: the current item's POST is the one the machine is at.
LEMMA AwaitedProceeds ==
    ASSUME NEW x, NEW c \in x.issued, c.kind \in Kinds, x.d.phase = AwaitingPhase(c.kind),
           Concerns(x.d, c)
    PROVE  Proceeds(x)
<1>1. \A kind \in Kinds : x.d.phase = AwaitingPhase(kind) => kind = c.kind
  BY DEF Kinds, AwaitingPhase
<1>2. \A kind \in Kinds : x.d.phase # QueuedPhase(kind)
  BY DEF Kinds, QueuedPhase, AwaitingPhase
<1> QED BY <1>1, <1>2 DEF Proceeds

LEMMA TakenPoised ==
    ASSUME NEW x, NEW s, ProcessOK(x, s), PoisedProcess(x), x.queue # <<>>
    PROVE  /\ PoisedProcess(Taken(x)) /\ \A b \in CommandsOf(Taken(x)) : Keeps(x, Taken(x), b)
           /\ Stuck(Taken(x)) => Stuck(x)
<1>1. PICK c, taken, y : /\ c = Head(x.queue) /\ y = Taken(x)
                         /\ taken = [x EXCEPT !.queue = Tail(@), !.issued = @ \cup {c}]
  OBVIOUS
<1>2. y = IF Concerns(x.d, c) /\ x.d.phase = QueuedPhase(c.kind)
          THEN [taken EXCEPT !.d.phase = AwaitingPhase(c.kind)] ELSE taken
  BY <1>1 DEF Taken
<1>3. IsProcess(x) /\ Commands(x, s.nextOp)
  BY DEF ProcessOK
<1>4. PICK S : x.queue \in Seq(S)
  BY <1>3 DEF Commands
<1>5. PICK q : q = x.queue
  OBVIOUS
<1>6. /\ c = q[1] /\ Len(q) \in Nat /\ 1 \in 1..Len(q) /\ Len(Tail(q)) = Len(q) - 1
      /\ Tail(q) \in Seq(S) /\ \A i \in 1..Len(Tail(q)) : Tail(q)[i] = q[i + 1]
  BY <1>1, <1>4, <1>5
<1>7. DOMAIN q = 1..Len(q) /\ DOMAIN Tail(q) = 1..Len(Tail(q))
  BY <1>4, <1>5, <1>6
<1>8. \A i \in 1..Len(Tail(q)) : i + 1 \in 1..Len(q)
  BY <1>6
<1>9. ToSet(Tail(q)) \cup {c} \subseteq ToSet(q)
  BY <1>6, <1>7, <1>8 DEF ToSet
<1>10. /\ IsProcess(taken) /\ taken.queue = Tail(q) /\ taken.issued = x.issued \cup {c}
       /\ taken.d = x.d
  BY <1>1, <1>3, <1>5 DEF IsProcess
<1>11. CommandsOf(taken) \subseteq CommandsOf(x) /\ c \in CommandsOf(x)
  BY <1>5, <1>9, <1>10 DEF CommandsOf
<1>a. \A b \in ToSet(q) : b = c \/ b \in ToSet(Tail(q))
  <2> SUFFICES ASSUME NEW b \in ToSet(q), b # c PROVE b \in ToSet(Tail(q))
    OBVIOUS
  <2>1. PICK i \in 1..Len(q) : b = q[i]
    BY <1>7 DEF ToSet
  <2>2. i - 1 \in 1..Len(Tail(q)) /\ (i - 1) + 1 = i
    BY <1>6, <2>1
  <2>3. PICK j : j = i - 1
    OBVIOUS
  <2>4. j \in DOMAIN Tail(q) /\ Tail(q)[j] = b
    BY <1>6, <1>7, <2>1, <2>2, <2>3
  <2> QED BY <2>4 DEF ToSet
<1>12. CASE /\ ~(Concerns(x.d, c) /\ x.d.phase = QueuedPhase(c.kind))
            /\ y = taken
  <2>1. Proceeds(x) => Proceeds(y)
    BY <1>5, <1>10, <1>12, <1>a DEF Proceeds
  <2> QED BY <1>1, <1>10, <1>11, <1>12, <2>1, SamePoised DEF Keeps, Stuck
<1>13. CASE /\ Concerns(x.d, c) /\ x.d.phase = QueuedPhase(c.kind)
            /\ y = [taken EXCEPT !.d.phase = AwaitingPhase(c.kind)]
  <2>1. PICK d, phase, e : /\ d = x.d /\ phase = AwaitingPhase(c.kind)
                           /\ e = [d EXCEPT !.phase = phase]
    OBVIOUS
  <2>2. y.d = e /\ y.queue = taken.queue /\ y.issued = taken.issued
    BY <1>10, <1>13, <2>1 DEF IsProcess
  <2>3. c.kind \in Kinds
    BY <1>3, <1>11, CommandsOfIs DEF IsCommand
  <2>4. /\ d # NoDurable /\ d.op = c.op /\ (c.kind # "check_recovery" => d.current = c.temp)
        /\ d.phase = QueuedPhase(c.kind)
    BY <1>13, <2>1 DEF Concerns
  <2>5. Sound(d) /\ IsDriver(d)
    BY <2>1, <2>4 DEF ProcessOK, Sound
  <2>6. Poised(d) /\ Meant(d, c)
    BY <1>11, <2>1, <2>4 DEF PoisedProcess
  <2>7. /\ e.m = d.m /\ e.review = d.review /\ e.current = d.current /\ e.op = d.op
        /\ e.policyCheck = d.policyCheck /\ e.phase = phase
    BY <2>1, <2>5 DEF IsDriver
  <2>8. Poised(e)
    <3>1. CASE c.kind = "post"
      <4>1. phase = "awaiting_post" /\ Here(d.review, d.m) /\ ~d.m.mustWait /\ Aligned(d)
        BY <2>1, <2>4, <2>6, <3>1 DEF QueuedPhase, AwaitingPhase, Poised, AtPost, Meant, Aligned
      <4> QED BY <2>6, <2>7, <4>1 DEF Poised, AtItem, AtPost, Standing, Aligned
    <3>2. CASE c.kind = "wait"
      <4>1. phase = "awaiting_wait" /\ Aligned(d)
        BY <2>1, <2>4, <2>6, <3>2 DEF QueuedPhase, AwaitingPhase, Poised, AtItem
      <4> QED BY <2>6, <2>7, <4>1 DEF Poised, AtItem, AtPost, Standing, Aligned
    <3>3. CASE c.kind = "check_recovery"
      <4>1. phase = "awaiting_recovery_check" /\ Aligned(d)
        BY <2>1, <2>4, <2>6, <3>3 DEF QueuedPhase, AwaitingPhase, Poised, AtItem
      <4> QED BY <2>6, <2>7, <4>1 DEF Poised, AtItem, AtPost, Standing, Aligned
    <3>4. CASE c.kind = "find_duplicate"
      <4>1. phase = "awaiting_duplicate"
        BY <2>1, <3>4 DEF AwaitingPhase
      <4> QED BY <2>6, <2>7, <4>1 DEF Poised, AtItem, AtPost, Standing, Aligned
    <3> QED BY <2>3, <3>1, <3>2, <3>3, <3>4 DEF Kinds
  <2>9. CommandsOf(y) \subseteq CommandsOf(x)
    BY <1>11, <2>2 DEF CommandsOf
  <2>10. \A b \in CommandsOf(y) : b.op = e.op => Meant(e, b)
    BY <2>1, <2>4, <2>7, <2>9 DEF PoisedProcess, Meant
  <2>11. \A b \in CommandsOf(y) : Keeps(x, y, b)
    BY <2>1, <2>2, <2>4, <2>7, <2>9 DEF Keeps
  <2>12. Proceeds(y)
    <3>1. e.phase = AwaitingPhase(c.kind) /\ c \in y.issued /\ Concerns(y.d, c)
      <4>1. e # NoDurable
        BY <2>5, <2>7 DEF IsDriver, NoDurable
      <4> QED BY <1>10, <2>1, <2>2, <2>4, <2>7, <4>1 DEF Concerns
    <3> QED BY <2>2, <2>3, <3>1, AwaitedProceeds
  <2> QED BY <1>1, <2>2, <2>8, <2>9, <2>10, <2>11, <2>12 DEF PoisedProcess, Stuck
<1> QED BY <1>2, <1>12, <1>13

LEMMA TakeCommandIntends ==
    ASSUME PInv, NEW CONSTANT p \in Proc, TakeCommand(p)
    PROVE  Intends(p)
<1>1. PICK x, s : x = ui[p] /\ s = db
  OBVIOUS
<1>2. PICK y : y = Taken(x)
  OBVIOUS
<1>3. x.queue # <<>> /\ ui' = [ui EXCEPT ![p] = y]
  BY <1>1, <1>2 DEF TakeCommand, Taken
<1>4. ProcessOK(x, s) /\ PoisedProcess(x) /\ ui'[p] = y
  BY <1>1, <1>3 DEF PInv, IInv
<1>5. PoisedProcess(y) /\ (\A b \in CommandsOf(y) : Keeps(x, y, b)) /\ (Stuck(y) => Stuck(x))
  BY <1>2, <1>3, <1>4, TakenPoised
<1> QED BY <1>1, <1>4, <1>5 DEF Intends

LEMMA AbandonRecoveredIntends ==
    ASSUME PInv, NEW CONSTANT p \in Proc, AbandonRecovered(p)
    PROVE  Intends(p)
<1>1. PICK x, s : x = ui[p] /\ s = db
  OBVIOUS
<1>2. PICK W, left, y : /\ W = {c \in Members(x.queue) : c.op # x.d.op}
                        /\ left = Kept(x.queue, W)
                        /\ y = [destroy(x) EXCEPT !.queue = left]
  OBVIOUS
<1>3. PICK r : Handled(p, Result(IF r.done THEN y ELSE x, r.db, r.f))
  BY <1>1, <1>2 DEF AbandonRecovered
<1>4. PICK z : z = IF r.done THEN y ELSE x
  OBVIOUS
<1>5. ui' = [ui EXCEPT ![p] = z]
  BY <1>3, <1>4 DEF Handled, Result
<1>6. IsProcess(x) /\ Commands(x, s.nextOp)
  BY <1>1 DEF PInv, IInv, ProcessOK
<1>7. PICK q : q = x.queue
  OBVIOUS
<1>8. PICK S : q \in Seq(S)
  BY <1>6, <1>7 DEF Commands
<1>9. left \in Seq(S) /\ Members(left) = Members(q) \cap W
  <2>1. left = Kept(q, W)
    BY <1>2, <1>7
  <2>2. Kept(q, W) \in Seq(S) /\ Members(Kept(q, W)) = Members(q) \cap W
    BY <1>8, KeptIs
  <2> QED BY <2>1, <2>2
<1>10. ToSet(left) \subseteq ToSet(q)
  <2>1. DOMAIN left = 1..Len(left) /\ DOMAIN q = 1..Len(q)
    BY <1>8, <1>9
  <2> QED BY <1>9, <2>1 DEF ToSet, Members
<1>11. y.d = NoDurable /\ y.queue = left /\ y.issued = x.issued
  BY <1>2, <1>6 DEF IsProcess, destroy
<1>12. z.d = x.d \/ z.d = NoDurable
  BY <1>4, <1>11
<1>13. CommandsOf(z) \subseteq CommandsOf(x)
  BY <1>4, <1>7, <1>10, <1>11 DEF CommandsOf
<1>14. z.d # NoDurable => z = x
  BY <1>4, <1>11
<1> QED BY <1>1, <1>5, <1>12, <1>13, <1>14, LocalIntends

LEMMA DownHasNone ==
    ASSUME NEW x, x.queue = <<>>, x.issued = {}
    PROVE  CommandsOf(x) = {}
<1>1. DOMAIN <<>> = {}
  OBVIOUS
<1> QED BY <1>1 DEF CommandsOf, ToSet

LEMMA LaunchIntends ==
    ASSUME PInv, NEW CONSTANT p \in Proc, Launch(p)
    PROVE  Intends(p)
<1>1. PICK x : x = [Down EXCEPT !.up = TRUE, !.loaded = head, !.notice = discoverRecovery]
  OBVIOUS
<1>2. x.d = NoDurable /\ x.queue = <<>> /\ x.issued = {}
  BY <1>1, DownIsProcess DEF IsProcess
<1>3. CommandsOf(x) \subseteq CommandsOf(ui[p])
  BY <1>2, DownHasNone
<1>4. ui' = [ui EXCEPT ![p] = x]
  BY <1>1 DEF Launch
<1> QED BY <1>2, <1>3, <1>4, LocalIntends

LEMMA CrashIntends ==
    ASSUME PInv, NEW CONSTANT p \in Proc, Crash(p)
    PROVE  Intends(p)
<1>1. PICK x : x = Down
  OBVIOUS
<1>2. x.d = NoDurable /\ CommandsOf(x) \subseteq CommandsOf(ui[p])
  BY <1>1, DownIsProcess, DownHasNone
<1>3. ui' = [ui EXCEPT ![p] = x]
  BY <1>1 DEF Crash
<1> QED BY <1>2, <1>3, LocalIntends

LEMMA ReloadIntends ==
    ASSUME PInv, NEW CONSTANT p \in Proc, Reload(p)
    PROVE  Intends(p)
<1>1. PICK x : x = ui[p]
  OBVIOUS
<1>2. PICK y : y = [x EXCEPT !.loaded = head, !.gate = IF @ = "off" THEN @ ELSE "reloaded"]
  OBVIOUS
<1>3. p \in DOMAIN ui /\ IsProcess(x)
  BY <1>1 DEF PInv, IInv, ProcessOK
<1>4. ui' = [ui EXCEPT ![p] = y]
  BY <1>1, <1>2, <1>3 DEF Reload
<1>5. y.d = x.d /\ y.queue = x.queue /\ y.issued = x.issued
  BY <1>2, <1>3 DEF IsProcess
<1>6. CommandsOf(y) = CommandsOf(x)
  BY <1>5 DEF CommandsOf
<1>7. Proceeds(x) => Proceeds(y)
  BY <1>5 DEF Proceeds
<1> QED BY <1>1, <1>4, <1>5, <1>6, <1>7, LocalIntends

LEMMA RestoreRetryIs ==
    ASSUME NEW m, IsMachine(m), NEW retry
    PROVE  Budgeted(m, restoreRetry(m, retry))
<1>1. PICK n : n = restoreRetry(m, retry)
  OBVIOUS
<1>2. /\ DOMAIN n = DOMAIN m /\ n.order = m.order /\ n.idx = m.idx
      /\ n.results = m.results /\ n.aborted = m.aborted
  BY <1>1 DEF restoreRetry, IsMachine
<1> QED BY <1>1, <1>2, BudgetedIs

\* A claimed run: the source check is its only command.
LEMMA ClaimedIntends ==
    ASSUME PInv, lock = Free, NEW CONSTANT p \in Proc,
           NEW CONSTANT y, IsProcess(y), y.queue = ui[p].queue, y.issued = ui[p].issued,
           NEW CONSTANT d, Clear(d), d.phase = "recovery_check_queued", Standing(d), Aligned(d),
           NEW CONSTANT s, Tables(s), AtRow(d, s), db.nextOp <= s.nextOp,
           s.run.op = db.run.op \/ db.nextOp <= s.run.op,
           ui' = [ui EXCEPT ![p] = Enqueue(y, d, RecoveryCommand(d))], db' = s
    PROVE  Intends(p)
<1>1. PICK x, s0 : x = ui[p] /\ s0 = db
  OBVIOUS
<1>2. Tables(s0) /\ ProcessOK(x, s0) /\ x.d = NoDurable /\ p \in DOMAIN ui
  BY <1>1, NobodyBusy DEF PInv, IInv
<1>3. ProcessOK(x, s)
  BY <1>1, <1>2, Unaffected
<1>4. Commands(x, s.nextOp) /\ Idle(x, s.run.op) /\ IsProcess(x)
  BY <1>2, <1>3, SoundIsBusy DEF ProcessOK
<1>5. Sound(d) /\ d.op = s.run.op
  BY DEF Clear, Sound, IsDriver, AtRow, Checking
<1>6. PICK c : c = RecoveryCommand(d)
  OBVIOUS
<1>7. c.kind \in Kinds /\ c.op = d.op /\ d.phase = QueuedPhase(c.kind)
  BY <1>6, RecoveryCommandIs
<1>8. c.kind = "check_recovery"
  BY <1>6 DEF RecoveryCommand, Command
<1>9. PICK z : z = Enqueue(y, d, c)
  OBVIOUS
<1>10. PICK r, f, n : r = Result(z, s, f) /\ f = 0 /\ n = s.nextOp
  OBVIOUS
<1>11. Leaves(x, d.op, n, r)
  BY <1>1, <1>4, <1>5, <1>7, <1>9, <1>10, Sends
<1>12. Poised(d)
  BY DEF Poised, AtItem, AtPost, Clear
<1>13. PICK ex : ex = FALSE
  OBVIOUS
<1>14. Meant(d, c)
  BY <1>8 DEF Meant
<1>15. Reaches(x, ex, r)
  BY <1>1, <1>7, <1>8, <1>9, <1>10, <1>12, <1>14, SendsTo
<1>16. PICK op : op = d.op
  OBVIOUS
<1>17. /\ PoisedProcess(r.x)
       /\ \A b \in CommandsOf(x) : r.x.d # NoDurable => b.op # r.x.d.op
       /\ \A b \in CommandsOf(r.x) :
             b \in CommandsOf(x) \/ b.kind # "post" \/ b.temp = r.db.run.current \/ ex
       /\ Stuck(r.x) => ex
  BY <1>4, <1>5, <1>10, <1>11, <1>15, <1>16, OutcomePoised
<1>18. r.x = z /\ r.db = s
  BY <1>10 DEF Result
<1>19. ui'[p] = z
  BY <1>2, <1>6, <1>9
<1> QED BY <1>1, <1>13, <1>17, <1>18, <1>19 DEF Intends, Keeps

\* The machine a driver is made with, and what advance() then says of it.
LEMMA CreatedIs ==
    ASSUME NEW review, NEW m, IsMachine(m), NEW op \in Nat, op # 0, NEW current, NEW source,
           NEW recovered
    PROVE  LET d == create(review, m, op, current, source, recovered)
           IN  /\ IsDriver(d) /\ d.m = m /\ d.review = review /\ d.current = current
               /\ Clear(d) /\ d.phase = "recovery_check_queued" /\ d.op = op
<1>1. "aborted" \in DOMAIN m
  BY DEF IsMachine
<1>2. PICK d : d = create(review, m, op, current, source, recovered)
  OBVIOUS
<1>3. Clear(d) /\ d.phase = "recovery_check_queued" /\ d.op = op /\ d.current = current
  BY <1>1, <1>2, createIs
<1>4. d.m = m /\ d.review = review
  BY <1>2 DEF create
<1> QED BY <1>2, <1>3, <1>4 DEF Clear

LEMMA RecoveredMachineTo ==
    ASSUME NEW s, Tables(s)
    PROVE  IsMachine(RecoveredMachine(s))
<1>1. PICK review, items, retry : /\ review = s.drafts /\ items = s.run.items
                                  /\ retry = s.run.retry
  OBVIOUS
<1>2. PICK S : items \in Seq(S)
  BY <1>1 DEF Tables
<1>3. PICK m0 : m0 = initFrozen(review, items)
  OBVIOUS
<1>4. IsMachine(m0)
  BY <1>2, <1>3, initFrozenIs
<1>5. PICK k : k = restoreRetry(m0, retry)
  OBVIOUS
<1>6. IsMachine(k)
  BY <1>4, <1>5, RestoreRetryIs DEF Budgeted
<1>7. PICK n : n = [m0 EXCEPT !.attempts[m0.idx] = 1, !.ambiguous[m0.idx] = TRUE]
  OBVIOUS
<1>8. /\ DOMAIN n = DOMAIN m0 /\ n.order = m0.order /\ n.idx = m0.idx
      /\ n.results = m0.results /\ n.aborted = m0.aborted
  BY <1>4, <1>7 DEF IsMachine
<1>9. IsMachine(n)
  BY <1>4, <1>8, BudgetedIs DEF Budgeted
<1>10. RecoveredMachine(s) = k \/ RecoveredMachine(s) = n
  BY <1>1, <1>3, <1>5, <1>7 DEF RecoveredMachine
<1> QED BY <1>6, <1>9, <1>10

\* A recovered driver that has a step for the run's item is at it.
LEMMA RecoveredTo ==
    ASSUME Tables(db), db.run.op # 0, NEW CONSTANT d, d = Recovered(db.run),
           StepOf(d.review, d.m).kind \in {"post", "check", "wait"},
           StepOf(d.review, d.m).temp = db.run.current
    PROVE  Standing(d) /\ Aligned(d)
<1>1. PICK s, m : s = db /\ m = RecoveredMachine(s)
  OBVIOUS
<1>2. IsMachine(m)
  BY <1>1, RecoveredMachineTo
<1>3. PICK review, op, current, source, recovered :
          /\ review = s.drafts /\ op = s.run.op /\ current = s.run.current
          /\ source = s.run.source /\ recovered = TRUE
  OBVIOUS
<1>4. op \in Nat /\ op # 0 /\ Rows(review)
  BY <1>1, <1>3 DEF Tables
<1>5. PICK e : e = create(review, m, op, current, source, recovered)
  OBVIOUS
<1>6. IsDriver(e) /\ e.m = m /\ e.review = review /\ e.current = current
  BY <1>2, <1>4, <1>5, CreatedIs
<1>7. d = Advanced(e)
  BY <1>1, <1>3, <1>5 DEF Recovered, RecoveredMachine
<1>8. PICK step : step = NextStep(e)
  OBVIOUS
<1>9. /\ IsMachine(d.m) /\ d.review = e.review
      /\ step.kind \in {"wait", "check", "post"} => Here(d.review, d.m) /\ step.temp = Current(d.m)
  BY <1>2, <1>6, <1>7, <1>8, AdvancedTo
<1>10. d.current = e.current
  BY <1>6, <1>7, AdvancedIs
<1>11. step = StepOf(d.review, d.m)
  BY <1>7, <1>8, <1>9 DEF NextStep
<1> QED BY <1>1, <1>3, <1>4, <1>6, <1>9, <1>10, <1>11 DEF Standing, Aligned

LEMMA RecoverSubmissionIntends ==
    ASSUME PInv, NEW CONSTANT p \in Proc, RecoverSubmission(p)
    PROVE  Intends(p)
<1>1. PICK x, s : x = ui[p] /\ s = db
  OBVIOUS
<1>2. PICK d : d = Recovered(db.run)
  OBVIOUS
<1>3. PICK known : known = [x EXCEPT !.notice = NoNotice]
  OBVIOUS
<1>4. Tables(s) /\ ProcessOK(x, s) /\ IsProcess(x) /\ p \in DOMAIN ui
  BY <1>1 DEF PInv, IInv, ProcessOK
<1>5. IsProcess(known) /\ known.d = x.d /\ known.queue = x.queue /\ known.issued = x.issued
  BY <1>3, <1>4 DEF IsProcess
<1>6. \/ ui' = [ui EXCEPT ![p].notice.ownership = "running_elsewhere"]
      \/ ui' = [ui EXCEPT ![p] = known]
      \/ ui' = [ui EXCEPT ![p].notice = discoverRecovery]
      \/ \E r : Handled(p, Result(IF r.done THEN known ELSE x, r.db, r.f))
      \/ /\ lock = Free /\ Store!Active(s)
         /\ StepOf(d.review, d.m).kind \in {"post", "check", "wait"}
         /\ StepOf(d.review, d.m).temp = s.run.current
         /\ ui' = [ui EXCEPT ![p] = Enqueue(known, d, RecoveryCommand(d))]
         /\ UNCHANGED db
  BY <1>1, <1>2, <1>3 DEF RecoverSubmission
<1>7. ASSUME NEW CONSTANT y, y.d = x.d, y.queue = x.queue, y.issued = x.issued,
             ui' = [ui EXCEPT ![p] = y]
      PROVE  Intends(p)
  <2>1. CommandsOf(y) \subseteq CommandsOf(ui[p])
    BY <1>1, <1>7 DEF CommandsOf
  <2>2. Proceeds(ui[p]) => Proceeds(y)
    BY <1>1, <1>7 DEF Proceeds
  <2> QED BY <1>1, <1>7, <2>1, <2>2, LocalIntends
<1>8. CASE ui' = [ui EXCEPT ![p].notice.ownership = "running_elsewhere"]
  <2>1. PICK y : y = [x EXCEPT !.notice.ownership = "running_elsewhere"]
    OBVIOUS
  <2>2. ui' = [ui EXCEPT ![p] = y]
    BY <1>1, <1>4, <1>8, <2>1
  <2>3. y.d = x.d /\ y.queue = x.queue /\ y.issued = x.issued
    BY <1>4, <2>1 DEF IsProcess
  <2> QED BY <1>7, <2>2, <2>3
<1>9. CASE ui' = [ui EXCEPT ![p] = known]
  BY <1>5, <1>7, <1>9
<1>10. CASE ui' = [ui EXCEPT ![p].notice = discoverRecovery]
  <2>1. PICK y : y = [x EXCEPT !.notice = discoverRecovery]
    OBVIOUS
  <2>2. ui' = [ui EXCEPT ![p] = y]
    BY <1>1, <1>4, <1>10, <2>1
  <2>3. y.d = x.d /\ y.queue = x.queue /\ y.issued = x.issued
    BY <1>4, <2>1 DEF IsProcess
  <2> QED BY <1>7, <2>2, <2>3
<1>11. CASE \E r : Handled(p, Result(IF r.done THEN known ELSE x, r.db, r.f))
  <2>1. PICK r : Handled(p, Result(IF r.done THEN known ELSE x, r.db, r.f))
    BY <1>11
  <2>2. PICK y : y = IF r.done THEN known ELSE x
    OBVIOUS
  <2>3. ui' = [ui EXCEPT ![p] = y]
    BY <2>1, <2>2 DEF Handled, Result
  <2>4. y.d = x.d /\ y.queue = x.queue /\ y.issued = x.issued
    BY <1>5, <2>2
  <2> QED BY <1>7, <2>3, <2>4
<1>12. CASE /\ lock = Free /\ Store!Active(s)
            /\ StepOf(d.review, d.m).kind \in {"post", "check", "wait"}
            /\ StepOf(d.review, d.m).temp = s.run.current
            /\ ui' = [ui EXCEPT ![p] = Enqueue(known, d, RecoveryCommand(d))]
            /\ UNCHANGED db
  <2>1. s.run.op # 0
    BY <1>12 DEF Store!Active
  <2>2. Clear(d) /\ d.phase = "recovery_check_queued" /\ AtRow(d, s)
    BY <1>1, <1>2, <1>4, <2>1, RecoveredIs
  <2>3. Standing(d) /\ Aligned(d)
    BY <1>1, <1>2, <1>4, <1>12, <2>1, RecoveredTo
  <2>4. db.nextOp <= s.nextOp /\ s.run.op = db.run.op /\ db' = s
    BY <1>1, <1>4, <1>12 DEF Tables
  <2> QED BY <1>1, <1>4, <1>5, <1>12, <2>2, <2>3, <2>4, ClaimedIntends
<1> QED BY <1>6, <1>8, <1>9, <1>10, <1>11, <1>12

\* A machine that has a POST next is at an item.
LEMMA PostIsHere ==
    ASSUME NEW review, NEW m0, IsMachine(m0), NEW m, m = advance(review, m0),
           StepOf(review, m).kind = "post"
    PROVE  IsMachine(m) /\ Here(review, m)
<1>1. IsMachine(m) /\ ~Skippable(review, m)
  BY advanceIs
<1>2. ~Ended(m)
  BY DEF StepOf, Step
<1> QED BY <1>1, <1>2 DEF Here

LEMMA ListIs ==
    ASSUME NEW R, NEW n \in Nat, NEW f \in [1..n -> R]
    PROVE  f \in Seq(R)
  OBVIOUS

\* The items of the frozen order `left`.
ItemsOf(review, left) ==
    [i \in DOMAIN left |-> [temp |-> left[i], parent |-> review[left[i]].parent]]

\* The items that are left begin with the machine's own.
LEMMA RestIs ==
    ASSUME NEW review, NEW m, IsMachine(m), ~Ended(m), NEW left,
           left = SubSeq(m.order, m.idx, Len(m.order)), NEW items,
           items = ItemsOf(review, left)
    PROVE  /\ \E S : items \in Seq(S)
           /\ items[1].temp = Current(m)
<1>1. PICK order, idx : order = m.order /\ idx = m.idx
  OBVIOUS
<1>2. PICK T : order \in Seq(T) /\ idx \in Nat /\ idx # 0
  BY <1>1 DEF IsMachine
<1>3. idx <= Len(order) /\ Len(order) \in Nat
  BY <1>1, <1>2 DEF Ended
<1>4. left \in Seq(T)
  BY <1>1, <1>2
<1>5. Len(left) = Len(order) - idx + 1 /\ Len(left) \in Nat
  BY <1>1, <1>2, <1>3
<1>6. left[1] = order[idx]
  BY <1>1, <1>2, <1>3
<1>7. DOMAIN left = 1..Len(left) /\ 1 \in 1..Len(left)
  BY <1>2, <1>3, <1>4, <1>5
<1>8. items = [i \in DOMAIN left |-> [temp |-> left[i], parent |-> review[left[i]].parent]]
  BY DEF ItemsOf
<1>b. DOMAIN items = 1..Len(left)
  BY <1>7, <1>8
<1>c. PICK n, R : n \in Nat /\ n = Len(left) /\ R = {items[i] : i \in 1..n}
  BY <1>5
<1>d. items \in [1..n -> R]
  BY <1>8, <1>b, <1>c
<1>a. items \in Seq(R)
  BY <1>c, <1>d, ListIs
<1>9. items[1].temp = order[idx]
  <2>1. PICK one : one = 1 /\ one \in DOMAIN left
    BY <1>7
  <2>2. items[one] = [temp |-> left[one], parent |-> review[left[one]].parent]
    BY <1>8, <2>1
  <2> QED BY <1>6, <2>1, <2>2
<1> QED BY <1>1, <1>a, <1>9 DEF Current

\* The driver of a new run is at the run's first item.
LEMMA StartedTo ==
    ASSUME NEW s, Tables(s), NEW m, IsMachine(m), Here(s.drafts, m), NEW source, NEW items,
           NEW S, items \in Seq(S), items[1].temp = Current(m)
    PROVE  Standing(Started(s, source, items, m)) /\ Aligned(Started(s, source, items, m))
<1>1. PICK begun : begun = Store!BeginSubmission(s, source, items)
  OBVIOUS
<1>2. Tables(begun) /\ begun.run.op = s.nextOp /\ begun.run.current = Current(m)
  BY <1>1, BeginSubmissionIs
<1>3. PICK retry, op, current, review, recovered :
          /\ retry = begun.run.retry /\ op = begun.run.op /\ current = begun.run.current
          /\ review = s.drafts /\ recovered = FALSE
  OBVIOUS
<1>4. op \in Nat /\ op # 0 /\ Rows(review)
  BY <1>2, <1>3 DEF Tables
<1>5. PICK k : k = restoreRetry(m, retry)
  OBVIOUS
<1>6. Budgeted(m, k)
  BY <1>5, RestoreRetryIs
<1>7. PICK n : n = IF retry = NoRetry THEN m ELSE k
  OBVIOUS
<1>8. IsMachine(n) /\ n.order = m.order /\ n.idx = m.idx /\ n.results = m.results
      /\ n.aborted = m.aborted
  BY <1>6, <1>7 DEF Budgeted, Remains
<1>9. Here(review, m)
  BY <1>3
<1>10. Here(review, n) /\ Current(n) = Current(m)
  BY <1>8, <1>9, SameHere
<1>11. PICK d : d = create(review, n, op, current, source, recovered)
  OBVIOUS
<1>12. IsDriver(d) /\ d.m = n /\ d.review = review /\ d.current = current
  BY <1>4, <1>8, <1>11, CreatedIs
<1>13. d = Started(s, source, items, m)
  BY <1>1, <1>3, <1>5, <1>7, <1>11 DEF Started
<1> QED BY <1>2, <1>3, <1>4, <1>8, <1>10, <1>12, <1>13 DEF Standing, Aligned

\* A process that is left alone.
LEMMA UntouchedIntends ==
    ASSUME PInv, NEW CONSTANT p \in Proc, ui'[p] = ui[p]
    PROVE  Intends(p)
  BY DEF PInv, Intends, Keeps

LEMMA StartSubmissionIntends ==
    ASSUME PInv, NEW CONSTANT p \in Proc, NEW CONSTANT root, StartSubmission(p, root)
    PROVE  Intends(p)
<1> DEFINE M0 == IF root = NoTemp THEN init(db.drafts) ELSE initSubtree(db.drafts, root)
<1> DEFINE M == advance(db.drafts, M0)
<1> DEFINE Rest == SubSeq(M.order, M.idx, Len(M.order))
<1> DEFINE Items == [i \in DOMAIN Rest |-> [temp |-> Rest[i], parent |-> db.drafts[Rest[i]].parent]]
<1> DEFINE Begun == Store!BeginSubmission(db, ui[p].loaded, Items)
<1> DEFINE D == create(db.drafts,
                       IF Begun.run.retry = NoRetry THEN M ELSE restoreRetry(M, Begun.run.retry),
                       Begun.run.op, Begun.run.current, ui[p].loaded, FALSE)
<1>1. /\ lock = Free /\ db' = Begun /\ StepOf(db.drafts, M).kind = "post"
      /\ \/ ui' = [ui EXCEPT ![p] = Enqueue(ui[p], D, RecoveryCommand(D))]
         \/ UNCHANGED ui
  <2> HIDE DEF Items
  <2> QED BY DEF StartSubmission, Items
<1> HIDE DEF Items
<1>2. PICK x, s : x = ui[p] /\ s = db
  OBVIOUS
<1>3. PICK m0 : m0 = M0
  OBVIOUS
<1>4. PICK m : m = M
  OBVIOUS
<1>5. PICK items : items = Items
  OBVIOUS
<1>6. PICK source : source = x.loaded
  OBVIOUS
<1>7. PICK begun : begun = Store!BeginSubmission(s, source, items)
  OBVIOUS
<1>8. PICK d : d = Started(s, source, items, m)
  OBVIOUS
<1>9. /\ lock = Free /\ db' = begun
      /\ \/ ui' = [ui EXCEPT ![p] = Enqueue(x, d, RecoveryCommand(d))]
         \/ UNCHANGED ui
  <2>1. begun = Begun
    BY <1>2, <1>5, <1>6, <1>7
  <2>2. d = D
    BY <1>2, <1>4, <1>5, <1>6, <1>8 DEF Started
  <2> HIDE DEF Begun, D
  <2> QED BY <1>1, <1>2, <2>1, <2>2
<1>10. m0 = IF root = NoTemp THEN init(s.drafts) ELSE initSubtree(s.drafts, root)
  BY <1>2, <1>3
<1>11. m = advance(s.drafts, m0)
  BY <1>2, <1>3, <1>4
<1>12. StepOf(s.drafts, m).kind = "post"
  BY <1>1, <1>2, <1>4
<1>13. Tables(s) /\ ProcessOK(x, s) /\ p \in DOMAIN ui
  BY <1>2 DEF PInv, IInv
<1>14. PICK review : review = s.drafts
  OBVIOUS
<1>15. IsMachine(m0)
  BY <1>10, <1>14, initIs
<1>16. IsMachine(m) /\ Here(review, m)
  BY <1>11, <1>12, <1>14, <1>15, PostIsHere
<1>17. PICK left : left = SubSeq(m.order, m.idx, Len(m.order))
  OBVIOUS
<1>18. items = ItemsOf(review, left)
  BY <1>2, <1>4, <1>5, <1>14, <1>17 DEF Items, ItemsOf
<1> HIDE DEF M0, M, Rest, Begun, D
<1>19. (\E S : items \in Seq(S)) /\ items[1].temp = Current(m)
  <2>1. ~Ended(m)
    BY <1>16 DEF Here
  <2> QED BY <1>16, <1>17, <1>18, <2>1, RestIs
<1>20. PICK S : items \in Seq(S)
  BY <1>19
<1>21. Tables(begun) /\ begun.run.op = s.nextOp /\ begun.nextOp = s.nextOp + 1
  BY <1>7, <1>13, <1>20, BeginSubmissionIs
<1>22. db.nextOp <= begun.nextOp /\ db.nextOp <= begun.run.op
  BY <1>2, <1>13, <1>21 DEF Tables
<1>23. "aborted" \in DOMAIN m
  BY <1>16 DEF IsMachine
<1>24. Clear(d) /\ d.phase = "recovery_check_queued" /\ AtRow(d, begun)
  BY <1>7, <1>8, <1>13, <1>20, <1>23, StartedIs
<1>25. Standing(d) /\ Aligned(d)
  BY <1>8, <1>13, <1>14, <1>16, <1>19, <1>20, StartedTo
<1>26. CASE ui' = [ui EXCEPT ![p] = Enqueue(x, d, RecoveryCommand(d))]
  <2>1. IsProcess(x) /\ x.queue = ui[p].queue /\ x.issued = ui[p].issued
    BY <1>2, <1>13 DEF ProcessOK
  <2> QED BY <1>9, <1>21, <1>22, <1>24, <1>25, <1>26, <2>1, ClaimedIntends
<1>27. CASE UNCHANGED ui
  BY <1>27, UntouchedIntends
<1> QED BY <1>9, <1>26, <1>27

\* A step of process p leaves the others alone.
LEMMA OthersUntouched ==
    ASSUME PInv, NEW CONSTANT p \in Proc, ProcessStep(p), NEW CONSTANT q \in Proc, q # p
    PROVE  ui'[q] = ui[q]
<1>a. p \in DOMAIN ui /\ q \in DOMAIN ui
  BY DEF PInv, IInv
<1>b. ASSUME NEW y, ui' = [ui EXCEPT ![p] = y] PROVE ui'[q] = ui[q]
  BY <1>a, <1>b
<1>1. ASSUME NEW r, Handled(p, r) PROVE ui'[q] = ui[q]
  BY <1>1 DEF Handled
<1>2. CASE Launch(p)
  BY <1>2 DEF Launch
<1>3. CASE Reload(p)
  BY <1>3, <1>a DEF Reload
<1>4. CASE Crash(p)
  BY <1>4 DEF Crash
<1>5. CASE \E root \in DOMAIN db.drafts \cup {NoTemp} : StartSubmission(p, root)
  <2>1. PICK root : StartSubmission(p, root)
    BY <1>5
  <2>2. \/ \E y : ui' = [ui EXCEPT ![p] = y]
        \/ UNCHANGED ui
    BY <2>1 DEF StartSubmission
  <2> QED BY <1>b, <2>2
<1>6. CASE RecoverSubmission(p)
  <2>1. \/ ui' = [ui EXCEPT ![p].notice.ownership = "running_elsewhere"]
        \/ \E y : ui' = [ui EXCEPT ![p] = y]
        \/ ui' = [ui EXCEPT ![p].notice = discoverRecovery]
        \/ \E r : Handled(p, r)
    BY <1>6 DEF RecoverSubmission
  <2>2. CASE ui' = [ui EXCEPT ![p].notice.ownership = "running_elsewhere"]
    BY <1>a, <2>2
  <2>3. CASE ui' = [ui EXCEPT ![p].notice = discoverRecovery]
    BY <1>a, <2>3
  <2> QED BY <1>1, <1>b, <2>1, <2>2, <2>3
<1>7. CASE TakeCommand(p)
  BY <1>7 DEF TakeCommand
<1>8. CASE Completion(p)
  <2>1. ASSUME NEW c, NEW results, Complete(p, c, results) PROVE ui'[q] = ui[q]
    BY <1>1, <2>1 DEF Complete
  <2>2. \E c, results : Complete(p, c, results)
    BY <1>8 DEF Completion, PostCompleted, WaitCompleted, LaunchFailed, RecoveryChecked,
       DuplicateChecked
  <2> QED BY <2>1, <2>2
<1>9. CASE Resume(p)
  BY <1>1, <1>9 DEF Resume
<1>10. CASE AbandonRecovered(p)
  <2>1. \E r : Handled(p, r)
    BY <1>10 DEF AbandonRecovered
  <2> QED BY <1>1, <2>1
<1>11. CASE \E t \in DOMAIN db.drafts : ResolveUnknown(p, t)
  BY <1>11 DEF ResolveUnknown
<1> QED BY <1>2, <1>3, <1>4, <1>5, <1>6, <1>7, <1>8, <1>9, <1>10, <1>11 DEF ProcessStep

LEMMA StepIntends ==
    ASSUME PInv, [Next]_vars, NEW CONSTANT q \in Proc
    PROVE  Intends(q)
<1>1. CASE HeadMoves \/ UNCHANGED vars
  <2>1. ui'[q] = ui[q]
    BY <1>1 DEF HeadMoves, vars
  <2> QED BY <2>1, UntouchedIntends
<1>2. ASSUME NEW CONSTANT p \in Proc, ProcessStep(p), q # p PROVE Intends(q)
  BY <1>2, OthersUntouched, UntouchedIntends
<1>3. ASSUME NEW CONSTANT p \in Proc, ProcessStep(p) PROVE Intends(p)
  <2>1. CASE Launch(p)
    BY <2>1, LaunchIntends
  <2>2. CASE Reload(p)
    BY <2>2, ReloadIntends
  <2>3. CASE Crash(p)
    BY <2>3, CrashIntends
  <2>4. CASE \E root \in DOMAIN db.drafts \cup {NoTemp} : StartSubmission(p, root)
    BY <2>4, StartSubmissionIntends
  <2>5. CASE RecoverSubmission(p)
    BY <2>5, RecoverSubmissionIntends
  <2>6. CASE TakeCommand(p)
    BY <2>6, TakeCommandIntends
  <2>7. CASE Completion(p)
    BY <2>7, CompletionIntends
  <2>8. CASE Resume(p)
    BY <2>8, ResumeIntends
  <2>9. CASE AbandonRecovered(p)
    BY <2>9, AbandonRecoveredIntends
  <2>10. CASE \E t \in DOMAIN db.drafts : ResolveUnknown(p, t)
    <3>1. ui'[p] = ui[p]
      BY <2>10 DEF ResolveUnknown
    <3> QED BY <3>1, UntouchedIntends
  <2> QED BY <1>3, <2>1, <2>2, <2>3, <2>4, <2>5, <2>6, <2>7, <2>8, <2>9, <2>10 DEF ProcessStep
<1> QED BY <1>1, <1>2, <1>3 DEF Next

LEMMA InitPInv == Init => PInv
<1> SUFFICES ASSUME Init PROVE PInv
  OBVIOUS
<1>1. IInv
  BY InitIInv
<1>2. ASSUME NEW p \in Proc PROVE PoisedProcess(ui[p])
  <2>1. PICK x : x = ui[p]
    OBVIOUS
  <2>2. x.d = NoDurable
    BY <2>1, DownIsProcess DEF Init
  <2> QED BY <2>1, <2>2, EndedPoised
<1> QED BY <1>1, <1>2 DEF PInv

LEMMA NextPInv == PInv /\ [Next]_vars => PInv'
<1> SUFFICES ASSUME PInv, [Next]_vars PROVE PInv'
  OBVIOUS
<1>1. IInv'
  BY NextIInv DEF PInv
<1>2. ASSUME NEW CONSTANT p \in Proc PROVE PoisedProcess(ui'[p])
  BY <1>2, StepIntends DEF Intends
<1> QED BY <1>1, <1>2 DEF PInv

\* Every driver stays poised: its machine is at the item its phase says, and its
\* command is about that item.
THEOREM PoisedInvariance == Spec => []PInv
  BY InitPInv, NextPInv, PTL DEF Spec

\* No step queues a POST of a Draft the run row does not name (DurableSubmission
\* checkpoints the outcome and the next intent before it queues the POST), but for
\* the answer of a publication check inside a run (advanceAfterPolicyCheck).
THEOREM PostsIntended == Spec => PostsAreIntended
<1>1. PInv /\ [Next]_vars =>
        [\A p \in Proc : \A c \in NewPosts(p) : c.temp = db'.run.current \/ CheckInside(p)]_vars
  <2> SUFFICES ASSUME PInv, [Next]_vars, NEW CONSTANT p \in Proc, NEW CONSTANT c \in NewPosts(p)
               PROVE  c.temp = db'.run.current \/ CheckInside(p)
    OBVIOUS
  <2>1. Intends(p)
    BY StepIntends
  <2> QED BY <2>1 DEF Intends, Keeps, NewPosts
<1> QED BY <1>1, PoisedInvariance, PTL DEF Spec, PostsAreIntended

\* A POST that is queued or under way keeps the item it was queued for.
LEMMA IntentKept ==
    ASSUME PInv, PInv', [Next]_vars, NoCheckInside, IntentBeforePost
    PROVE  IntentBeforePost'
<1> SUFFICES ASSUME NEW CONSTANT p \in Proc, NEW CONSTANT c \in CommandsOf(ui'[p]),
                    c.kind = "post", c.op = db'.run.op
             PROVE  c.temp = db'.run.current
  BY DEF IntentBeforePost, CommandsOf
<1>1. ~CheckInside(p)
  BY DEF NoCheckInside
<1>2. CASE Keeps(ui[p], ui'[p], c)
  <2>1. PICK x, y, s, s1 : x = ui[p] /\ y = ui'[p] /\ s = db /\ s1 = db'
    OBVIOUS
  <2>2. ProcessOK(x, s) /\ ProcessOK(y, s1) /\ Tables(s1)
    BY <2>1 DEF PInv, IInv
  <2>3. Commands(y, s1.nextOp) /\ c \in CommandsOf(y) /\ c.op = s1.run.op
    BY <2>1, <2>2 DEF ProcessOK
  <2>4. ~Idle(y, s1.run.op)
    BY <2>3, IdleIs
  <2>5. y.d # NoDurable /\ AtRow(y.d, s1)
    BY <2>2, <2>4, SoundIsBusy DEF ProcessOK
  <2>6. x.d # NoDurable /\ x.d.op = y.d.op /\ x.d.current = y.d.current /\ c \in CommandsOf(x)
    BY <1>2, <2>1, <2>3, <2>5 DEF Keeps, AtRow
  <2>7. AtRow(x.d, s)
    BY <2>2, <2>6 DEF ProcessOK
  <2>8. c.op = s.run.op /\ s.run.current = s1.run.current
    BY <2>3, <2>5, <2>6, <2>7 DEF AtRow
  <2>9. c.temp = s.run.current
    BY <2>1, <2>6, <2>8 DEF IntentBeforePost, CommandsOf
  <2> QED BY <2>1, <2>8, <2>9
<1>3. CASE ~Keeps(ui[p], ui'[p], c)
  BY <1>1, <1>3, StepIntends DEF Intends
<1> QED BY <1>2, <1>3

\* As long as no publication check is asked for inside a run, every POST queued or
\* under way is for the Draft the run row names, so a kill at any moment leaves the
\* intent of what may be on Bitbucket in the database.
THEOREM IntentWithoutCheckInside == Spec /\ []NoCheckInside => []IntentBeforePost
<1>1. Init => IntentBeforePost
  <2> SUFFICES ASSUME Init, NEW CONSTANT p \in Proc, NEW CONSTANT c \in CommandsOf(ui[p])
               PROVE  FALSE
    BY DEF IntentBeforePost, CommandsOf
  <2>1. PICK x : x = ui[p]
    OBVIOUS
  <2>2. x.queue = <<>> /\ x.issued = {}
    BY <2>1, DownIsProcess DEF Init
  <2> QED BY <2>1, <2>2, DownHasNone
<1>2. PInv /\ PInv' /\ [Next]_vars /\ NoCheckInside /\ IntentBeforePost => IntentBeforePost'
  BY IntentKept
<1> QED BY <1>1, <1>2, PoisedInvariance, PTL DEF Spec
LEMMA StrandedIs ==
    ASSUME NEW p
    PROVE  NotStranded(p) <=> Proceeds(ui[p])
  BY DEF NotStranded, Proceeds, Kinds

\* Nor does a driver wait for nothing then, whatever transaction, launch or process
\* fails, unless its machine was aborted (acceptPost, `.aborted`).
THEOREM StrandedWithoutCheckInside == Spec /\ []NoCheckInside => []StrandedOnlyByAbort
<1>1. Init => StrandedOnlyByAbort
  <2> SUFFICES ASSUME Init, NEW CONSTANT p \in Proc, Busy(p) PROVE FALSE
    BY DEF StrandedOnlyByAbort
  <2>1. PICK x : x = ui[p]
    OBVIOUS
  <2>2. x.d = NoDurable
    BY <2>1, DownIsProcess DEF Init
  <2> QED BY <2>1, <2>2 DEF Busy
<1>2. PInv /\ [Next]_vars /\ NoCheckInside /\ StrandedOnlyByAbort => StrandedOnlyByAbort'
  <2> SUFFICES ASSUME PInv, [Next]_vars, NoCheckInside, StrandedOnlyByAbort,
                      NEW CONSTANT p \in Proc, Stuck(ui'[p])
               PROVE  FALSE
    BY StrandedIs DEF StrandedOnlyByAbort, Busy, Stuck, NotStranded, Proceeds, Kinds
  <2>1. Stuck(ui[p])
    BY StepIntends DEF Intends, NoCheckInside
  <2> QED BY <2>1, StrandedIs DEF StrandedOnlyByAbort, Busy, Stuck
<1> QED BY <1>1, <1>2, PoisedInvariance, PTL DEF Spec
=============================================================================
