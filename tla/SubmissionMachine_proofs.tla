----------------------- MODULE SubmissionMachine_proofs ----------------------
(* Proofs about SubmissionMachine, for every value of its constants. *)
EXTENDS SubmissionMachine, Queues_proofs, FiniteSetTheorems

-----------------------------------------------------------------------------
(* The order in which the Drafts are posted *)

\* Every Draft at most once, and a Reply behind its parent.
OrderOK(r, q) ==
    /\ q \in Seq(DOMAIN r)
    /\ \A i, j \in 1..Len(q) : q[i] = q[j] => i = j
    /\ \A i, j \in 1..Len(q) : r[q[i]].parent.kind = "draft" /\ r[q[i]].parent.id = q[j] => j < i

\* topologicalOrder orders the Drafts: its first pass emits them all, because a
\* Reply is younger than its parent.
LEMMA TopologicalOrderOK ==
    ASSUME NEW r \in Reviews
    PROVE  OrderOK(r, topologicalOrder(r))
<1> DEFINE N == MaxTempId
<1> DEFINE passes == N * N
<1> DEFINE last == passes + N
<1> DEFINE D == DOMAIN r
<1> DEFINE Emits(v, t, q) ==
        /\ t \in D /\ t \notin Members(q)
        /\ v > passes \/ (ParentDraft(r, t) \notin D \/ ParentDraft(r, t) \in Members(q))
<1> DEFINE Visit(v, q) == LET t == 1 + ((v - 1) % N)
                          IN  IF Emits(v, t, q) THEN Append(q, t) ELSE q
<1> DEFINE step == [x \in (1..last) \X Seq(D) |-> Visit(x[1], x[2])]
<1> DEFINE Scan(f) == [v \in 0..last |-> IF v = 0 THEN <<>> ELSE Visit(v, f[v - 1])]
<1> DEFINE emitted == CHOOSE f : f = Scan(f)
<1>1. /\ N \in Nat /\ passes \in Nat /\ last \in Nat /\ D \subseteq 1..N
      /\ N # 0 => passes >= N
      /\ \A t \in D : r[t].parent.kind = "draft" =>
            /\ r[t].parent.id \in D /\ r[t].parent.id < t
            /\ ParentDraft(r, t) = r[t].parent.id
      /\ \A t \in D : r[t].parent.kind # "draft" => ParentDraft(r, t) \notin D
  <2>1. N \in Nat /\ D \subseteq 1..N
    BY BoundsAssumption, ReviewsAssumption DEF TempId
  <2>2. passes \in Nat /\ (N # 0 => passes >= N)
    BY <2>1
  <2>3. \A t \in D : r[t].parent.kind = "draft" =>
            /\ r[t].parent.id \in D /\ r[t].parent.id < t
            /\ ParentDraft(r, t) = r[t].parent.id
    BY ReviewsAssumption DEF ParentDraft
  <2>4. \A t \in D : r[t].parent.kind # "draft" => ParentDraft(r, t) \notin D
    BY <2>1 DEF ParentDraft, NoTemp
  <2>5. last \in Nat
    <3> HIDE DEF passes
    <3> QED BY <2>1, <2>2
  <2> QED BY <2>1, <2>2, <2>3, <2>4, <2>5
<1> HIDE DEF N, passes, D
<1>2. \A v \in 1..last, q \in Seq(D) : Visit(v, q) \in Seq(D)
  BY <1>1
<1>3. step \in [(1..last) \X Seq(D) -> Seq(D)]
  <2> HIDE DEF Visit, last
  <2> QED BY <1>2
<1>4. PICK f \in [0..last -> Seq(D)] :
          f[0] = <<>> /\ \A n \in 1..last : f[n] = step[<<n, f[n - 1]>>]
  <2>1. <<>> \in Seq(D) /\ IsStep(step, last, Seq(D))
    BY <1>3 DEF IsStep
  <2> HIDE DEF step, last
  <2>2. \E f : DefinedBy(f, last, Seq(D), <<>>, step)
    BY <1>1, <2>1, RecursiveFunctionExists
  <2> QED BY <2>2 DEF DefinedBy
<1>5. f = Scan(f)
  <2> HIDE DEF Visit, last
  <2>1. ASSUME NEW n \in 1..last PROVE f[n] = Visit(n, f[n - 1])
    <3>1. n - 1 \in 0..last
      BY <1>1
    <3> QED BY <1>4, <3>1
  <2>2. \A n \in 0..last : n = 0 \/ n \in 1..last
    BY <1>1
  <2> QED BY <1>4, <2>1, <2>2
<1>6. emitted = Scan(emitted)
  <2> HIDE DEF Scan
  <2> QED BY <1>5
<1>7. topologicalOrder(r) = emitted[last]
  BY DEF topologicalOrder, N, passes, D
<1>8. emitted[0] = <<>> /\ \A n \in 1..last : emitted[n] = Visit(n, emitted[n - 1])
  <2> HIDE DEF emitted, Visit, last
  <2>1. 0 \in 0..last /\ \A n \in 1..last : n \in 0..last /\ n # 0
    BY <1>1
  <2> QED BY <1>6, <2>1
<1> HIDE DEF emitted, step, Scan
<1> DEFINE Sofar(v) ==
        /\ emitted[v] \in Seq(D)
        /\ \A i, j \in 1..Len(emitted[v]) : emitted[v][i] = emitted[v][j] => i = j
        /\ \A i \in 1..Len(emitted[v]) : r[emitted[v][i]].parent.kind = "draft" =>
              \E j \in 1..Len(emitted[v]) : j < i /\ emitted[v][j] = r[emitted[v][i]].parent.id
        /\ \A t \in D : t <= v => t \in Members(emitted[v])
<1> DEFINE G == {v \in Nat : v <= last => Sofar(v)}
<1>9. 0 \in G
  <2>1. emitted[0] \in Seq(D) /\ Len(emitted[0]) = 0 /\ \A t \in D : ~(t <= 0)
    BY <1>1, <1>8
  <2>2. 1..0 = {}
    OBVIOUS
  <2>3. Sofar(0)
    BY <2>1, <2>2
  <2> QED BY <2>3
<1>10. ASSUME NEW v \in Nat, v \in G PROVE v + 1 \in G
  <2> SUFFICES ASSUME v + 1 <= last PROVE Sofar(v + 1)
    OBVIOUS
  <2> DEFINE e == emitted[v]
  <2> DEFINE t == 1 + (v % N)
  <2>1. Sofar(v) /\ v + 1 \in 1..last
    <3> HIDE DEF Sofar, last
    <3> QED BY <1>1, <1>10
  <2>2. e \in Seq(D) /\ Len(e) \in Nat
    BY <2>1
  <2>3. emitted[v + 1] = IF Emits(v + 1, t, e) THEN Append(e, t) ELSE e
    <3>1. (v + 1) - 1 = v
      OBVIOUS
    <3> HIDE DEF Emits, last
    <3> QED BY <1>8, <2>1, <3>1
  <2>4. v + 1 > passes => \A x \in D : x \in Members(e)
    <3> SUFFICES ASSUME v + 1 > passes, NEW x \in D PROVE x \in Members(e)
      OBVIOUS
    <3>1. x \in Nat /\ x <= N /\ N # 0
      BY <1>1
    <3>2. x <= v
      BY <1>1, <3>1
    <3> QED BY <2>1, <3>2
  <2>5. ASSUME NEW x \in D, x = v + 1, x \notin Members(e) PROVE x = t /\ Emits(v + 1, t, e)
    <3>1. v < N /\ N \in Nat
      BY <1>1, <2>5
    <3>2. v % N = v
      BY <3>1
    <3>3. x = t
      BY <2>5, <3>2
    <3>4. ParentDraft(r, t) \notin D \/ ParentDraft(r, t) \in Members(e)
      <4>1. CASE r[t].parent.kind # "draft"
        BY <1>1, <2>5, <3>3, <4>1
      <4>2. CASE r[t].parent.kind = "draft"
        <5>1. ParentDraft(r, t) \in D /\ ParentDraft(r, t) < v + 1
          BY <1>1, <2>5, <3>3, <4>2
        <5>2. \A y \in 1..N : y < v + 1 => y <= v
          OBVIOUS
        <5>3. D \subseteq 1..N
          BY <1>1
        <5> QED BY <2>1, <5>1, <5>2, <5>3
      <4> QED BY <4>1, <4>2
    <3> QED BY <2>5, <3>3, <3>4
  <2>6. CASE ~Emits(v + 1, t, e)
    <3>1. emitted[v + 1] = e
      BY <2>3, <2>6
    <3>2. \A x \in D : x <= v + 1 => x \in Members(e)
      <4> TAKE x \in D
      <4> HAVE x <= v + 1
      <4>1. x <= v \/ x = v + 1
        BY <1>1
      <4> HIDE DEF Emits
      <4> QED BY <2>1, <2>5, <2>6, <4>1
    <3> QED BY <2>1, <3>1, <3>2
  <2>7. CASE Emits(v + 1, t, e)
    <3> DEFINE g == emitted[v + 1]
    <3>1. t \in D /\ t \notin Members(e)
      BY <2>7
    <3>2. /\ g \in Seq(D) /\ Len(g) = Len(e) + 1 /\ g[Len(e) + 1] = t
          /\ \A i \in 1..Len(e) : g[i] = e[i]
      BY <2>2, <2>3, <2>7, <3>1
    <3>3. \A i \in 1..Len(g) : i \in 1..Len(e) \/ i = Len(e) + 1
      BY <2>2, <3>2
    <3>4. \A i \in 1..Len(e) : e[i] # t /\ i \in 1..Len(g) /\ i < Len(e) + 1
      BY <2>2, <3>1, <3>2 DEF Members
    <3> HIDE DEF g
    <3>5. \A i, j \in 1..Len(g) : g[i] = g[j] => i = j
      BY <2>1, <3>2, <3>3, <3>4
    <3>6. ASSUME NEW i \in 1..Len(g), r[g[i]].parent.kind = "draft"
          PROVE  \E j \in 1..Len(g) : j < i /\ g[j] = r[g[i]].parent.id
      <4>1. CASE i \in 1..Len(e)
        <5>1. PICK j \in 1..Len(e) : j < i /\ e[j] = r[e[i]].parent.id
          BY <2>1, <3>2, <3>6, <4>1
        <5> QED BY <3>2, <3>4, <4>1, <5>1
      <4>2. CASE i = Len(e) + 1
        <5>1. r[t].parent.id \in D /\ ParentDraft(r, t) = r[t].parent.id
          BY <1>1, <3>1, <3>2, <3>6, <4>2
        <5>2. r[t].parent.id \in Members(e)
          BY <2>4, <2>7, <5>1
        <5>3. PICK j \in 1..Len(e) : e[j] = r[t].parent.id
          BY <5>2 DEF Members
        <5> QED BY <3>2, <3>4, <4>2, <5>3
      <4> QED BY <3>3, <4>1, <4>2
    <3>7. Members(g) = Members(e) \cup {t}
      <4>1. g = Append(e, t)
        BY <2>3, <2>7 DEF g
      <4> HIDE DEF e, t
      <4> QED BY <2>2, <3>1, <4>1, AppendMembers
    <3>8. \A x \in D : x <= v + 1 => x \in Members(g)
      <4> TAKE x \in D
      <4> HAVE x <= v + 1
      <4>1. x <= v \/ x = v + 1
        BY <1>1
      <4> HIDE DEF Emits
      <4> QED BY <2>1, <2>5, <3>7, <4>1
    <3> QED BY <3>2, <3>5, <3>6, <3>8 DEF g
  <2> QED BY <2>6, <2>7
<1>11. Sofar(last)
  <2>1. last \in G
    <3> HIDE DEF G, last
    <3> QED BY <1>1, <1>9, <1>10, SetInduction
  <2> HIDE DEF Sofar
  <2> QED BY <1>1, <2>1
<1> DEFINE q == emitted[last]
<1>12. \A i, j \in 1..Len(q) : r[q[i]].parent.kind = "draft" /\ r[q[i]].parent.id = q[j] => j < i
  <2> TAKE i, j \in 1..Len(q)
  <2> HAVE r[q[i]].parent.kind = "draft" /\ r[q[i]].parent.id = q[j]
  <2>1. PICK k \in 1..Len(q) : k < i /\ q[k] = q[j]
    BY <1>11
  <2> QED BY <1>11, <2>1
<1> QED BY <1>7, <1>11, <1>12 DEF OrderOK, D

\* A part of it is ordered too.
LEMMA KeptOrderOK ==
    ASSUME NEW r, NEW q, OrderOK(r, q), NEW W
    PROVE  OrderOK(r, Kept(q, W))
<1> DEFINE k == Kept(q, W)
<1>1. /\ k \in Seq(DOMAIN r)
      /\ \A i1, i2 \in 1..Len(k) : i1 < i2 =>
            \E j1, j2 \in 1..Len(q) : j1 < j2 /\ k[i1] = q[j1] /\ k[i2] = q[j2]
  <2>1. q \in Seq(DOMAIN r)
    BY DEF OrderOK
  <2> QED BY <2>1, KeptIs
<1> HIDE DEF k
<1>2. \A i, j \in 1..Len(k) : i = j \/ i < j \/ j < i
  BY <1>1
<1>3. \A i, j \in 1..Len(k) : k[i] = k[j] => i = j
  <2>1. ASSUME NEW i \in 1..Len(k), NEW j \in 1..Len(k), i < j, k[i] = k[j] PROVE FALSE
    <3>1. PICK j1 \in 1..Len(q), j2 \in 1..Len(q) : j1 < j2 /\ k[i] = q[j1] /\ k[j] = q[j2]
      BY <1>1, <2>1
    <3>2. q[j1] = q[j2]
      BY <2>1, <3>1
    <3>3. j1 = j2
      BY <3>2 DEF OrderOK
    <3> QED BY <3>1, <3>3
  <2> QED BY <1>2, <2>1
<1>4. ASSUME NEW i \in 1..Len(k), NEW j \in 1..Len(k),
             r[k[i]].parent.kind = "draft", r[k[i]].parent.id = k[j], ~(j < i)
      PROVE  FALSE
  <2>1. CASE i = j
    <3>1. PICK x \in 1..Len(q) : q[x] = k[i]
      <4>1. k[i] \in Members(k)
        BY DEF Members
      <4>2. Members(k) = Members(q) \cap W
        BY KeptIs DEF OrderOK, k
      <4> QED BY <4>1, <4>2 DEF Members
    <3> QED BY <1>4, <2>1, <3>1 DEF OrderOK
  <2>2. CASE i < j
    <3>1. PICK j1 \in 1..Len(q), j2 \in 1..Len(q) : j1 < j2 /\ k[i] = q[j1] /\ k[j] = q[j2]
      BY <1>1, <2>2
    <3>2. j2 < j1
      BY <1>4, <3>1 DEF OrderOK
    <3> QED BY <3>1, <3>2
  <2> QED BY <1>2, <1>4, <2>1, <2>2
<1> QED BY <1>1, <1>3, <1>4 DEF OrderOK, k

-----------------------------------------------------------------------------
(* The inductive invariant *)

Machine(P) ==
    [order : Seq(TempId), idx : Nat, attempts : [P -> 0..max_attempts],
     checks : [P -> 0..max_attempts], ambiguous : [P -> BOOLEAN],
     results : [P -> ItemResult], mustWait : BOOLEAN,
     retry : Retry \cup {NoRetry}, terminalDelay : Delay \cup {NoDelay}, aborted : BOOLEAN]

TypeOK ==
    /\ review \in Reviews
    /\ m \in Machine(1..Len(m.order)) /\ OrderOK(review, m.order)
    /\ m.idx \in 1..Len(m.order) + 1
    /\ call \in [kind : {"none", "post", "check", "wait", "done", "aborted"},
                 temp : TempId \cup {NoTemp}, parent : CommentId \cup {NoComment}]
    /\ DOMAIN comments \subseteq CommentId
    /\ \A c \in DOMAIN comments : comments[c].by \in DOMAIN review
    /\ sends \in [TempId -> Nat]

Open(i) == m.results[i] = NoResult

\* Between its issue and its report a step is the one the machine asks for.
CallIsStep == call = NoCall \/ (call = StepOf(review, m) /\ ~Skippable(review, m))

\* Behind the current item nothing has happened yet; before it everything is
\* decided, and skipped means blocked.
ProgressAt(i) ==
    /\ i >= m.idx => m.results[i] = Prefilled(review, m.order[i], FALSE)
    /\ i > m.idx => /\ m.attempts[i] = 0 /\ m.checks[i] = 0
                    /\ ~m.ambiguous[i] /\ sends[m.order[i]] = 0
    /\ i < m.idx =>
          /\ ~Open(i)
          /\ m.results[i].status = "skipped" <=>
               (review[m.order[i]].state \in Editable /\ Blocked(review, m, m.order[i]))

\* An open item that is not in doubt has a POST left, and one in doubt a check.
BudgetAt(i) ==
    /\ sends[m.order[i]] <= max_attempts
    /\ Open(i) => /\ m.checks[i] < max_attempts
                  /\ ~m.aborted => sends[m.order[i]] = m.attempts[i]
                  /\ ~m.aborted /\ ~m.ambiguous[i] => m.attempts[i] < max_attempts

Progress == \A i \in 1..Len(m.order) : ProgressAt(i)
Budget == \A i \in 1..Len(m.order) : BudgetAt(i)

\* No Draft became two Comments; the duplicate guard recognises each of them.
OneEach == \A c, d \in DOMAIN comments : comments[c].by = comments[d].by => c = d
Recognised ==
    \A c \in DOMAIN comments :
        /\ comments[c].body = review[comments[c].by].body
        /\ comments[c].parent = NoComment => comments[c].anchor = review[comments[c].by].anchor

\* The Comment of an item that is still open is in doubt, and is where the check
\* will look for it.
OpenInDoubt ==
    \A i \in 1..Len(m.order), c \in DOMAIN comments :
        Open(i) /\ comments[c].by = m.order[i] =>
            m.ambiguous[i] /\ comments[c].parent \in ParentIds(review, m, m.order[i])

IInv ==
    /\ TypeOK /\ CallIsStep /\ Progress /\ Budget /\ OneEach /\ Recognised /\ OpenInDoubt

\* Under Consistent and Distinguishable: what is posted is the Draft's own Comment.
PostedIsOwn ==
    /\ \A i \in 1..Len(m.order) : m.results[i].status = "posted" =>
          m.results[i].id \in DOMAIN comments /\ comments[m.results[i].id].by = m.order[i]
    /\ \A t \in DOMAIN review : review[t].state = "posted" =>
          review[t].comment \in DOMAIN comments /\ comments[review[t].comment].by = t

\* When no 2xx response is malformed: what failed or was skipped left no Comment.
FailedIsAbsent ==
    /\ \A i \in 1..Len(m.order), c \in DOMAIN comments :
          m.results[i].status \in {"failed", "skipped"} => comments[c].by # m.order[i]
    /\ m.aborted => \A i \in 1..Len(m.order) : Open(i) => ~m.ambiguous[i]

-----------------------------------------------------------------------------
(* What Bitbucket and the machine do in one step *)

\* after is before with one new Comment, of Draft d, under parent.
Adds(before, after, c, t, d, parent) ==
    /\ c \in CommentId \ DOMAIN before
    /\ DOMAIN after = DOMAIN before \cup {c}
    /\ \A x \in DOMAIN before : after[x] = before[x]
    /\ after[c].by = t /\ after[c].body = d.body /\ after[c].parent = parent
    /\ parent = NoComment => after[c].anchor = d.anchor

\* A POST creates one Comment or none, and its reply is not misleading except for
\* a malformed 2xx.
LEMMA PostIs ==
    ASSUME NEW cs, NEW t, NEW d, NEW parent, NEW a \in post(cs, t, d, parent)
    PROVE  /\ a.reply \in Reply
           /\ \/ a.comments = cs /\ a.reply.outcome \in {"rejected", "ambiguous"}
              \/ \E c \in CommentId :
                    /\ Adds(cs, a.comments, c, t, d, parent)
                    /\ \/ a.reply = Published(c)
                       \/ a.reply = Ambiguous
                       \/ /\ a.reply.outcome = "rejected"
                          /\ a.reply.err = "MalformedResponse"
                          /\ "MalformedResponse" \in PostErrors
<1> DEFINE created == Created(cs, t, d, parent)
<1>1. ASSUME NEW E, NEW x \in Rejections(E)
      PROVE  x \in Reply /\ x.outcome = "rejected" /\ x.err \in E
  BY BoundsAssumption DEF Rejections, Rejected, Reply, ApiError, NoComment
<1>2. ASSUME NEW after \in created
      PROVE  \E c \in CommentId : Adds(cs, after, c, t, d, parent) /\ NewId(cs, after) = c
  <2>1. PICK c \in CommentId \ DOMAIN cs :
            after = [x \in DOMAIN cs \cup {c} |->
                        IF x = c THEN [by |-> t, body |-> d.body, parent |-> parent,
                                       anchor |-> IF parent = NoComment THEN d.anchor ELSE NoAnchor]
                        ELSE cs[x]]
    BY <1>2 DEF Created
  <2>2. Adds(cs, after, c, t, d, parent)
    BY <2>1 DEF Adds
  <2>3. NewId(cs, after) = c
    BY <2>1 DEF NewId
  <2> QED BY <2>2, <2>3
<1>3. Ambiguous \in Reply /\ Ambiguous.outcome = "ambiguous"
  BY DEF Ambiguous, Reply
<1>4. \A c \in CommentId : Published(c) \in Reply
  BY DEF Published, Reply
<1> HIDE DEF created
<1>5. CASE \E after \in created : a = Answer(Published(NewId(cs, after)), after)
  BY <1>2, <1>4, <1>5 DEF Answer
<1>6. CASE \E x \in Rejections(PostErrors \ {"MalformedResponse"}) : a = Answer(x, cs)
  BY <1>1, <1>6 DEF Answer
<1>7. CASE \E x \in Rejections(PostErrors \cap {"MalformedResponse"}), after \in created :
              a = Answer(x, after)
  <2>1. PICK x \in Rejections(PostErrors \cap {"MalformedResponse"}), after \in created :
              a = Answer(x, after)
    BY <1>7
  <2>2. x \in Reply /\ x.outcome = "rejected" /\ x.err \in PostErrors \cap {"MalformedResponse"}
    BY <1>1
  <2>3. a.reply = x /\ a.comments = after
    BY <2>1 DEF Answer
  <2> QED BY <1>2, <2>2, <2>3
<1>8. CASE \E after \in created \cup {cs} : a = Answer(Ambiguous, after)
  BY <1>2, <1>3, <1>8 DEF Answer
<1> QED BY <1>5, <1>6, <1>7, <1>8 DEF post, created

\* A check names a Comment that matches, or none does, or it got no answer.
LEMMA FindIs ==
    ASSUME NEW cs, DOMAIN cs \subseteq CommentId, NEW d, NEW parent,
           NEW a \in findExisting(cs, d, parent)
    PROVE  /\ a \in Reply
           /\ \/ a.outcome \in {"rejected", "ambiguous"}
              \/ a.outcome = "missing" /\ \A c \in DOMAIN cs : ~Matches(cs[c], d, parent)
              \/ a.outcome = "found" /\ a.id \in DOMAIN cs /\ Matches(cs[a.id], d, parent)
<1>1. ASSUME NEW E, NEW x \in Rejections(E)
      PROVE  x \in Reply /\ x.outcome = "rejected"
  BY BoundsAssumption DEF Rejections, Rejected, Reply, ApiError, NoComment
<1>2. CASE a \in Rejections(CheckErrors)
  BY <1>1, <1>2
<1>3. CASE a = Ambiguous
  BY <1>3 DEF Ambiguous, Reply
<1>4. CASE a = Missing /\ {c \in DOMAIN cs : Matches(cs[c], d, parent)} = {}
  BY <1>4 DEF Missing, Reply
<1>5. CASE \E c \in {h \in DOMAIN cs : Matches(cs[h], d, parent)} : a = Found(c)
  BY <1>5 DEF Found, Reply
<1> QED BY <1>2, <1>3, <1>4, <1>5 DEF findExisting

\* From x to y the machine touched no item but the current one.
Near(x, y) ==
    /\ y \in Machine(1..Len(x.order)) /\ y.order = x.order
    /\ \A i \in 1..Len(x.order) : i # x.idx =>
          /\ y.attempts[i] = x.attempts[i] /\ y.checks[i] = x.checks[i]
          /\ y.ambiguous[i] = x.ambiguous[i] /\ y.results[i] = x.results[i]

\* The current item is decided and the machine goes on to the next.
Decides(x, y, result) ==
    /\ Near(x, y) /\ y.idx = x.idx + 1 /\ y.aborted = x.aborted
    /\ y.results[x.idx] = result

\* The current item is still the current one; a POST counted, a check counted,
\* the item in doubt or not.
Stays(x, y, attempts, checks, doubt) ==
    /\ Near(x, y) /\ y.idx = x.idx /\ y.aborted = x.aborted
    /\ y.results[x.idx] = x.results[x.idx]
    /\ y.attempts[x.idx] = attempts /\ y.checks[x.idx] = checks
    /\ y.ambiguous[x.idx] = doubt

\* A machine at one of its items.
At(x) == x \in Machine(1..Len(x.order)) /\ x.idx \in 1..Len(x.order)

LEMMA DecideIs ==
    ASSUME NEW x, NEW y, At(x), At(y), Near(x, y), y.idx = x.idx, y.aborted = x.aborted,
           NEW result \in ItemResult
    PROVE  Decides(x, Decide(y, result), result)
<1> DEFINE P == 1..Len(x.order)
<1> DEFINE z == Decide(y, result)
<1>1. x \in Machine(P) /\ y \in Machine(P) /\ x.idx \in P /\ y.idx \in P /\ y.order = x.order
  BY DEF At, Near
<1> HIDE DEF P
<1>2. z \in Machine(P) /\ z.idx = y.idx + 1 /\ z.order = x.order /\ z.aborted = y.aborted
  <2>1. y.idx \in Nat /\ y.idx + 1 \in Nat
    BY <1>1 DEF Machine
  <2>2. [y.results EXCEPT ![y.idx] = result] \in [P -> ItemResult]
    BY <1>1 DEF Machine
  <2>3. z = [y EXCEPT !.results = [y.results EXCEPT ![y.idx] = result], !.idx = y.idx + 1]
    BY <1>1 DEF Machine, Decide
  <2> HIDE DEF z
  <2>4. z \in Machine(P)
    BY <1>1, <2>1, <2>2, <2>3 DEF Machine
  <2> QED BY <1>1, <2>3, <2>4 DEF Machine
<1>3. /\ z.attempts = y.attempts /\ z.checks = y.checks /\ z.ambiguous = y.ambiguous
      /\ z.results = [y.results EXCEPT ![y.idx] = result] /\ DOMAIN y.results = P
  BY <1>1 DEF Machine, Decide
<1> HIDE DEF z
<1>4. \A i \in P : i # x.idx =>
          /\ z.attempts[i] = x.attempts[i] /\ z.checks[i] = x.checks[i]
          /\ z.ambiguous[i] = x.ambiguous[i] /\ z.results[i] = x.results[i]
  BY <1>1, <1>3 DEF Near, P
<1>5. z.results[x.idx] = result
  BY <1>1, <1>3
<1> QED BY <1>1, <1>2, <1>4, <1>5 DEF Decides, Near, P, z

LEMMA SetWaitIs ==
    ASSUME NEW x, At(x), NEW after \in Delay \cup {NoDelay}
    PROVE  /\ Stays(x, setWait(x, after), x.attempts[x.idx], x.checks[x.idx], x.ambiguous[x.idx])
           /\ Stays(x, setCheckWait(x, after), x.attempts[x.idx], x.checks[x.idx],
                    x.ambiguous[x.idx])
<1>1. \A n \in 0..max_attempts : backoffMs(n) \in 0..MaxBackoff
  BY DEF backoffMs, max_attempts, MaxBackoff
<1>2. x.attempts[x.idx] \in 0..max_attempts /\ x.checks[x.idx] \in 0..max_attempts
  BY DEF At, Machine
<1>3. /\ WaitPoint("post", x.attempts[x.idx], backoffMs(x.attempts[x.idx]), after) \in Retry
      /\ WaitPoint("publication_check", x.attempts[x.idx], backoffMs(x.checks[x.idx]), after)
            \in Retry
  BY <1>1, <1>2 DEF WaitPoint, Retry
<1>4. /\ setWait(x, after) \in Machine(1..Len(x.order))
      /\ setCheckWait(x, after) \in Machine(1..Len(x.order))
  BY <1>3 DEF At, Machine, setWait, setCheckWait
<1> QED BY <1>4 DEF At, Machine, Near, Stays, setWait, setCheckWait

LEMMA RetryOrFailIs ==
    ASSUME NEW x, At(x), NEW after \in Delay \cup {NoDelay}, x.attempts[x.idx] < max_attempts
    PROVE  \/ Decides(x, scheduleRetryOrFail(x, after), Decided("failed"))
           \/ /\ x.attempts[x.idx] + 1 < max_attempts
              /\ Stays(x, scheduleRetryOrFail(x, after),
                       x.attempts[x.idx] + 1, x.checks[x.idx], FALSE)
<1> DEFINE P == 1..Len(x.order)
<1> DEFINE n == x.attempts[x.idx] + 1
<1>0. x \in Machine(P) /\ x.idx \in P /\ x.attempts[x.idx] \in 0..max_attempts
  BY DEF At, Machine
<1> DEFINE spent == [x EXCEPT !.attempts[x.idx] = @ + 1]
<1> DEFINE late == [spent EXCEPT !.terminalDelay = after]
<1> DEFINE clear == [spent EXCEPT !.ambiguous[x.idx] = FALSE]
<1>1. x \in Machine(P) /\ x.idx \in P /\ n \in 0..max_attempts
  BY <1>0 DEF max_attempts
<1> HIDE DEF P
<1>2. spent \in Machine(P) /\ spent.idx = x.idx /\ spent.attempts[x.idx] = n
  BY <1>1 DEF Machine
<1>3. late \in Machine(P) /\ late.order = x.order /\ late.idx = x.idx
  BY <1>1 DEF Machine
<1>4. Near(x, late) /\ At(late) /\ late.aborted = x.aborted
  BY <1>1, <1>3 DEF Near, At, P, Machine
<1>5. clear \in Machine(P) /\ clear.order = x.order /\ clear.idx = x.idx
  BY <1>1 DEF Machine
<1>6. Near(x, clear) /\ At(clear) /\ clear.aborted = x.aborted
  BY <1>1, <1>5 DEF Near, At, P, Machine
<1>7. /\ clear.results[x.idx] = x.results[x.idx] /\ clear.attempts[x.idx] = n
      /\ clear.checks[x.idx] = x.checks[x.idx] /\ clear.ambiguous[x.idx] = FALSE
  BY <1>1 DEF Machine
<1>8. CASE n >= max_attempts
  <2>1. scheduleRetryOrFail(x, after) = Decide(late, Decided("failed"))
    BY <1>1, <1>2, <1>8 DEF scheduleRetryOrFail
  <2>2. Decided("failed") \in ItemResult
    BY DEF Decided, ItemResult
  <2> HIDE DEF late
  <2> QED BY <1>3, <1>4, <2>1, <2>2, DecideIs
<1>9. CASE ~(n >= max_attempts)
  <2>1. scheduleRetryOrFail(x, after) = setWait(clear, after)
    BY <1>1, <1>2, <1>9 DEF scheduleRetryOrFail
  <2> HIDE DEF clear
  <2>2. Stays(clear, setWait(clear, after), n, x.checks[x.idx], FALSE)
    BY <1>5, <1>6, <1>7, SetWaitIs
  <2>3. Stays(x, setWait(clear, after), n, x.checks[x.idx], FALSE)
    BY <1>5, <1>6, <1>7, <2>2 DEF Stays, Near
  <2>4. n < max_attempts
    BY <1>1, <1>9 DEF max_attempts
  <2> QED BY <2>1, <2>3, <2>4
<1> QED BY <1>8, <1>9

LEMMA CheckRetryOrUnknownIs ==
    ASSUME NEW x, At(x), NEW after \in Delay \cup {NoDelay}, x.checks[x.idx] < max_attempts
    PROVE  \/ Decides(x, scheduleCheckRetryOrUnknown(x, after), Decided("outcome_unknown"))
           \/ /\ x.checks[x.idx] + 1 < max_attempts
              /\ Stays(x, scheduleCheckRetryOrUnknown(x, after),
                       x.attempts[x.idx], x.checks[x.idx] + 1, x.ambiguous[x.idx])
<1> DEFINE P == 1..Len(x.order)
<1> DEFINE n == x.checks[x.idx] + 1
<1>0. x \in Machine(P) /\ x.idx \in P /\ x.checks[x.idx] \in 0..max_attempts
  BY DEF At, Machine
<1> DEFINE spent == [x EXCEPT !.checks[x.idx] = @ + 1]
<1>1. x \in Machine(P) /\ x.idx \in P /\ n \in 0..max_attempts
  BY <1>0 DEF max_attempts
<1> HIDE DEF P
<1>2. spent \in Machine(P) /\ spent.order = x.order /\ spent.idx = x.idx /\ spent.checks[x.idx] = n
  BY <1>1 DEF Machine
<1>3. Near(x, spent) /\ At(spent) /\ spent.aborted = x.aborted
  BY <1>1, <1>2 DEF Near, At, P, Machine
<1>4. /\ spent.results[x.idx] = x.results[x.idx] /\ spent.attempts[x.idx] = x.attempts[x.idx]
      /\ spent.ambiguous[x.idx] = x.ambiguous[x.idx]
  BY <1>1 DEF Machine
<1>5. CASE n >= max_attempts
  <2>1. scheduleCheckRetryOrUnknown(x, after) = Decide(spent, Decided("outcome_unknown"))
    BY <1>1, <1>2, <1>5 DEF scheduleCheckRetryOrUnknown
  <2>2. Decided("outcome_unknown") \in ItemResult
    BY DEF Decided, ItemResult
  <2> HIDE DEF spent
  <2> QED BY <1>2, <1>3, <2>1, <2>2, DecideIs
<1>6. CASE ~(n >= max_attempts)
  <2>1. scheduleCheckRetryOrUnknown(x, after) = setCheckWait(spent, after)
    BY <1>1, <1>2, <1>6 DEF scheduleCheckRetryOrUnknown
  <2> HIDE DEF spent
  <2>2. Stays(spent, setCheckWait(spent, after), x.attempts[x.idx], n, x.ambiguous[x.idx])
    BY <1>2, <1>3, <1>4, SetWaitIs
  <2>3. Stays(x, setCheckWait(spent, after), x.attempts[x.idx], n, x.ambiguous[x.idx])
    BY <1>2, <1>3, <1>4, <2>2 DEF Stays, Near
  <2>4. n < max_attempts
    BY <1>1, <1>6 DEF max_attempts
  <2> QED BY <2>1, <2>3, <2>4
<1> QED BY <1>5, <1>6

\* The machine stops for good with the current item as it was.
Aborts(x, y) ==
    /\ Near(x, y) /\ y.idx = x.idx /\ y.aborted
    /\ y.results[x.idx] = x.results[x.idx] /\ y.attempts[x.idx] = x.attempts[x.idx]
    /\ y.checks[x.idx] = x.checks[x.idx] /\ y.ambiguous[x.idx] = x.ambiguous[x.idx]

\* What report makes of the answer to a POST.
Reported(x, y, a) ==
    \/ a.outcome = "posted" /\ Decides(x, y, PostedAs(a.id))
    \/ a.outcome = "ambiguous" /\ Stays(x, y, x.attempts[x.idx] + 1, 0, TRUE)
    \/ a.outcome = "rejected" /\ Decides(x, y, Decided("failed"))
    \/ a.outcome = "rejected" /\ a.err # "MalformedResponse" /\ Aborts(x, y)
    \/ /\ a.outcome = "rejected" /\ a.err # "MalformedResponse"
       /\ x.attempts[x.idx] + 1 < max_attempts
       /\ Stays(x, y, x.attempts[x.idx] + 1, x.checks[x.idx], FALSE)

LEMMA ReportIs ==
    ASSUME NEW x, At(x), NEW a \in Reply, a.outcome \in {"posted", "ambiguous", "rejected"},
           x.attempts[x.idx] < max_attempts
    PROVE  Reported(x, report(x, a), a)
<1> DEFINE P == 1..Len(x.order)
<1> DEFINE y == [x EXCEPT !.terminalDelay = NoDelay]
<1> DEFINE policy == classifyPolicy(a.err)
<1>1. x \in Machine(P) /\ x.idx \in P /\ x.attempts[x.idx] \in 0..max_attempts
  BY DEF At, Machine
<1> HIDE DEF P
<1>2. y \in Machine(P) /\ y.order = x.order /\ y.idx = x.idx
  BY <1>1 DEF Machine
<1>3. Near(x, y) /\ At(y) /\ y.aborted = x.aborted
  BY <1>1, <1>2 DEF Near, At, P, Machine
<1>4. /\ y.results = x.results /\ y.attempts = x.attempts
      /\ y.checks = x.checks /\ y.ambiguous = x.ambiguous
  BY <1>1 DEF Machine
<1>5. a.after \in Delay \cup {NoDelay} /\ a.id \in CommentId \cup {NoComment}
  BY DEF Reply
<1>6. policy \in {"abort", "retry", "fail"} /\ (a.err = "MalformedResponse" => policy = "fail")
  BY DEF classifyPolicy
<1>7. \A res : Near(y, res) => Near(x, res)
  BY <1>2, <1>3 DEF Near
<1> HIDE DEF y, policy
<1>8. CASE a.outcome = "posted"
  <2> DEFINE z == [y EXCEPT !.ambiguous[y.idx] = FALSE]
  <2>1. report(x, a) = Decide(z, PostedAs(a.id))
    BY <1>8 DEF report, y
  <2>2. PostedAs(a.id) \in ItemResult
    BY <1>5 DEF PostedAs, ItemResult
  <2>3. z \in Machine(P) /\ z.order = x.order /\ z.idx = x.idx /\ z.aborted = x.aborted
    BY <1>1, <1>2, <1>3 DEF Machine
  <2>4. Near(x, z) /\ At(z)
    BY <1>1, <1>2, <1>4, <2>3 DEF Near, At, P, Machine
  <2> HIDE DEF z
  <2> QED BY <1>8, <2>1, <2>2, <2>3, <2>4, DecideIs DEF Reported
<1>9. CASE a.outcome = "ambiguous"
  <2> DEFINE z == [y EXCEPT !.attempts[y.idx] = @ + 1, !.ambiguous[y.idx] = TRUE,
                            !.checks[y.idx] = 0]
  <2>1. report(x, a) = z
    BY <1>9 DEF report, y
  <2>2. x.attempts[x.idx] + 1 \in 0..max_attempts /\ 0 \in 0..max_attempts
    BY <1>1 DEF max_attempts
  <2>3. z \in Machine(P) /\ z.order = x.order /\ z.idx = x.idx /\ z.aborted = x.aborted
    BY <1>1, <1>2, <1>3, <1>4, <2>2 DEF Machine
  <2>4. /\ z.results = x.results
        /\ z.attempts = [x.attempts EXCEPT ![x.idx] = @ + 1]
        /\ z.checks = [x.checks EXCEPT ![x.idx] = 0]
        /\ z.ambiguous = [x.ambiguous EXCEPT ![x.idx] = TRUE]
    BY <1>1, <1>2, <1>4 DEF Machine
  <2> HIDE DEF z
  <2>5. Stays(x, z, x.attempts[x.idx] + 1, 0, TRUE)
    BY <1>1, <2>3, <2>4 DEF Stays, Near, P, Machine
  <2> QED BY <1>9, <2>1, <2>5 DEF Reported
<1>10. CASE a.outcome = "rejected" /\ policy = "abort"
  <2> DEFINE z == [y EXCEPT !.aborted = TRUE]
  <2>1. report(x, a) = z
    BY <1>10 DEF report, y, policy
  <2>2. z \in Machine(P) /\ z.order = x.order /\ z.idx = x.idx /\ z.aborted
    BY <1>1, <1>2 DEF Machine
  <2>3. /\ z.results = x.results /\ z.attempts = x.attempts
        /\ z.checks = x.checks /\ z.ambiguous = x.ambiguous
    BY <1>2, <1>4 DEF Machine
  <2> HIDE DEF z
  <2>4. Aborts(x, z)
    BY <2>2, <2>3 DEF Aborts, Near, P
  <2> QED BY <1>6, <1>10, <2>1, <2>4 DEF Reported
<1>11. CASE a.outcome = "rejected" /\ policy = "retry"
  <2>1. report(x, a) = scheduleRetryOrFail(y, a.after)
    BY <1>11 DEF report, y, policy
  <2>2. y.attempts[y.idx] < max_attempts
    BY <1>2, <1>4
  <2>3. \/ Decides(y, report(x, a), Decided("failed"))
        \/ /\ y.attempts[y.idx] + 1 < max_attempts
           /\ Stays(y, report(x, a), y.attempts[y.idx] + 1, y.checks[y.idx], FALSE)
    BY <1>3, <1>5, <2>1, <2>2, RetryOrFailIs
  <2>4. CASE Decides(y, report(x, a), Decided("failed"))
    BY <1>2, <1>3, <1>7, <1>11, <2>4 DEF Decides, Reported
  <2>5. CASE /\ y.attempts[y.idx] + 1 < max_attempts
             /\ Stays(y, report(x, a), y.attempts[y.idx] + 1, y.checks[y.idx], FALSE)
    BY <1>2, <1>3, <1>4, <1>6, <1>7, <1>11, <2>5 DEF Stays, Reported
  <2> QED BY <2>3, <2>4, <2>5
<1>12. CASE a.outcome = "rejected" /\ policy = "fail"
  <2>1. report(x, a) = Decide(y, Decided("failed"))
    BY <1>12 DEF report, y, policy
  <2>2. Decided("failed") \in ItemResult
    BY DEF Decided, ItemResult
  <2> QED BY <1>2, <1>3, <1>12, <2>1, <2>2, DecideIs DEF Reported
<1> QED BY <1>6, <1>8, <1>9, <1>10, <1>11, <1>12

\* What reportCheck makes of the answer to a publication check: only a Comment
\* that is not there takes the item out of doubt and leaves it to be posted again.
Checked(x, y, a) ==
    \/ a.outcome = "found" /\ Decides(x, y, PostedAs(a.id))
    \/ Decides(x, y, Decided("outcome_unknown"))
    \/ /\ a.outcome = "missing" /\ x.attempts[x.idx] < max_attempts
       /\ Stays(x, y, x.attempts[x.idx], 0, FALSE)
    \/ /\ x.checks[x.idx] + 1 < max_attempts
       /\ Stays(x, y, x.attempts[x.idx], x.checks[x.idx] + 1, x.ambiguous[x.idx])

LEMMA ReportCheckIs ==
    ASSUME NEW x, At(x), NEW a \in Reply, a.outcome # "posted", x.checks[x.idx] < max_attempts
    PROVE  Checked(x, reportCheck(x, a), a)
<1> DEFINE P == 1..Len(x.order)
<1> DEFINE policy == classifyPolicy(a.err)
<1>1. x \in Machine(P) /\ x.idx \in P /\ x.attempts[x.idx] \in 0..max_attempts
  BY DEF At, Machine
<1> HIDE DEF P
<1>2. a.after \in Delay \cup {NoDelay} /\ a.id \in CommentId \cup {NoComment}
  BY DEF Reply
<1>3. Decided("outcome_unknown") \in ItemResult
  BY DEF Decided, ItemResult
<1>4. Near(x, x)
  BY DEF At, Near
<1> HIDE DEF policy
<1>5. CASE a.outcome = "found"
  <2> DEFINE z == [x EXCEPT !.ambiguous[x.idx] = FALSE]
  <2>1. reportCheck(x, a) = Decide(z, PostedAs(a.id))
    BY <1>5 DEF reportCheck
  <2>2. PostedAs(a.id) \in ItemResult
    BY <1>2 DEF PostedAs, ItemResult
  <2>3. z \in Machine(P) /\ z.order = x.order /\ z.idx = x.idx /\ z.aborted = x.aborted
    BY <1>1 DEF Machine
  <2>4. Near(x, z) /\ At(z)
    BY <1>1, <2>3 DEF Near, At, P, Machine
  <2> HIDE DEF z
  <2> QED BY <1>5, <2>1, <2>2, <2>3, <2>4, DecideIs DEF Checked
<1>6. CASE a.outcome = "missing"
  <2> DEFINE z == [x EXCEPT !.ambiguous[x.idx] = FALSE, !.checks[x.idx] = 0]
  <2>1. z \in Machine(P) /\ z.order = x.order /\ z.idx = x.idx /\ z.aborted = x.aborted
    <3>1. 0 \in 0..max_attempts
      BY DEF max_attempts
    <3> QED BY <1>1, <3>1 DEF Machine
  <2>2. /\ z.results = x.results /\ z.attempts = x.attempts
        /\ z.checks = [x.checks EXCEPT ![x.idx] = 0]
        /\ z.ambiguous = [x.ambiguous EXCEPT ![x.idx] = FALSE]
    BY <1>1 DEF Machine
  <2>3. CASE x.attempts[x.idx] >= max_attempts
    <3>1. reportCheck(x, a) = Decide(z, Decided("outcome_unknown"))
      BY <1>6, <2>3 DEF reportCheck
    <3> HIDE DEF z
    <3>2. Near(x, z) /\ At(z)
      BY <1>1, <2>1, <2>2 DEF Near, At, P, Machine
    <3> QED BY <1>3, <2>1, <3>1, <3>2, DecideIs DEF Checked
  <2>4. CASE ~(x.attempts[x.idx] >= max_attempts)
    <3>1. reportCheck(x, a) = setWait(z, a.after)
      BY <1>6, <2>4 DEF reportCheck
    <3> HIDE DEF z
    <3>2. Near(x, z) /\ At(z)
      BY <1>1, <2>1, <2>2 DEF Near, At, P, Machine
    <3>3. /\ z.results[x.idx] = x.results[x.idx] /\ z.attempts[x.idx] = x.attempts[x.idx]
          /\ z.checks[x.idx] = 0 /\ z.ambiguous[x.idx] = FALSE
      BY <1>1, <2>2 DEF Machine
    <3>4. Stays(z, setWait(z, a.after), x.attempts[x.idx], 0, FALSE)
      BY <1>2, <2>1, <3>2, <3>3, SetWaitIs
    <3>5. Stays(x, setWait(z, a.after), x.attempts[x.idx], 0, FALSE)
      BY <2>1, <3>2, <3>3, <3>4 DEF Stays, Near
    <3>6. x.attempts[x.idx] < max_attempts
      BY <1>1, <2>4 DEF max_attempts
    <3> QED BY <1>6, <3>1, <3>5, <3>6 DEF Checked
  <2> QED BY <2>3, <2>4
<1>7. CASE a.outcome = "ambiguous" \/ (a.outcome = "rejected" /\ policy = "retry")
  <2>1. reportCheck(x, a) = scheduleCheckRetryOrUnknown(x, a.after)
    BY <1>7 DEF reportCheck, policy
  <2> QED BY <1>2, <2>1, CheckRetryOrUnknownIs DEF Checked
<1>8. CASE a.outcome = "rejected" /\ policy # "retry"
  <2>1. reportCheck(x, a) = Decide(x, Decided("outcome_unknown"))
    BY <1>8 DEF reportCheck, policy
  <2> QED BY <1>3, <1>4, <2>1, DecideIs DEF Checked
<1>9. a.outcome \in {"found", "missing", "rejected", "ambiguous"}
  BY DEF Reply
<1> QED BY <1>5, <1>6, <1>7, <1>8, <1>9

LEMMA CompleteWaitIs ==
    ASSUME NEW x, At(x)
    PROVE  Stays(x, completeWait(x), x.attempts[x.idx], x.checks[x.idx], x.ambiguous[x.idx])
<1>1. completeWait(x) \in Machine(1..Len(x.order))
  BY DEF At, Machine, completeWait
<1> QED BY <1>1 DEF At, Machine, Near, Stays, completeWait

-----------------------------------------------------------------------------
(* Where a Reply goes *)

\* x and y agree on what became of the items before the n-th.
Alike(x, y, n) ==
    /\ y.order = x.order
    /\ \A j \in 1..Len(x.order) : j < n => y.results[j] = x.results[j]

\* It is known before the Reply's turn: what becomes of an item changes nothing
\* for the items up to it.
LEMMA ParentStable ==
    ASSUME NEW r \in Reviews, NEW x, NEW y, OrderOK(r, x.order),
           NEW i \in 1..Len(x.order), NEW n \in Nat, i <= n, Alike(x, y, n)
    PROVE  ParentIds(r, y, x.order[i]) = ParentIds(r, x, x.order[i])
<1> DEFINE p == r[x.order[i]].parent
<1> DEFINE at == {j \in DOMAIN x.order : x.order[j] = p.id}
<1>1. DOMAIN x.order = 1..Len(x.order)
  BY DEF OrderOK
<1>2. ASSUME p.kind = "draft", NEW j \in at PROVE y.results[j] = x.results[j]
  <2>1. j \in 1..Len(x.order) /\ j < i
    BY <1>1, <1>2 DEF OrderOK
  <2>2. j < n
    BY <2>1
  <2> QED BY <2>1, <2>2 DEF Alike
<1>3. CASE p.kind = "draft"
  <2>1. {y.results[j].id : j \in {k \in at : y.results[k].status = "posted"}}
          = {x.results[j].id : j \in {k \in at : x.results[k].status = "posted"}}
    <3> HIDE DEF at, p
    <3> QED BY <1>2, <1>3
  <2> QED BY <2>1, <1>3 DEF ParentIds, Alike
<1>4. CASE p.kind # "draft"
  BY <1>4 DEF ParentIds
<1> QED BY <1>3, <1>4

\* Every Draft has at most one place to go.
LEMMA OneParent ==
    ASSUME NEW r \in Reviews, NEW x, OrderOK(r, x.order), NEW t \in DOMAIN r,
           ~Blocked(r, x, t)
    PROVE  ParentIds(r, x, t) = {resolveParent(r, x, t)}
<1> DEFINE p == r[t].parent
<1>1. DOMAIN x.order = 1..Len(x.order)
  BY DEF OrderOK
<1>2. \A a, b \in ParentIds(r, x, t) : a = b
  BY <1>1 DEF ParentIds, OrderOK
<1> QED BY <1>2 DEF Blocked, resolveParent

\* It is a Comment or, for a root, NoComment.
LEMMA ParentIdsType ==
    ASSUME NEW r \in Reviews, NEW x, OrderOK(r, x.order), x \in Machine(1..Len(x.order)),
           NEW t \in DOMAIN r
    PROVE  ParentIds(r, x, t) \subseteq CommentId \cup {NoComment}
<1>1. DOMAIN x.order = 1..Len(x.order)
  BY DEF OrderOK
<1>2. \A i \in 1..Len(x.order) : x.results[i].id \in CommentId \cup {NoComment}
  BY DEF Machine, ItemResult
<1>3. \A u \in DOMAIN r : r[u] \in Draft
  BY ReviewsAssumption
<1>4. \A u \in DOMAIN r : r[u].comment \in CommentId \cup {NoComment} /\ r[u].parent \in Parent
  BY <1>3 DEF Draft
<1>5. r[t].parent.kind = "comment" => r[t].parent.id \in CommentId
  BY <1>4 DEF Parent, NoParent, DraftParent, CommentParent
<1> QED BY <1>1, <1>2, <1>4, <1>5 DEF ParentIds

-----------------------------------------------------------------------------
(* The initial states *)

\* The Comment an earlier run posted Draft t under.
Under(r, t) ==
    CASE r[t].parent.kind = "none" -> NoComment
      [] r[t].parent.kind = "comment" -> r[t].parent.id
      [] r[t].parent.kind = "draft" -> r[r[t].parent.id].comment

\* cs is what the earlier runs published.
Earlier(r, cs) ==
    /\ DOMAIN cs \subseteq CommentId
    /\ \A t \in DOMAIN r : r[t].state = "posted" => r[t].comment \in DOMAIN cs
    /\ \A c \in DOMAIN cs :
          /\ cs[c].by \in DOMAIN r
          /\ r[cs[c].by].state = "posted" /\ r[cs[c].by].comment = c
          /\ cs[c].body = r[cs[c].by].body /\ cs[c].anchor = r[cs[c].by].anchor
          /\ cs[c].parent = Under(r, cs[c].by)

LEMMA AlreadyPostedIs ==
    ASSUME NEW r \in Reviews
    PROVE  Earlier(r, AlreadyPosted(r))
<1> DEFINE cs == AlreadyPosted(r)
<1> DEFINE by(c) == CHOOSE x \in DOMAIN r : r[x].state = "posted" /\ r[x].comment = c
<1>1. DOMAIN cs = {r[t].comment : t \in {x \in DOMAIN r : r[x].state = "posted"}}
  BY DEF AlreadyPosted
<1>2. \A t \in DOMAIN r : r[t].state = "posted" => r[t].comment \in CommentId
  <2> TAKE t \in DOMAIN r
  <2>1. r[t] \in Draft /\ (r[t].state = "posted" <=> r[t].comment # NoComment)
    BY ReviewsAssumption
  <2> QED BY <2>1 DEF Draft
<1>3. ASSUME NEW c \in DOMAIN cs
      PROVE  by(c) \in DOMAIN r /\ r[by(c)].state = "posted" /\ r[by(c)].comment = c
  BY <1>1
<1>4. ASSUME NEW c \in DOMAIN cs
      PROVE  cs[c] = [by |-> by(c), body |-> r[by(c)].body, anchor |-> r[by(c)].anchor,
                      parent |-> Under(r, by(c))]
  BY <1>1 DEF AlreadyPosted, Under
<1> HIDE DEF by, cs
<1>5. ASSUME NEW c \in DOMAIN cs
      PROVE  /\ cs[c].by = by(c) /\ cs[c].body = r[by(c)].body
             /\ cs[c].anchor = r[by(c)].anchor /\ cs[c].parent = Under(r, by(c))
  BY <1>4
<1> QED BY <1>1, <1>2, <1>3, <1>5 DEF cs, Earlier

\* A new machine.
Fresh(r, x) ==
    /\ OrderOK(r, x.order) /\ x \in Machine(1..Len(x.order)) /\ x.idx = 1 /\ ~x.aborted
    /\ \A i \in 1..Len(x.order) :
          /\ x.attempts[i] = 0 /\ x.checks[i] = 0 /\ ~x.ambiguous[i]
          /\ x.results[i] = Prefilled(r, x.order[i], FALSE)

LEMMA InitOrderIs ==
    ASSUME NEW r \in Reviews, NEW q, OrderOK(r, q)
    PROVE  Fresh(r, initOrder(r, q, FALSE))
<1> DEFINE x == initOrder(r, q, FALSE)
<1>1. q \in Seq(TempId) /\ DOMAIN q = 1..Len(q) /\ \A i \in 1..Len(q) : q[i] \in DOMAIN r
  BY ReviewsAssumption DEF OrderOK
<1>2. \A t \in DOMAIN r : Prefilled(r, t, FALSE) \in ItemResult
  <2> TAKE t \in DOMAIN r
  <2>1. r[t].comment \in CommentId \cup {NoComment}
    BY ReviewsAssumption DEF Draft
  <2> QED BY <2>1 DEF Prefilled, PostedAs, Decided, NoResult, ItemResult
<1>3. 0 \in 0..max_attempts /\ 1 \in Nat
  BY DEF max_attempts
<1>4. [i \in 1..Len(q) |-> Prefilled(r, q[i], FALSE)] \in [1..Len(q) -> ItemResult]
  BY <1>1, <1>2
<1>5. x \in Machine(1..Len(q))
  BY <1>1, <1>3, <1>4 DEF initOrder, Machine
<1>6. /\ x.order = q /\ x.idx = 1 /\ x.aborted = FALSE
      /\ x.attempts = [i \in 1..Len(q) |-> 0] /\ x.checks = [i \in 1..Len(q) |-> 0]
      /\ x.ambiguous = [i \in 1..Len(q) |-> FALSE]
      /\ x.results = [i \in 1..Len(q) |-> Prefilled(r, q[i], FALSE)]
  BY <1>1 DEF initOrder
<1> HIDE DEF x
<1> QED BY <1>5, <1>6 DEF x, Fresh

LEMMA InitIInv == Init => IInv /\ Earlier(review, comments) /\ Fresh(review, m)
<1> SUFFICES ASSUME Init PROVE IInv /\ Earlier(review, comments) /\ Fresh(review, m)
  OBVIOUS
<1> DEFINE P == 1..Len(m.order)
<1>1. review \in Reviews /\ call = NoCall /\ sends = [t \in TempId |-> 0]
  BY DEF Init
<1>2. Fresh(review, m)
  BY <1>1, TopologicalOrderOK, KeptOrderOK, InitOrderIs DEF Init, init, initSubtree
<1>3. Earlier(review, comments)
  BY <1>1, AlreadyPostedIs DEF Init
<1>4. Len(m.order) \in Nat /\ \A i \in P : m.order[i] \in TempId /\ m.order[i] \in DOMAIN review
  BY <1>1, <1>2, ReviewsAssumption DEF Fresh, OrderOK
<1>5. TypeOK
  <2>1. NoCall \in [kind : {"none", "post", "check", "wait", "done", "aborted"},
                    temp : TempId \cup {NoTemp}, parent : CommentId \cup {NoComment}]
    BY DEF NoCall, Step
  <2>2. 1 \in 1..Len(m.order) + 1
    BY <1>4
  <2>3. sends \in [TempId -> Nat]
    BY <1>1
  <2> QED BY <1>1, <1>2, <1>3, <2>1, <2>2, <2>3 DEF TypeOK, Fresh, Earlier
<1>6. Progress
  <2> SUFFICES ASSUME NEW i \in P PROVE ProgressAt(i)
    BY DEF Progress
  <2>1. i \in P /\ ~(i < m.idx) /\ sends[m.order[i]] = 0
    BY <1>1, <1>2, <1>4 DEF Fresh
  <2> QED BY <1>2, <2>1 DEF Fresh, ProgressAt
<1>7. Budget
  <2> SUFFICES ASSUME NEW i \in P PROVE BudgetAt(i)
    BY DEF Budget
  <2>1. i \in P /\ sends[m.order[i]] = 0
    BY <1>1, <1>4
  <2>2. m.attempts[i] = 0 /\ m.checks[i] = 0
    BY <1>2 DEF Fresh
  <2> QED BY <2>1, <2>2 DEF BudgetAt, max_attempts
<1>8. OpenInDoubt
  <2> SUFFICES ASSUME NEW i \in P, NEW c \in DOMAIN comments,
                      Open(i), comments[c].by = m.order[i]
               PROVE  FALSE
    BY DEF OpenInDoubt
  <2>1. Prefilled(review, m.order[i], FALSE) = NoResult
    BY <1>2 DEF Fresh, Open
  <2>2. review[m.order[i]].state = "posted" /\ m.order[i] \in DOMAIN review
    BY <1>3 DEF Earlier
  <2> QED BY <2>1, <2>2 DEF Prefilled, PostedAs, NoResult
<1>9. OneEach /\ Recognised
  BY <1>3 DEF Earlier, OneEach, Recognised
<1> QED BY <1>1, <1>2, <1>3, <1>5, <1>6, <1>7, <1>8, <1>9 DEF IInv, CallIsStep

-----------------------------------------------------------------------------
(* The steps *)

\* Facts about the items that the step lemmas keep using.
LEMMA Items ==
    ASSUME IInv
    PROVE  /\ review \in Reviews /\ Len(m.order) \in Nat /\ m.idx \in Nat
           /\ m \in Machine(1..Len(m.order)) /\ DOMAIN m.order = 1..Len(m.order)
           /\ \A i \in 1..Len(m.order) : m.order[i] \in TempId /\ m.order[i] \in DOMAIN review
           /\ \A i, j \in 1..Len(m.order) : m.order[i] = m.order[j] => i = j
<1>1. /\ review \in Reviews /\ OrderOK(review, m.order) /\ m \in Machine(1..Len(m.order))
      /\ m.idx \in 1..Len(m.order) + 1
  BY DEF IInv, TypeOK
<1>2. DOMAIN review \subseteq TempId
  BY <1>1, ReviewsAssumption
<1>3. m.order \in Seq(DOMAIN review)
  BY <1>1 DEF OrderOK
<1>4. /\ Len(m.order) \in Nat /\ DOMAIN m.order = 1..Len(m.order) /\ m.idx \in Nat
      /\ \A i \in 1..Len(m.order) : m.order[i] \in DOMAIN review
  BY <1>1, <1>3
<1>5. \A i, j \in 1..Len(m.order) : m.order[i] = m.order[j] => i = j
  BY <1>1 DEF OrderOK
<1> QED BY <1>1, <1>2, <1>4, <1>5

\* The caller is at work on the current item, which is open, has a parent to go
\* under and is in doubt exactly when it is not to be posted.
LEMMA AtItem ==
    ASSUME IInv, call.kind \in {"post", "check", "wait"}
    PROVE  /\ At(m) /\ ~m.aborted /\ Open(m.idx)
           /\ call.temp = m.order[m.idx] /\ call.temp \in DOMAIN review
           /\ call.parent \in CommentId \cup {NoComment}
           /\ ParentIds(review, m, m.order[m.idx]) = {call.parent}
           /\ ~Blocked(review, m, m.order[m.idx])
           /\ call.kind = "post" => m.ambiguous[m.idx] = FALSE
           /\ call.kind = "check" => m.ambiguous[m.idx] = TRUE
<1>1. call = StepOf(review, m) /\ ~Skippable(review, m)
  BY DEF IInv, CallIsStep, NoCall, Step
<1>2. ~m.aborted /\ ~Ended(m)
  BY <1>1 DEF StepOf, Step
<1>3. At(m)
  BY <1>2 DEF IInv, TypeOK, At, Ended
<1>4. Open(m.idx) /\ m.order[m.idx] \in DOMAIN review /\ ~Blocked(review, m, m.order[m.idx])
  BY <1>1, <1>2 DEF Skippable, Open, Current
<1>5. /\ call.temp = m.order[m.idx]
      /\ call.parent = resolveParent(review, m, m.order[m.idx])
      /\ call.kind = "post" => ~m.ambiguous[m.idx]
      /\ call.kind = "check" => m.ambiguous[m.idx]
  BY <1>1, <1>2 DEF StepOf, Step, Current
<1>6. m.ambiguous[m.idx] \in BOOLEAN
  BY <1>3 DEF At, Machine
<1>7. ParentIds(review, m, m.order[m.idx]) = {call.parent}
  BY <1>4, <1>5, OneParent DEF IInv, TypeOK
<1>8. call.parent \in CommentId \cup {NoComment}
  BY DEF IInv, TypeOK
<1> QED BY <1>2, <1>3, <1>4, <1>5, <1>6, <1>7, <1>8

\* Only the current item can be both open and published.
LEMMA OnlyCurrent ==
    ASSUME IInv, NEW i \in 1..Len(m.order), NEW c \in DOMAIN comments,
           Open(i), comments[c].by = m.order[i]
    PROVE  i = m.idx /\ m.ambiguous[i]
<1>1. m.ambiguous[i] /\ ProgressAt(i)
  BY DEF IInv, OpenInDoubt, Progress
<1>2. i < m.idx \/ i = m.idx \/ i > m.idx
  BY Items
<1> QED BY <1>1, <1>2 DEF ProgressAt

\* The machine touches the current item only, and leaves it or decides it.
StepAtItem ==
    /\ At(m) /\ Near(m, m') /\ review' = review
    /\ \/ /\ m'.idx = m.idx /\ m'.results[m.idx] = m.results[m.idx]
       \/ /\ m'.idx = m.idx + 1 /\ m'.results[m.idx] # NoResult
          /\ m'.results[m.idx].status = "skipped" <=>
               (review[m.order[m.idx]].state \in Editable /\ Blocked(review, m, m.order[m.idx]))

LEMMA ProgressKept ==
    ASSUME IInv, StepAtItem,
           \A i \in 1..Len(m.order) : i # m.idx => sends'[m.order[i]] = sends[m.order[i]]
    PROVE  Progress'
<1> DEFINE P == 1..Len(m.order)
<1>1. /\ m.idx \in P /\ m'.order = m.order /\ review' = review /\ review \in Reviews
      /\ OrderOK(review, m.order) /\ Len(m.order) \in Nat
  BY Items DEF StepAtItem, At, Near, IInv, TypeOK
<1>2. \A j \in P : j # m.idx => /\ m'.results[j] = m.results[j] /\ m'.attempts[j] = m.attempts[j]
                                /\ m'.checks[j] = m.checks[j] /\ m'.ambiguous[j] = m.ambiguous[j]
  BY DEF StepAtItem, Near
<1>3. ASSUME NEW i \in P, i <= m.idx
      PROVE  Blocked(review, m', m.order[i]) <=> Blocked(review, m, m.order[i])
  <2>1. m.idx \in Nat /\ \A j \in P : j < m.idx => j # m.idx
    BY <1>1
  <2>2. Alike(m, m', m.idx)
    BY <1>1, <1>2, <2>1 DEF Alike
  <2>3. ParentIds(review, m', m.order[i]) = ParentIds(review, m, m.order[i])
    BY <1>1, <1>3, <2>1, <2>2, ParentStable
  <2> QED BY <2>3 DEF Blocked
<1> SUFFICES ASSUME NEW i \in P PROVE ProgressAt(i)'
  BY <1>1 DEF Progress
<1>4. ProgressAt(i)
  BY DEF IInv, Progress
<1>5. CASE i < m.idx
  <2>1. i # m.idx /\ i <= m.idx /\ i < m'.idx
    BY <1>1, <1>5 DEF StepAtItem
  <2>2. ~(i >= m'.idx) /\ ~(i > m'.idx)
    BY <1>1, <2>1 DEF StepAtItem
  <2> QED BY <1>1, <1>2, <1>3, <1>4, <1>5, <2>1, <2>2 DEF ProgressAt, Open
<1>6. CASE i > m.idx
  <2>1. i # m.idx /\ ~(i < m'.idx) /\ i >= m.idx
    BY <1>1, <1>6 DEF StepAtItem
  <2> QED BY <1>1, <1>2, <1>4, <1>6, <2>1 DEF ProgressAt
<1>7. CASE i = m.idx
  <2>1. CASE m'.idx = m.idx /\ m'.results[m.idx] = m.results[m.idx]
    <3>1. ~(i < m'.idx) /\ ~(i > m'.idx) /\ i >= m.idx
      BY <1>1, <1>7, <2>1
    <3> QED BY <1>1, <1>4, <1>7, <2>1, <3>1 DEF ProgressAt
  <2>2. CASE m'.idx = m.idx + 1
    <3>1. ~(i >= m'.idx) /\ ~(i > m'.idx) /\ m'.idx # m.idx
      BY <1>1, <1>7, <2>2
    <3>2. /\ m'.results[i] # NoResult
          /\ m'.results[i].status = "skipped" <=>
               (review[m.order[i]].state \in Editable /\ Blocked(review, m, m.order[i]))
      BY <1>7, <3>1 DEF StepAtItem
    <3>3. Blocked(review, m', m.order[i]) <=> Blocked(review, m, m.order[i])
      BY <1>1, <1>3, <1>7
    <3> QED BY <1>1, <3>1, <3>2, <3>3 DEF ProgressAt, Open
  <2> QED BY <2>1, <2>2 DEF StepAtItem
<1> QED BY <1>1, <1>5, <1>6, <1>7

LEMMA BudgetKept ==
    ASSUME IInv, StepAtItem, m.aborted => m'.aborted, NEW CONSTANT k, k = m.idx, BudgetAt(k)',
           \A i \in 1..Len(m.order) : i # m.idx => sends'[m.order[i]] = sends[m.order[i]]
    PROVE  Budget'
<1>1. m'.order = m.order /\ m.idx \in Nat
  BY Items DEF StepAtItem, Near
<1> SUFFICES ASSUME NEW i \in 1..Len(m.order) PROVE BudgetAt(i)'
  BY <1>1 DEF Budget
<1>2. CASE i = m.idx
  BY <1>2
<1>3. CASE i # m.idx
  <2>1. BudgetAt(i)
    BY DEF IInv, Budget
  <2>2. /\ m'.results[i] = m.results[i] /\ m'.attempts[i] = m.attempts[i]
        /\ m'.checks[i] = m.checks[i] /\ m'.ambiguous[i] = m.ambiguous[i]
    BY <1>3 DEF StepAtItem, Near
  <2> QED BY <1>1, <1>3, <2>1, <2>2 DEF BudgetAt, Open
<1> QED BY <1>2, <1>3

LEMMA DoubtKept ==
    ASSUME IInv, StepAtItem,
           \A c \in DOMAIN comments' : comments'[c].by # m.order[m.idx] =>
              c \in DOMAIN comments /\ comments'[c] = comments[c],
           \A c \in DOMAIN comments' :
              comments'[c].by = m.order[m.idx] /\ m'.results[m.idx] = NoResult =>
                 /\ m'.ambiguous[m.idx]
                 /\ comments'[c].parent \in ParentIds(review, m, m.order[m.idx])
    PROVE  OpenInDoubt'
<1> DEFINE P == 1..Len(m.order)
<1>1. /\ m.idx \in P /\ m'.order = m.order /\ review' = review /\ review \in Reviews
      /\ OrderOK(review, m.order) /\ m.idx \in Nat
  BY Items DEF StepAtItem, At, Near, IInv, TypeOK
<1> SUFFICES ASSUME NEW i \in P, NEW c \in DOMAIN comments',
                    m'.results[i] = NoResult, comments'[c].by = m.order[i]
             PROVE  m'.ambiguous[i] /\ comments'[c].parent \in ParentIds(review, m', m.order[i])
  BY <1>1 DEF OpenInDoubt, Open
<1>2. i = m.idx
  <2> SUFFICES ASSUME i # m.idx PROVE FALSE
    OBVIOUS
  <2>1. comments'[c].by # m.order[m.idx] /\ m.results[i] = NoResult
    BY <1>1, Items DEF StepAtItem, Near
  <2>2. c \in DOMAIN comments /\ comments[c].by = m.order[i] /\ Open(i)
    BY <2>1 DEF Open
  <2> QED BY <2>2, OnlyCurrent
<1>3. ParentIds(review, m', m.order[i]) = ParentIds(review, m, m.order[i])
  <2>1. Alike(m, m', m.idx)
    BY <1>1 DEF StepAtItem, Near, Alike
  <2>2. i <= m.idx
    BY <1>1, <1>2
  <2>3. review \in Reviews /\ OrderOK(review, m.order) /\ i \in 1..Len(m.order) /\ m.idx \in Nat
    BY <1>1
  <2> HIDE DEF P
  <2> QED BY <2>1, <2>2, <2>3, ParentStable
<1> QED BY <1>2, <1>3

LEMMA TypeKept ==
    ASSUME IInv, StepAtItem, call' = NoCall, DOMAIN comments' \subseteq CommentId,
           \A c \in DOMAIN comments' : comments'[c].by \in DOMAIN review,
           sends' \in [TempId -> Nat]
    PROVE  TypeOK'
<1>1. /\ m'.order = m.order /\ review' = review /\ m' \in Machine(1..Len(m.order))
      /\ m.idx \in 1..Len(m.order) /\ (m'.idx = m.idx \/ m'.idx = m.idx + 1)
  BY DEF StepAtItem, At, Near
<1>2. m'.idx \in 1..Len(m.order) + 1
  BY <1>1, Items
<1>3. NoCall \in [kind : {"none", "post", "check", "wait", "done", "aborted"},
                  temp : TempId \cup {NoTemp}, parent : CommentId \cup {NoComment}]
  BY DEF NoCall, Step
<1> QED BY <1>1, <1>2, <1>3 DEF IInv, TypeOK

\* The current item is settled, or passed over because it cannot be posted.
LEMMA SkipItemIs ==
    ASSUME IInv, Skippable(review, m)
    PROVE  LET y == SkipItem(review, m)
           IN  /\ Near(m, y) /\ y.idx = m.idx + 1 /\ y.aborted = m.aborted
               /\ y.results[m.idx] # NoResult
               /\ y.results[m.idx].status = "skipped" <=>
                    (review[m.order[m.idx]].state \in Editable /\ Blocked(review, m, m.order[m.idx]))
               /\ \/ y.results[m.idx] = m.results[m.idx]
                  \/ Open(m.idx) /\ y.results[m.idx] = Decided("skipped")
<1> DEFINE P == 1..Len(m.order)
<1> DEFINE t == m.order[m.idx]
<1> DEFINE y == SkipItem(review, m)
<1>1. At(m)
  BY DEF IInv, TypeOK, At, Skippable, Ended
<1>2. m \in Machine(P) /\ m.idx \in P /\ t \in DOMAIN review
  BY <1>1, Items DEF At
<1>3. m.results[m.idx] = Prefilled(review, t, FALSE)
  <2>1. m.idx >= m.idx /\ ProgressAt(m.idx)
    BY <1>2, Items DEF IInv, Progress
  <2> QED BY <2>1 DEF ProgressAt
<1>4. review[t].state \in DraftState \ {"submitting"}
  BY <1>2, Items, ReviewsAssumption DEF Draft
<1>5. PICK result \in ItemResult :
          /\ y = [m EXCEPT !.idx = @ + 1, !.results[m.idx] = result]
          /\ result # NoResult
          /\ result.status = "skipped" <=> (review[t].state \in Editable /\ Blocked(review, m, t))
          /\ \/ result = m.results[m.idx]
             \/ Open(m.idx) /\ result = Decided("skipped")
  <2>1. CASE m.results[m.idx] # NoResult
    <3>1. y = [m EXCEPT !.idx = @ + 1, !.results[m.idx] = m.results[m.idx]]
      BY <2>1 DEF SkipItem
    <3>2. m.results[m.idx] \in ItemResult
      BY <1>2 DEF Machine
    <3>3. m.results[m.idx].status # "skipped" /\ review[t].state \notin Editable
      BY <1>2, <1>3, <1>4, <2>1
         DEF Prefilled, PostedAs, Decided, DraftState, Editable, NoResult
    <3> QED BY <2>1, <3>1, <3>2, <3>3
  <2>2. CASE m.results[m.idx] = NoResult
    <3>1. review[t].state # "posted" /\ review[t].state \in Editable
      BY <1>2, <1>3, <1>4, <2>2
         DEF Prefilled, PostedAs, Decided, DraftState, Editable, NoResult
    <3>2. Blocked(review, m, t)
      BY <1>2, <2>2, <3>1 DEF Skippable, Current
    <3>3. y = [m EXCEPT !.idx = @ + 1, !.results[m.idx] = Decided("skipped")]
      BY <1>2, <2>2, <3>1 DEF SkipItem, Current
    <3>4. Decided("skipped") \in ItemResult /\ Decided("skipped") # NoResult
          /\ Decided("skipped").status = "skipped"
      BY DEF Decided, NoResult, ItemResult
    <3> QED BY <2>2, <3>1, <3>2, <3>3, <3>4 DEF Open
  <2> QED BY <2>1, <2>2
<1>6. y = Decide(m, result)
  BY <1>2, <1>5 DEF Decide, Machine
<1>7. Decides(m, y, result)
  <2>1. Near(m, m)
    BY <1>2 DEF Near
  <2> HIDE DEF y
  <2> QED BY <1>1, <1>6, <2>1, DecideIs
<1> QED BY <1>5, <1>7 DEF Decides

LEMMA SkipStep ==
    ASSUME IInv, Skip
    PROVE  IInv'
<1>1. /\ Skippable(review, m) /\ m' = SkipItem(review, m)
      /\ review' = review /\ call = NoCall /\ call' = call /\ comments' = comments /\ sends' = sends
  BY DEF Skip
<1>2. At(m)
  BY <1>1 DEF IInv, TypeOK, At, Skippable, Ended
<1>3. StepAtItem /\ m'.results[m.idx] # NoResult /\ m'.aborted = m.aborted
  BY <1>1, <1>2, SkipItemIs DEF StepAtItem
<1>4. TypeOK'
  BY <1>1, <1>3, TypeKept DEF IInv, TypeOK
<1>5. Progress'
  BY <1>1, <1>3, ProgressKept
<1>6. Budget'
  <2>1. PICK k : k = m.idx
    OBVIOUS
  <2>2. BudgetAt(k)'
    <3>1. sends[m.order[k]] <= max_attempts
      BY <1>2, <2>1 DEF IInv, Budget, BudgetAt, At
    <3>2. m'.order = m.order
      BY <1>3 DEF StepAtItem, Near
    <3> QED BY <1>1, <1>3, <2>1, <3>1, <3>2 DEF BudgetAt, Open
  <2> QED BY <1>1, <1>3, <2>1, <2>2, BudgetKept
<1>7. OpenInDoubt'
  BY <1>1, <1>3, DoubtKept
<1> QED BY <1>1, <1>4, <1>5, <1>6, <1>7 DEF IInv, CallIsStep, OneEach, Recognised, NoCall

LEMMA IssueStep ==
    ASSUME IInv, Issue
    PROVE  IInv'
<1>1. /\ ~Skippable(review, m) /\ call' = StepOf(review, m)
      /\ review' = review /\ m' = m /\ comments' = comments /\ sends' = sends
  BY DEF Issue
<1>2. call' \in [kind : {"none", "post", "check", "wait", "done", "aborted"},
                 temp : TempId \cup {NoTemp}, parent : CommentId \cup {NoComment}]
  <2>1. CASE m.aborted \/ Ended(m)
    BY <1>1, <2>1 DEF StepOf, Step
  <2>2. CASE ~m.aborted /\ ~Ended(m)
    <3>1. m.idx \in 1..Len(m.order)
      BY <2>2 DEF IInv, TypeOK, Ended
    <3>2. m.order[m.idx] \in TempId /\ m.order[m.idx] \in DOMAIN review
      BY <3>1, Items
    <3>3. ~Blocked(review, m, m.order[m.idx])
      BY <1>1, <2>2 DEF Skippable, Current
    <3>4. resolveParent(review, m, m.order[m.idx]) \in CommentId \cup {NoComment}
      <4>1. resolveParent(review, m, m.order[m.idx]) \in ParentIds(review, m, m.order[m.idx])
        BY <3>2, <3>3, OneParent DEF IInv, TypeOK
      <4> QED BY <3>2, <4>1, Items, ParentIdsType DEF IInv, TypeOK
    <3> HIDE DEF TempId
    <3>5. \E k \in {"wait", "check", "post"} :
             call' = Step(k, m.order[m.idx], resolveParent(review, m, m.order[m.idx]))
      BY <1>1, <2>2 DEF StepOf, Current
    <3> QED BY <3>2, <3>4, <3>5 DEF Step
  <2> QED BY <2>1, <2>2
<1>3. TypeOK'
  BY <1>1, <1>2 DEF IInv, TypeOK
<1>4. CallIsStep'
  BY <1>1 DEF CallIsStep
<1> QED BY <1>1, <1>3, <1>4
        DEF IInv, Progress, ProgressAt, Budget, BudgetAt, OneEach, Recognised, OpenInDoubt, Open

\* The current item is not published, is posted once, and its answer is recorded.
Answered(a) ==
    /\ a \in Reply /\ Reported(m, m', a)
    /\ \/ comments' = comments /\ a.outcome \in {"rejected", "ambiguous"}
       \/ \E c \in CommentId :
             /\ Adds(comments, comments', c, m.order[m.idx], review[m.order[m.idx]], call.parent)
             /\ \/ a = Published(c)
                \/ a = Ambiguous
                \/ /\ a.outcome = "rejected" /\ a.err = "MalformedResponse"
                   /\ "MalformedResponse" \in PostErrors

LEMMA PostIsAnswered ==
    ASSUME IInv, Post
    PROVE  /\ \A c \in DOMAIN comments : comments[c].by # m.order[m.idx]
           /\ m.attempts[m.idx] \in Nat /\ m.attempts[m.idx] < max_attempts
           /\ sends[m.order[m.idx]] = m.attempts[m.idx]
           /\ StepAtItem
           /\ \E a : Answered(a)
<1>1. call.kind = "post" /\ review' = review
  BY DEF Post
<1>2. /\ At(m) /\ ~m.aborted /\ Open(m.idx) /\ m.ambiguous[m.idx] = FALSE
      /\ call.temp = m.order[m.idx] /\ ~Blocked(review, m, m.order[m.idx])
  BY <1>1, AtItem
<1>3. m.idx \in 1..Len(m.order)
  BY <1>2 DEF At
<1>4. \A c \in DOMAIN comments : comments[c].by # m.order[m.idx]
  BY <1>2, <1>3, OnlyCurrent
<1>5. /\ m.attempts[m.idx] \in Nat /\ m.attempts[m.idx] < max_attempts
      /\ sends[m.order[m.idx]] = m.attempts[m.idx]
  <2>1. BudgetAt(m.idx)
    BY <1>3 DEF IInv, Budget
  <2>2. m.attempts[m.idx] \in 0..max_attempts
    BY <1>2 DEF At, Machine
  <2> QED BY <1>2, <2>1, <2>2 DEF BudgetAt, max_attempts
<1>6. PICK a \in post(comments, m.order[m.idx], review[m.order[m.idx]], call.parent) :
          comments' = a.comments /\ m' = report(m, a.reply)
  BY <1>2 DEF Post
<1>7. /\ a.reply \in Reply
      /\ \/ comments' = comments /\ a.reply.outcome \in {"rejected", "ambiguous"}
         \/ \E c \in CommentId :
             /\ Adds(comments, comments', c, m.order[m.idx], review[m.order[m.idx]], call.parent)
             /\ \/ a.reply = Published(c)
                \/ a.reply = Ambiguous
                \/ /\ a.reply.outcome = "rejected" /\ a.reply.err = "MalformedResponse"
                   /\ "MalformedResponse" \in PostErrors
  BY <1>6, PostIs
<1>8. a.reply.outcome \in {"posted", "ambiguous", "rejected"}
  <2>1. (\A c : Published(c).outcome = "posted") /\ Ambiguous.outcome = "ambiguous"
    BY DEF Published, Ambiguous
  <2> QED BY <1>7, <2>1
<1>9. Reported(m, m', a.reply)
  BY <1>2, <1>5, <1>6, <1>7, <1>8, ReportIs
<1>10. Answered(a.reply)
  BY <1>7, <1>9 DEF Answered
<1>11. StepAtItem
  <2>1. ASSUME NEW result, result \in {PostedAs(a.reply.id), Decided("failed")}
        PROVE  result # NoResult /\ result.status # "skipped"
    BY <2>1 DEF PostedAs, Decided, NoResult
  <2>2. CASE \E result \in {PostedAs(a.reply.id), Decided("failed")} : Decides(m, m', result)
    BY <1>1, <1>2, <2>1, <2>2 DEF StepAtItem, Decides
  <2>3. CASE Aborts(m, m')
    BY <1>1, <1>2, <2>3 DEF StepAtItem, Aborts
  <2>4. CASE \E x, y, z : Stays(m, m', x, y, z)
    BY <1>1, <1>2, <2>4 DEF StepAtItem, Stays
  <2> QED BY <1>9, <2>2, <2>3, <2>4 DEF Reported
<1> QED BY <1>4, <1>5, <1>10, <1>11

LEMMA PostStep ==
    ASSUME IInv, Post
    PROVE  IInv'
<1> DEFINE t == m.order[m.idx]
<1>1. /\ call.kind = "post" /\ review' = review /\ call' = NoCall
      /\ sends' = [sends EXCEPT ![call.temp] = @ + 1]
  BY DEF Post
<1>2. /\ At(m) /\ ~m.aborted /\ Open(m.idx) /\ call.temp = t /\ t \in DOMAIN review
      /\ ParentIds(review, m, t) = {call.parent}
  BY <1>1, AtItem
<1>3. /\ \A c \in DOMAIN comments : comments[c].by # t
      /\ m.attempts[m.idx] \in Nat /\ m.attempts[m.idx] < max_attempts
      /\ sends[t] = m.attempts[m.idx]
      /\ StepAtItem
  BY PostIsAnswered
<1>4. PICK a : Answered(a)
  BY PostIsAnswered
<1>5. m.idx \in 1..Len(m.order) /\ t \in TempId
  BY <1>2, Items DEF At
<1>6. /\ sends' \in [TempId -> Nat] /\ sends'[t] = m.attempts[m.idx] + 1
      /\ \A i \in 1..Len(m.order) : i # m.idx => sends'[m.order[i]] = sends[m.order[i]]
  <2>1. sends \in [TempId -> Nat]
    BY DEF IInv, TypeOK
  <2>2. \A i \in 1..Len(m.order) : i # m.idx => m.order[i] # t /\ m.order[i] \in TempId
    BY <1>5, Items
  <2> HIDE DEF t
  <2> QED BY <1>1, <1>2, <1>3, <1>5, <2>1, <2>2
<1>7. /\ DOMAIN comments' \subseteq CommentId
      /\ \A c \in DOMAIN comments' : comments'[c].by # t => c \in DOMAIN comments /\ comments'[c] = comments[c]
      /\ \A c \in DOMAIN comments' : comments'[c].by = t =>
            /\ comments'[c].parent = call.parent /\ comments'[c].body = review[t].body
            /\ call.parent = NoComment => comments'[c].anchor = review[t].anchor
      /\ \A c, d \in DOMAIN comments' : comments'[c].by = t /\ comments'[d].by = t => c = d
  <2>1. DOMAIN comments \subseteq CommentId
    BY DEF IInv, TypeOK
  <2>2. CASE comments' = comments
    BY <1>3, <2>1, <2>2
  <2>3. CASE \E c \in CommentId : Adds(comments, comments', c, t, review[t], call.parent)
    BY <1>3, <2>1, <2>3 DEF Adds
  <2> QED BY <1>4, <2>2, <2>3 DEF Answered
<1>8. TypeOK'
  <2>1. \A c \in DOMAIN comments' : comments'[c].by \in DOMAIN review
    BY <1>2, <1>7 DEF IInv, TypeOK
  <2> QED BY <1>1, <1>3, <1>6, <1>7, <2>1, TypeKept
<1>9. Progress'
  BY <1>3, <1>6, ProgressKept
<1>10. Budget'
  <2>1. PICK k : k = m.idx
    OBVIOUS
  <2>2. m'.order = m.order
    BY <1>3 DEF StepAtItem, Near
  <2>3. m.checks[m.idx] < max_attempts /\ 0 < max_attempts
    BY <1>2, <1>5 DEF IInv, Budget, BudgetAt, max_attempts
  <2>4. m.attempts[m.idx] + 1 <= max_attempts
    BY <1>3 DEF max_attempts
  <2>5. BudgetAt(k)'
    <3>1. CASE m'.results[k] # NoResult
      BY <1>6, <2>1, <2>2, <2>4, <3>1 DEF BudgetAt, Open
    <3>2. CASE Aborts(m, m')
      BY <1>6, <2>1, <2>2, <2>3, <2>4, <3>2 DEF BudgetAt, Aborts
    <3>3. CASE Stays(m, m', m.attempts[m.idx] + 1, 0, TRUE)
      BY <1>6, <2>1, <2>2, <2>3, <2>4, <3>3 DEF BudgetAt, Stays
    <3>4. CASE /\ m.attempts[m.idx] + 1 < max_attempts
               /\ Stays(m, m', m.attempts[m.idx] + 1, m.checks[m.idx], FALSE)
      BY <1>6, <2>1, <2>2, <2>3, <2>4, <3>4 DEF BudgetAt, Stays
    <3>5. CASE Decides(m, m', PostedAs(a.id)) \/ Decides(m, m', Decided("failed"))
      BY <2>1, <3>1, <3>5 DEF Decides, PostedAs, Decided, NoResult
    <3> QED BY <1>4, <3>2, <3>3, <3>4, <3>5 DEF Answered, Reported
  <2> QED BY <1>2, <1>3, <1>6, <2>1, <2>5, BudgetKept
<1>11. OpenInDoubt'
  <2>1. ASSUME NEW c \in DOMAIN comments', comments'[c].by = t, m'.results[m.idx] = NoResult
        PROVE  m'.ambiguous[m.idx] /\ comments'[c].parent \in ParentIds(review, m, t)
    <3>1. comments' # comments
      BY <1>3, <2>1
    <3>2. ~Decides(m, m', PostedAs(a.id)) /\ ~Decides(m, m', Decided("failed"))
      BY <2>1 DEF Decides, PostedAs, Decided, NoResult
    <3>3. a.outcome = "ambiguous"
      <4>1. (\A d : Published(d).outcome = "posted") /\ Ambiguous.outcome = "ambiguous"
        BY DEF Published, Ambiguous
      <4>2. a.outcome # "posted"
        BY <1>4, <3>2 DEF Answered, Reported
      <4>3. ~(a.outcome = "rejected" /\ a.err = "MalformedResponse")
        BY <1>4, <3>2 DEF Answered, Reported
      <4> QED BY <1>4, <3>1, <4>1, <4>2, <4>3 DEF Answered
    <3>4. Stays(m, m', m.attempts[m.idx] + 1, 0, TRUE)
      BY <1>4, <3>3 DEF Answered, Reported
    <3> QED BY <1>2, <1>7, <2>1, <3>4 DEF Stays
  <2> QED BY <1>3, <1>7, <2>1, DoubtKept
<1>12. OneEach'
  BY <1>7 DEF IInv, OneEach
<1>13. Recognised'
  BY <1>1, <1>7 DEF IInv, Recognised
<1> QED BY <1>1, <1>8, <1>9, <1>10, <1>11, <1>12, <1>13 DEF IInv, CallIsStep, NoCall

\* A check is about the current item, which is in doubt.
LEMMA CheckIsAnswered ==
    ASSUME IInv, Check
    PROVE  /\ StepAtItem
           /\ \E a \in findExisting(comments, review[m.order[m.idx]], call.parent) :
                 /\ a \in Reply /\ Checked(m, m', a)
                 /\ \/ a.outcome \in {"rejected", "ambiguous"}
                    \/ /\ a.outcome = "missing"
                       /\ \A c \in DOMAIN comments : comments[c].by # m.order[m.idx]
                    \/ /\ a.outcome = "found" /\ a.id \in DOMAIN comments
                       /\ comments[a.id].body = review[m.order[m.idx]].body
<1> DEFINE t == m.order[m.idx]
<1>1. call.kind = "check" /\ review' = review
  BY DEF Check
<1>2. /\ At(m) /\ ~m.aborted /\ Open(m.idx) /\ m.ambiguous[m.idx] = TRUE
      /\ call.temp = t /\ ~Blocked(review, m, t) /\ ParentIds(review, m, t) = {call.parent}
  BY <1>1, AtItem
<1>3. m.idx \in 1..Len(m.order)
  BY <1>2 DEF At
<1>4. m.checks[m.idx] < max_attempts
  BY <1>2, <1>3 DEF IInv, Budget, BudgetAt
<1>5. PICK a \in findExisting(comments, review[t], call.parent) : m' = reportCheck(m, a)
  BY <1>2 DEF Check
<1>6. /\ a \in Reply
      /\ \/ a.outcome \in {"rejected", "ambiguous"}
         \/ /\ a.outcome = "missing"
            /\ \A c \in DOMAIN comments : ~Matches(comments[c], review[t], call.parent)
         \/ /\ a.outcome = "found" /\ a.id \in DOMAIN comments
            /\ Matches(comments[a.id], review[t], call.parent)
  <2>1. DOMAIN comments \subseteq CommentId
    BY DEF IInv, TypeOK
  <2> QED BY <1>5, <2>1, FindIs
<1>7. a.outcome # "posted"
  BY <1>6
<1>8. Checked(m, m', a)
  BY <1>2, <1>4, <1>5, <1>6, <1>7, ReportCheckIs
<1>9. StepAtItem
  <2>1. ASSUME NEW result, result \in {PostedAs(a.id), Decided("outcome_unknown")}
        PROVE  result # NoResult /\ result.status # "skipped"
    BY <2>1 DEF PostedAs, Decided, NoResult
  <2>2. CASE \E result \in {PostedAs(a.id), Decided("outcome_unknown")} : Decides(m, m', result)
    BY <1>1, <1>2, <2>1, <2>2 DEF StepAtItem, Decides
  <2>3. CASE \E x, y, z : Stays(m, m', x, y, z)
    BY <1>1, <1>2, <2>3 DEF StepAtItem, Stays
  <2> QED BY <1>8, <2>2, <2>3 DEF Checked
\* The check looks where the item's own Comment would be.
<1>10. ASSUME NEW c \in DOMAIN comments, comments[c].by = t
       PROVE  Matches(comments[c], review[t], call.parent)
  <2>1. comments[c].parent = call.parent
    BY <1>2, <1>3, <1>10 DEF IInv, OpenInDoubt
  <2> QED BY <1>10, <2>1 DEF IInv, Recognised, Matches
<1> QED BY <1>5, <1>6, <1>8, <1>9, <1>10 DEF Matches

LEMMA CheckStep ==
    ASSUME IInv, Check
    PROVE  IInv'
<1> DEFINE t == m.order[m.idx]
<1>1. /\ call.kind = "check" /\ review' = review /\ call' = NoCall
      /\ comments' = comments /\ sends' = sends
  BY DEF Check
<1>2. /\ At(m) /\ ~m.aborted /\ Open(m.idx) /\ m.ambiguous[m.idx] = TRUE /\ call.temp = t
      /\ ParentIds(review, m, t) = {call.parent}
  BY <1>1, AtItem
<1>3. StepAtItem
  BY CheckIsAnswered
<1>4. PICK a \in findExisting(comments, review[t], call.parent) :
          /\ Checked(m, m', a)
          /\ a.outcome = "missing" => \A c \in DOMAIN comments : comments[c].by # t
  BY CheckIsAnswered
<1>5. m.idx \in 1..Len(m.order)
  BY <1>2 DEF At
<1>6. TypeOK'
  BY <1>1, <1>3, TypeKept DEF IInv, TypeOK
<1>7. Progress'
  BY <1>1, <1>3, ProgressKept
<1>8. Budget'
  <2>1. PICK k : k = m.idx
    OBVIOUS
  <2>2. m'.order = m.order
    BY <1>3 DEF StepAtItem, Near
  <2>3. /\ sends[t] = m.attempts[m.idx] /\ sends[t] <= max_attempts
        /\ m.checks[m.idx] < max_attempts /\ 0 < max_attempts
    BY <1>2, <1>5 DEF IInv, Budget, BudgetAt, max_attempts
  <2>4. BudgetAt(k)'
    <3>1. CASE m'.results[k] # NoResult
      BY <1>1, <2>1, <2>2, <2>3, <3>1 DEF BudgetAt, Open
    <3>2. CASE /\ m.attempts[m.idx] < max_attempts
               /\ Stays(m, m', m.attempts[m.idx], 0, FALSE)
      BY <1>1, <2>1, <2>2, <2>3, <3>2 DEF BudgetAt, Stays
    <3>3. CASE /\ m.checks[m.idx] + 1 < max_attempts
               /\ Stays(m, m', m.attempts[m.idx], m.checks[m.idx] + 1, m.ambiguous[m.idx])
      BY <1>1, <1>2, <2>1, <2>2, <2>3, <3>3 DEF BudgetAt, Stays
    <3>4. CASE Decides(m, m', PostedAs(a.id)) \/ Decides(m, m', Decided("outcome_unknown"))
      BY <2>1, <3>1, <3>4 DEF Decides, PostedAs, Decided, NoResult
    <3> QED BY <1>4, <3>2, <3>3, <3>4 DEF Checked
  <2> QED BY <1>1, <1>2, <1>3, <2>1, <2>4, BudgetKept
<1>9. OpenInDoubt'
  <2>1. ASSUME NEW c \in DOMAIN comments, comments[c].by = t, m'.results[m.idx] = NoResult
        PROVE  m'.ambiguous[m.idx] /\ comments[c].parent \in ParentIds(review, m, t)
    <3>1. a.outcome # "missing"
      BY <1>4, <2>1
    <3>2. ~Decides(m, m', PostedAs(a.id)) /\ ~Decides(m, m', Decided("outcome_unknown"))
      BY <2>1 DEF Decides, PostedAs, Decided, NoResult
    <3>3. Stays(m, m', m.attempts[m.idx], m.checks[m.idx] + 1, m.ambiguous[m.idx])
      BY <1>4, <3>1, <3>2 DEF Checked
    <3> QED BY <1>2, <1>5, <2>1, <3>3 DEF Stays, IInv, OpenInDoubt
  <2> QED BY <1>1, <1>3, <2>1, DoubtKept
<1> QED BY <1>1, <1>6, <1>7, <1>8, <1>9 DEF IInv, CallIsStep, OneEach, Recognised, NoCall

LEMMA WaitStep ==
    ASSUME IInv, Wait
    PROVE  IInv' /\ StepAtItem
             /\ Stays(m, m', m.attempts[m.idx], m.checks[m.idx], m.ambiguous[m.idx])
<1>1. /\ call.kind = "wait" /\ review' = review /\ call' = NoCall
      /\ comments' = comments /\ sends' = sends /\ m' = completeWait(m)
  BY DEF Wait
<1>2. At(m) /\ Open(m.idx)
  BY <1>1, AtItem
<1>3. Stays(m, m', m.attempts[m.idx], m.checks[m.idx], m.ambiguous[m.idx])
  BY <1>1, <1>2, CompleteWaitIs
<1>4. StepAtItem
  BY <1>1, <1>2, <1>3 DEF StepAtItem, Stays
<1>5. TypeOK'
  BY <1>1, <1>4, TypeKept DEF IInv, TypeOK
<1>6. Progress'
  BY <1>1, <1>4, ProgressKept
<1>7. Budget'
  <2>1. PICK k : k = m.idx
    OBVIOUS
  <2>2. BudgetAt(m.idx) /\ m'.order = m.order
    BY <1>2, <1>4 DEF IInv, Budget, At, StepAtItem, Near
  <2>3. BudgetAt(k)'
    BY <1>1, <1>3, <2>1, <2>2 DEF BudgetAt, Open, Stays
  <2>4. m.aborted => m'.aborted
    BY <1>3 DEF Stays
  <2> QED BY <1>1, <1>4, <2>1, <2>3, <2>4, BudgetKept
<1>8. OpenInDoubt'
  <2>1. ASSUME NEW c \in DOMAIN comments, comments[c].by = m.order[m.idx],
               m'.results[m.idx] = NoResult
        PROVE  m'.ambiguous[m.idx] /\ comments[c].parent \in ParentIds(review, m, m.order[m.idx])
    BY <1>2, <1>3, <2>1 DEF Stays, IInv, OpenInDoubt, At
  <2> QED BY <1>1, <1>4, <2>1, DoubtKept
<1> QED BY <1>1, <1>3, <1>4, <1>5, <1>6, <1>7, <1>8
        DEF IInv, CallIsStep, OneEach, Recognised, NoCall

LEMMA IdleStep ==
    ASSUME IInv, UNCHANGED vars
    PROVE  IInv'
BY DEF vars, IInv, TypeOK, CallIsStep, Progress, ProgressAt, Budget, BudgetAt, OneEach, Recognised,
       OpenInDoubt, Open

-----------------------------------------------------------------------------
(* What holds of every Submission *)

LEMMA NextIInv == IInv /\ [Next]_vars => IInv'
<1> SUFFICES ASSUME IInv, [Next]_vars PROVE IInv'
  OBVIOUS
<1>1. CASE Skip
  BY <1>1, SkipStep
<1>2. CASE Issue
  BY <1>2, IssueStep
<1>3. CASE Post
  BY <1>3, PostStep
<1>4. CASE Check
  BY <1>4, CheckStep
<1>5. CASE Wait
  BY <1>5, WaitStep
<1>6. CASE Finished
  BY <1>6, IdleStep DEF Finished
<1>7. CASE UNCHANGED vars
  BY <1>7, IdleStep
<1> QED BY <1>1, <1>2, <1>3, <1>4, <1>5, <1>6, <1>7 DEF Next

\* The inductive invariant holds of every Submission, on every PendingReview the
\* store can hold.
THEOREM Invariance == Spec => []IInv
<1>1. Init => IInv
  BY InitIInv
<1> QED BY <1>1, NextIInv, PTL DEF Spec

\* Whatever is lost, rejected or retried, report and reportCheck never make the
\* caller post a Draft that is published: no Draft becomes two Comments, however
\* many Drafts there are and however alike they look.
THEOREM NeverTwice == Spec => []AtMostOneComment
<1>1. IInv => AtMostOneComment
  <2> SUFFICES ASSUME IInv, NEW t \in TempId
               PROVE  Cardinality(CommentsBy(comments, t)) <= 1
    BY DEF AtMostOneComment
  <2>1. CASE CommentsBy(comments, t) = {}
    BY <2>1, FS_EmptySet
  <2>2. CASE \E c : CommentsBy(comments, t) = {c}
    <3>1. PICK c : CommentsBy(comments, t) = {c}
      BY <2>2
    <3>2. Cardinality({c}) = 1
      BY FS_Singleton
    <3> QED BY <3>1, <3>2
  <2>3. CommentsBy(comments, t) = {} \/ \E c : CommentsBy(comments, t) = {c}
    BY DEF IInv, OneEach, CommentsBy
  <2> QED BY <2>1, <2>2, <2>3
<1> QED BY <1>1, Invariance, PTL

\* No Draft is sent more than max_attempts times, every send is one report has
\* counted, and the checks of a Draft keep to their own budget.
THEOREM WithinBudgets == Spec => []BudgetsKept
<1>1. IInv => BudgetsKept
  <2> SUFFICES ASSUME IInv, NEW i \in Positions
               PROVE  /\ sends[m.order[i]] <= max_attempts
                      /\ m.results[i] = NoResult /\ ~m.aborted => sends[m.order[i]] = m.attempts[i]
                      /\ m.checks[i] <= max_attempts
    BY DEF BudgetsKept
  <2>1. i \in 1..Len(m.order)
    BY Items DEF Positions
  <2>2. BudgetAt(i)
    BY <2>1 DEF IInv, Budget
  <2>3. m.checks[i] \in 0..max_attempts
    BY <2>1, Items DEF Machine
  <2> QED BY <2>2, <2>3 DEF BudgetAt, Open, max_attempts
<1> QED BY <1>1, Invariance, PTL

\* When advance says done every item is decided, and the Replies it skipped are
\* those whose parent is not published: topologicalOrder has decided the parent
\* before it comes to the Reply.
THEOREM CompleteWhenDone == Spec => []DoneIsComplete
<1>1. IInv => DoneIsComplete
  <2> SUFFICES ASSUME IInv, call.kind = "done", NEW i \in Positions
               PROVE  /\ m.results[i] # NoResult
                      /\ m.results[i].status = "skipped" <=>
                           (review[m.order[i]].state \in Editable /\ Blocked(review, m, m.order[i]))
    BY DEF DoneIsComplete
  <2>1. call = StepOf(review, m)
    BY DEF IInv, CallIsStep, NoCall, Step
  <2>2. Ended(m)
    BY <2>1 DEF StepOf, Step
  <2>3. i \in 1..Len(m.order) /\ i < m.idx
    BY <2>2, Items DEF Positions, Ended
  <2> QED BY <2>3 DEF IInv, Progress, ProgressAt, Open
<1> QED BY <1>1, Invariance, PTL

-----------------------------------------------------------------------------
(* What holds when the duplicate guard can tell the Drafts apart *)

\* A Draft's parent is of one of three kinds.
LEMMA ParentKinds ==
    ASSUME NEW r \in Reviews, NEW t \in DOMAIN r
    PROVE  r[t].parent.kind \in {"none", "comment", "draft"}
<1>1. r[t].parent \in Parent
  BY ReviewsAssumption DEF Draft
<1> QED BY <1>1 DEF Parent, NoParent, DraftParent, CommentParent

\* A Comment is under the one its Draft's parent became.
UnderParent(c) ==
    LET p == review[comments[c].by].parent
    IN  /\ p.kind = "none" => comments[c].parent = NoComment
        /\ p.kind = "comment" => comments[c].parent = p.id
        /\ p.kind = "draft" => /\ comments[c].parent \in DOMAIN comments
                               /\ comments[comments[c].parent].by = p.id

Placed == \A c \in DOMAIN comments : UnderParent(c)

LEMMA OwnInit ==
    ASSUME Init, Consistent(review)
    PROVE  PostedIsOwn /\ Placed
<1>1. Earlier(review, comments) /\ Fresh(review, m) /\ IInv
  BY InitIInv
<1>2. \A t \in DOMAIN review : review[t].state = "posted" =>
          review[t].comment \in DOMAIN comments /\ comments[review[t].comment].by = t
  BY <1>1 DEF Earlier, Consistent
<1>3. ASSUME NEW i \in 1..Len(m.order), m.results[i].status = "posted"
      PROVE  m.results[i].id \in DOMAIN comments /\ comments[m.results[i].id].by = m.order[i]
  <2>1. Prefilled(review, m.order[i], FALSE).status = "posted" /\ m.order[i] \in DOMAIN review
    BY <1>1, <1>3, Items DEF Fresh
  <2>2. review[m.order[i]].state = "posted"
    BY <2>1 DEF Prefilled, Decided, NoResult
  <2>3. m.results[i].id = review[m.order[i]].comment
    BY <1>1, <2>1, <2>2 DEF Fresh, Prefilled, PostedAs
  <2> QED BY <1>2, <2>1, <2>2, <2>3
<1>4. ASSUME NEW c \in DOMAIN comments
      PROVE  UnderParent(c)
  <2> DEFINE t == comments[c].by
  <2>1. t \in DOMAIN review /\ review[t].state = "posted" /\ comments[c].parent = Under(review, t)
    BY <1>1 DEF Earlier
  <2>2. review \in Reviews
    BY <1>1, Items
  <2>3. review[t].parent.kind = "draft" => /\ review[t].parent.id \in DOMAIN review
                                           /\ review[review[t].parent.id].state = "posted"
    BY <2>1, <2>2, ReviewsAssumption DEF Consistent
  <2> QED BY <1>2, <2>1, <2>3 DEF UnderParent, Under
<1> QED BY <1>2, <1>3, <1>4 DEF PostedIsOwn, Placed

\* Bitbucket forgets nothing and alters nothing.
LEMMA CommentsGrow ==
    ASSUME IInv, [Next]_vars
    PROVE  /\ review' = review /\ m'.order = m.order
           /\ \A c \in DOMAIN comments : c \in DOMAIN comments' /\ comments'[c] = comments[c]
<1>1. CASE Skip
  BY <1>1, SkipItemIs DEF Skip, Near
<1>2. CASE Post
  <2>1. StepAtItem /\ \E a : Answered(a)
    BY <1>2, PostIsAnswered
  <2>2. \A c \in DOMAIN comments : c \in DOMAIN comments' /\ comments'[c] = comments[c]
    BY <2>1 DEF Answered, Adds
  <2> QED BY <2>1, <2>2 DEF StepAtItem, Near
<1>3. CASE Check
  BY <1>3, CheckIsAnswered DEF Check, StepAtItem, Near
<1>4. CASE Wait
  BY <1>4, WaitStep DEF Wait, StepAtItem, Near
<1>5. CASE Issue \/ Finished \/ UNCHANGED vars
  BY <1>5 DEF Issue, Finished, vars
<1> QED BY <1>1, <1>2, <1>3, <1>4, <1>5 DEF Next

\* A result that says posted is an old one, or names the Draft's own Comment.
LEMMA NewlyPosted ==
    ASSUME IInv, [Next]_vars, Distinguishable(review),
           NEW i \in 1..Len(m.order), m'.results[i].status = "posted", m'.results[i] # m.results[i]
    PROVE  m'.results[i].id \in DOMAIN comments' /\ comments'[m'.results[i].id].by = m.order[i]
<1> DEFINE t == m.order[m.idx]
<1>1. CASE Skip
  <2>1. i = m.idx /\ m'.results[i] = Decided("skipped")
    BY <1>1, SkipItemIs DEF Skip, Near
  <2> QED BY <2>1 DEF Decided
<1>2. CASE Post
  <2>1. PICK a : Answered(a)
    BY <1>2, PostIsAnswered
  <2>2. i = m.idx
    BY <1>2, PostIsAnswered DEF StepAtItem, Near
  <2>3. \A status : Decided(status).status = status
    BY DEF Decided
  <2>4. a.outcome = "posted" /\ m'.results[i] = PostedAs(a.id)
    BY <2>1, <2>2, <2>3 DEF Answered, Reported, Decides, Stays, Aborts
  <2>5. PICK c \in CommentId :
            /\ Adds(comments, comments', c, t, review[t], call.parent)
            /\ \/ a = Published(c)
               \/ a = Ambiguous
               \/ a.outcome = "rejected"
    BY <2>1, <2>4 DEF Answered
  <2>6. a.id = c
    <3>1. Published(c).id = c /\ Ambiguous.outcome = "ambiguous"
      BY DEF Published, Ambiguous
    <3> QED BY <2>4, <2>5, <3>1
  <2> QED BY <2>2, <2>4, <2>5, <2>6 DEF Adds, PostedAs
<1>3. CASE Check
  <2>1. PICK a \in findExisting(comments, review[t], call.parent) :
            /\ Checked(m, m', a)
            /\ a.outcome = "found" => /\ a.id \in DOMAIN comments
                                      /\ comments[a.id].body = review[t].body
    BY <1>3, CheckIsAnswered
  <2>2. i = m.idx
    BY <1>3, CheckIsAnswered DEF StepAtItem, Near
  <2>3. \A status : Decided(status).status = status
    BY DEF Decided
  <2>4. a.outcome = "found" /\ m'.results[i] = PostedAs(a.id)
    BY <2>1, <2>2, <2>3 DEF Checked, Decides, Stays
  <2>5. t \in DOMAIN review /\ comments[a.id].by \in DOMAIN review
    BY <2>1, <2>2, <2>4, Items DEF IInv, TypeOK
  <2>6. comments[a.id].by = t
    BY <2>1, <2>4, <2>5 DEF IInv, Recognised, Distinguishable
  <2> QED BY <1>3, <2>1, <2>2, <2>4, <2>6 DEF PostedAs, Check
<1>4. CASE Wait
  BY <1>4, WaitStep DEF Stays, Near
<1>5. CASE Issue \/ Finished \/ UNCHANGED vars
  BY <1>5 DEF Issue, Finished, vars
<1> QED BY <1>1, <1>2, <1>3, <1>4, <1>5 DEF Next

\* A new Comment is the answer to the POST under way.
LEMMA NewComment ==
    ASSUME IInv, [Next]_vars, NEW c \in DOMAIN comments', c \notin DOMAIN comments
    PROVE  /\ Post /\ comments'[c].by = m.order[m.idx] /\ comments'[c].parent = call.parent
           /\ m.order[m.idx] \in DOMAIN review
           /\ ParentIds(review, m, m.order[m.idx]) = {call.parent}
<1>1. Post
  BY DEF Next, Skip, Issue, Check, Wait, Finished, vars
<1>2. \E a : Answered(a)
  BY <1>1, PostIsAnswered
<1>3. comments'[c].by = m.order[m.idx] /\ comments'[c].parent = call.parent
  BY <1>2 DEF Answered, Adds
<1>4. call.kind = "post"
  BY <1>1 DEF Post
<1> QED BY <1>1, <1>3, <1>4, AtItem

LEMMA OwnStep ==
    ASSUME IInv, [Next]_vars, Distinguishable(review), PostedIsOwn, Placed
    PROVE  PostedIsOwn' /\ Placed'
<1>1. /\ review' = review /\ m'.order = m.order
      /\ \A c \in DOMAIN comments : c \in DOMAIN comments' /\ comments'[c] = comments[c]
  BY CommentsGrow
<1>2. ASSUME NEW i \in 1..Len(m.order), m'.results[i].status = "posted"
      PROVE  m'.results[i].id \in DOMAIN comments' /\ comments'[m'.results[i].id].by = m.order[i]
  <2>1. CASE m'.results[i] = m.results[i]
    BY <1>1, <1>2, <2>1 DEF PostedIsOwn
  <2>2. CASE m'.results[i] # m.results[i]
    BY <1>2, <2>2, NewlyPosted
  <2> QED BY <2>1, <2>2
<1>3. PostedIsOwn'
  BY <1>1, <1>2 DEF PostedIsOwn
<1>4. ASSUME NEW c \in DOMAIN comments' PROVE UnderParent(c)'
  <2>1. CASE c \in DOMAIN comments
    <3>1. UnderParent(c)
      BY <2>1 DEF Placed
    <3> QED BY <1>1, <2>1, <3>1 DEF UnderParent
  <2>2. CASE c \notin DOMAIN comments
    <3> DEFINE t == m.order[m.idx]
    <3> DEFINE p == review[t].parent
    <3>1. /\ comments'[c].by = t /\ comments'[c].parent = call.parent /\ t \in DOMAIN review
          /\ ParentIds(review, m, t) = {call.parent}
      BY <2>2, NewComment
    <3>2. p.kind = "none" => call.parent = NoComment
      BY <3>1 DEF ParentIds
    <3>3. p.kind = "comment" => call.parent = p.id
      BY <3>1 DEF ParentIds
    <3>4. p.kind = "draft" => call.parent \in DOMAIN comments /\ comments[call.parent].by = p.id
      <4> SUFFICES ASSUME p.kind = "draft"
                   PROVE  call.parent \in DOMAIN comments /\ comments[call.parent].by = p.id
        OBVIOUS
      <4>1. \/ \E j \in DOMAIN m.order : /\ m.order[j] = p.id /\ m.results[j].status = "posted"
                                         /\ call.parent = m.results[j].id
            \/ \E q \in DOMAIN review : /\ q = p.id /\ review[q].state = "posted"
                                        /\ call.parent = review[q].comment
        BY <3>1 DEF ParentIds
      <4> QED BY <4>1, Items DEF PostedIsOwn
    <3> HIDE DEF t
    <3> QED BY <1>1, <3>1, <3>2, <3>3, <3>4 DEF UnderParent
  <2> QED BY <2>1, <2>2
<1> QED BY <1>3, <1>4 DEF Placed

LEMMA AbsentInit ==
    ASSUME Init
    PROVE  FailedIsAbsent
<1>1. Fresh(review, m) /\ IInv
  BY InitIInv
<1>2. ASSUME NEW i \in 1..Len(m.order) PROVE m.results[i].status \notin {"failed", "skipped"}
  <2>1. m.results[i] = Prefilled(review, m.order[i], FALSE)
    BY <1>1 DEF Fresh
  <2> QED BY <2>1 DEF Prefilled, PostedAs, Decided, NoResult
<1> QED BY <1>1, <1>2 DEF FailedIsAbsent, Fresh

\* An item found to have failed, or skipped, is not published.
LEMMA NewlyFailed ==
    ASSUME IInv, [Next]_vars, "MalformedResponse" \notin PostErrors,
           NEW i \in 1..Len(m.order), m'.results[i].status \in {"failed", "skipped"},
           m'.results[i] # m.results[i], NEW c \in DOMAIN comments'
    PROVE  comments'[c].by # m.order[i]
<1> DEFINE t == m.order[m.idx]
<1>1. \A status : Decided(status).status = status
  BY DEF Decided
<1>2. \A id : PostedAs(id).status = "posted"
  BY DEF PostedAs
<1>3. CASE Skip
  <2>1. i = m.idx /\ Open(i) /\ Blocked(review, m, t)
    BY <1>1, <1>3, SkipItemIs DEF Skip, Near
  <2>2. comments' = comments
    BY <1>3 DEF Skip
  <2> QED BY <2>1, <2>2 DEF IInv, OpenInDoubt, Blocked
<1>4. CASE Post
  <2>1. i = m.idx /\ \A d \in DOMAIN comments : comments[d].by # t
    BY <1>4, PostIsAnswered DEF StepAtItem, Near
  <2>2. PICK a : Answered(a)
    BY <1>4, PostIsAnswered
  <2>3. a.outcome = "rejected"
    BY <1>2, <2>1, <2>2 DEF Answered, Reported, Decides, Stays
  <2>4. comments' = comments
    <3>1. (\A d : Published(d).outcome = "posted") /\ Ambiguous.outcome = "ambiguous"
      BY DEF Published, Ambiguous
    <3> QED BY <2>2, <2>3, <3>1 DEF Answered
  <2> QED BY <2>1, <2>4
<1>5. CASE Check
  <2>1. i = m.idx /\ \E a \in Reply : Checked(m, m', a)
    BY <1>5, CheckIsAnswered DEF StepAtItem, Near
  <2> QED BY <1>1, <1>2, <2>1 DEF Checked, Decides, Stays
<1>6. CASE Wait
  BY <1>6, WaitStep DEF Stays, Near
<1>7. CASE Issue \/ Finished \/ UNCHANGED vars
  BY <1>7 DEF Issue, Finished, vars
<1> QED BY <1>3, <1>4, <1>5, <1>6, <1>7 DEF Next

\* The machine aborts on a POST, of an item that was not in doubt.
LEMMA NewlyAborted ==
    ASSUME IInv, [Next]_vars, m'.aborted, ~m.aborted
    PROVE  Post /\ Aborts(m, m')
<1>1. CASE Skip
  BY <1>1, SkipItemIs DEF Skip
<1>2. CASE Post
  BY <1>2, PostIsAnswered DEF Answered, Reported, Decides, Stays
<1>3. CASE Check
  <2>1. \E a \in Reply : Checked(m, m', a)
    BY <1>3, CheckIsAnswered
  <2> QED BY <2>1 DEF Checked, Decides, Stays
<1>4. CASE Wait
  BY <1>4, WaitStep DEF Stays
<1>5. CASE Issue \/ Finished \/ UNCHANGED vars
  BY <1>5 DEF Issue, Finished, vars
<1> QED BY <1>1, <1>2, <1>3, <1>4, <1>5 DEF Next

LEMMA AbsentStep ==
    ASSUME IInv, [Next]_vars, "MalformedResponse" \notin PostErrors, FailedIsAbsent
    PROVE  FailedIsAbsent'
<1>1. /\ review' = review /\ m'.order = m.order
      /\ \A c \in DOMAIN comments : c \in DOMAIN comments' /\ comments'[c] = comments[c]
  BY CommentsGrow
<1>2. ASSUME NEW i \in 1..Len(m.order), NEW c \in DOMAIN comments',
             m'.results[i].status \in {"failed", "skipped"}
      PROVE  comments'[c].by # m.order[i]
  <2>1. CASE m'.results[i] # m.results[i]
    BY <1>2, <2>1, NewlyFailed
  <2>2. CASE m'.results[i] = m.results[i] /\ c \in DOMAIN comments
    BY <1>1, <1>2, <2>2 DEF FailedIsAbsent
  <2>3. CASE m'.results[i] = m.results[i] /\ c \notin DOMAIN comments
    <3>1. Post /\ comments'[c].by = m.order[m.idx]
      BY <2>3, NewComment
    <3>2. At(m) /\ Open(m.idx)
      BY <3>1, AtItem DEF Post
    <3>3. i # m.idx
      BY <1>2, <2>3, <3>2 DEF Open, NoResult
    <3> QED BY <3>1, <3>2, <3>3, Items DEF At
  <2> QED BY <2>1, <2>2, <2>3
<1>3. ASSUME m'.aborted, NEW i \in 1..Len(m.order), m'.results[i] = NoResult
      PROVE  ~m'.ambiguous[i]
  <2>1. CASE m.aborted
    <3>1. ~Post /\ ~Check /\ ~Wait
      BY <2>1, AtItem DEF Post, Check, Wait
    <3>2. ~Skip
      BY <2>1 DEF Skip, Skippable
    <3>3. m' = m
      BY <3>1, <3>2 DEF Next, Issue, Finished, vars
    <3> QED BY <1>3, <2>1, <3>3 DEF FailedIsAbsent, Open
  <2>2. CASE ~m.aborted
    <3>1. Post /\ Aborts(m, m')
      BY <1>3, <2>2, NewlyAborted
    <3>2. m.ambiguous[m.idx] = FALSE
      BY <3>1, AtItem DEF Post
    <3>3. m'.ambiguous[i] = m.ambiguous[i] /\ m'.results[i] = m.results[i]
      BY <3>1 DEF Aborts, Near
    <3>4. i < m.idx \/ i = m.idx \/ i > m.idx
      BY Items
    <3>5. ProgressAt(i) /\ Open(i)
      BY <1>3, <3>3 DEF IInv, Progress, Open
    <3> QED BY <3>2, <3>3, <3>4, <3>5 DEF ProgressAt
  <2> QED BY <2>1, <2>2
<1> QED BY <1>1, <1>2, <1>3 DEF FailedIsAbsent, Open

\* A Reply is only ever published under the Comment its parent became, provided
\* that earlier runs told the truth and that the bodies tell the Drafts apart:
\* findImpl compares bodies and scope and nothing else.
THEOREM RepliesPlaced ==
    ASSUME \A r \in Reviews : Consistent(r) /\ Distinguishable(r)
    PROVE  Spec => []ReplyUnderItsParent
<1> DEFINE J == IInv /\ PostedIsOwn /\ Placed
<1>1. Init => J
  <2>1. Init => Consistent(review)
    BY DEF Init
  <2> QED BY <2>1, InitIInv, OwnInit
<1>2. J /\ [Next]_vars => J'
  <2>1. IInv => Distinguishable(review)
    BY Items
  <2> QED BY <2>1, NextIInv, OwnStep
<1>3. J => ReplyUnderItsParent
  <2> SUFFICES ASSUME J, NEW c \in DOMAIN comments
               PROVE  LET p == review[comments[c].by].parent
                      IN  CASE p.kind = "none" -> comments[c].parent = NoComment
                            [] p.kind = "comment" -> comments[c].parent = p.id
                            [] p.kind = "draft" -> /\ comments[c].parent \in DOMAIN comments
                                                   /\ comments[comments[c].parent].by = p.id
    BY DEF ReplyUnderItsParent
  <2>1. review[comments[c].by].parent.kind \in {"none", "comment", "draft"}
    BY ParentKinds, Items DEF IInv, TypeOK
  <2>2. UnderParent(c)
    BY DEF Placed
  <2> QED BY <2>1, <2>2 DEF UnderParent
<1> HIDE DEF J
<1> QED BY <1>1, <1>2, <1>3, PTL DEF Spec

\* What report, reportCheck and advance decide is true of Bitbucket, under the
\* same proviso and when no 2xx response is malformed (postImpl takes one for a
\* rejection): posted names the Draft's own Comment, failed and skipped mean there
\* is none, and what is left undecided at the end was never published.
THEOREM TellsTheTruth ==
    ASSUME \A r \in Reviews : Consistent(r) /\ Distinguishable(r),
           "MalformedResponse" \notin PostErrors
    PROVE  Spec => []ResultsAreTrue
<1> DEFINE J == IInv /\ PostedIsOwn /\ Placed /\ FailedIsAbsent
<1>1. Init => J
  <2>1. Init => Consistent(review)
    BY DEF Init
  <2> QED BY <2>1, InitIInv, OwnInit, AbsentInit
<1>2. J /\ [Next]_vars => J'
  <2>1. IInv => Distinguishable(review)
    BY Items
  <2> QED BY <2>1, NextIInv, OwnStep, AbsentStep
<1>3. J => ResultsAreTrue
  <2> SUFFICES ASSUME J, NEW i \in Positions
               PROVE  LET made == CommentsBy(comments, m.order[i])
                      IN  CASE m.results[i].status = "posted" -> made = {m.results[i].id}
                            [] m.results[i].status \in {"failed", "skipped"} -> made = {}
                            [] OTHER -> Terminal /\ m.results[i] = NoResult => made = {}
    BY DEF ResultsAreTrue
  <2> DEFINE made == CommentsBy(comments, m.order[i])
  <2>1. i \in 1..Len(m.order)
    BY Items DEF Positions
  <2>2. m.results[i].status = "posted" => made = {m.results[i].id}
    BY <2>1 DEF PostedIsOwn, IInv, OneEach, CommentsBy
  <2>3. m.results[i].status \in {"failed", "skipped"} => made = {}
    BY <2>1 DEF FailedIsAbsent, CommentsBy
  <2>4. ASSUME Terminal, m.results[i] = NoResult, made # {} PROVE FALSE
    <3>1. PICK c \in DOMAIN comments : comments[c].by = m.order[i]
      BY <2>4 DEF CommentsBy
    <3>2. i = m.idx /\ m.ambiguous[i]
      BY <2>1, <2>4, <3>1, OnlyCurrent DEF Open
    <3>3. call = StepOf(review, m) /\ call.kind \in {"done", "aborted"}
      BY <2>4 DEF IInv, CallIsStep, NoCall, Step, Terminal
    <3>4. m.aborted \/ Ended(m)
      BY <3>3 DEF StepOf, Step
    <3>5. ~Ended(m)
      BY <2>1, <3>2, Items DEF Ended
    <3> QED BY <2>1, <2>4, <3>2, <3>4, <3>5 DEF FailedIsAbsent, Open
  <2> HIDE DEF made
  <2> QED BY <2>2, <2>3, <2>4 DEF made
<1> HIDE DEF J
<1> QED BY <1>1, <1>2, <1>3, PTL DEF Spec
=============================================================================
