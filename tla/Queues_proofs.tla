---------------------------- MODULE Queues_proofs ----------------------------
(* Proofs about Queues: induction over the naturals, stated with a set in    *)
(* place of a predicate, the functions defined by recursion that follow from *)
(* it, and what the operations on queues return.                             *)
EXTENDS Queues, NaturalsInduction, WellFoundedInduction, TLAPS

\* A set of naturals that holds 0 and every successor holds them all.
LEMMA SetInduction ==
    ASSUME NEW G, 0 \in G, \A n \in Nat : n \in G => n + 1 \in G
    PROVE  \A n \in Nat : n \in G
<1> DEFINE R == {ss \in Nat \X Nat : ss[1] < ss[2]}
<1> DEFINE U == Nat \ G
<1> SUFFICES ASSUME U # {} PROVE FALSE
  OBVIOUS
<1>1. IsWellFoundedOn(R, Nat)
  BY NatLessThanWellFounded, Zenon DEF OpToRel
<1>2. U \subseteq Nat
  OBVIOUS
<1>3. PICK n \in U : \A m \in U : ~(<<m, n>> \in R)
  <2> HIDE DEF R, U
  <2>1. PICK x : x \in U
    OBVIOUS
  <2> QED BY <1>1, <1>2, <2>1, WFMin, Zenon
<1>4. n \in Nat /\ n # 0
  OBVIOUS
<1>5. n - 1 \in Nat /\ n - 1 < n /\ (n - 1) + 1 = n
  BY <1>4
<1>6. n - 1 \notin U
  <2>1. <<n - 1, n>> \in R
    BY <1>4, <1>5
  <2> QED BY <1>3, <2>1
<1>7. n - 1 \in G
  BY <1>5, <1>6
<1> QED BY <1>5, <1>7

\* f is defined by recursion on 0..N, from base and by step.
IsStep(step, N, S) == step \in [(1..N) \X S -> S]
DefinedBy(f, N, S, base, step) ==
    /\ f \in [0..N -> S] /\ f[0] = base
    /\ \A n \in 1..N : f[n] = step[<<n, f[n - 1]>>]

\* A function defined by recursion exists.
LEMMA RecursiveFunctionExists ==
    ASSUME NEW N \in Nat, NEW S, NEW base \in S, NEW step, IsStep(step, N, S)
    PROVE  \E f : DefinedBy(f, N, S, base, step)
<1> USE DEF IsStep, DefinedBy
<1> DEFINE Good(f, m) ==
              /\ f \in [0..m -> S] /\ f[0] = base
              /\ \A n \in 1..m : f[n] = step[<<n, f[n - 1]>>]
<1> DEFINE G == {m \in Nat : m <= N => \E f : Good(f, m)}
<1>1. 0 \in G
  <2>1. Good([n \in 0..0 |-> base], 0)
    OBVIOUS
  <2> QED BY <2>1
<1>2. ASSUME NEW m \in Nat, m \in G PROVE m + 1 \in G
  <2> SUFFICES ASSUME m + 1 <= N PROVE \E f : Good(f, m + 1)
    OBVIOUS
  <2>1. PICK f : Good(f, m)
    BY <1>2
  <2> DEFINE g == [n \in 0..(m + 1) |-> IF n = m + 1 THEN step[<<m + 1, f[m]>>] ELSE f[n]]
  <2>2. <<m + 1, f[m]>> \in (1..N) \X S
    BY <2>1
  <2>3. g \in [0..(m + 1) -> S]
    BY <2>1, <2>2
  <2>4. g[0] = base
    BY <2>1
  <2>5. \A n \in 1..(m + 1) : g[n] = step[<<n, g[n - 1]>>]
    <3> TAKE n \in 1..(m + 1)
    <3>1. CASE n = m + 1
      <4>1. g[n - 1] = f[m]
        BY <3>1
      <4>2. g[n] = step[<<m + 1, f[m]>>]
        BY <3>1
      <4> HIDE DEF g
      <4> QED BY <3>1, <4>1, <4>2
    <3>2. CASE n \in 1..m
      <4>1. g[n] = f[n] /\ g[n - 1] = f[n - 1]
        BY <3>2
      <4> QED BY <2>1, <3>2, <4>1
    <3> QED BY <3>1, <3>2
  <2> QED BY <2>3, <2>4, <2>5
<1>3. N \in G
  <2> HIDE DEF G
  <2> QED BY <1>1, <1>2, SetInduction
<1> QED BY <1>3

\* The members of a queue, after an append.
LEMMA AppendMembers ==
    ASSUME NEW S, NEW q \in Seq(S), NEW e \in S
    PROVE  /\ Append(q, e) \in Seq(S)
           /\ Members(Append(q, e)) = Members(q) \cup {e}
  BY DEF Members

\* The scan, one element at a time.
LEMMA KeptUnfolds ==
    ASSUME NEW S, NEW q \in Seq(S), NEW W
    PROVE  \E kept :
              /\ Kept(q, W) = kept[Len(q)]
              /\ kept[0] = <<>>
              /\ \A n \in 1..Len(q) :
                    kept[n] = IF q[n] \in W THEN Append(kept[n - 1], q[n]) ELSE kept[n - 1]
<1> DEFINE N == Len(q)
<1> DEFINE step == [p \in (1..N) \X Seq(S) |->
                        IF q[p[1]] \in W THEN Append(p[2], q[p[1]]) ELSE p[2]]
<1> DEFINE Scan(f) == [n \in 0..N |->
                          IF n = 0 THEN <<>>
                          ELSE IF q[n] \in W THEN Append(f[n - 1], q[n]) ELSE f[n - 1]]
<1> DEFINE kept == CHOOSE f : f = Scan(f)
<1>1. N \in Nat /\ \A n \in 1..N : q[n] \in S
  OBVIOUS
<1>2. step \in [(1..N) \X Seq(S) -> Seq(S)]
  BY <1>1
<1>3. PICK f \in [0..N -> Seq(S)] :
          f[0] = <<>> /\ \A n \in 1..N : f[n] = step[<<n, f[n - 1]>>]
  <2>1. <<>> \in Seq(S) /\ IsStep(step, N, Seq(S))
    BY <1>2 DEF IsStep
  <2> HIDE DEF step, N
  <2>2. \E f : DefinedBy(f, N, Seq(S), <<>>, step)
    BY <1>1, <2>1, RecursiveFunctionExists
  <2> QED BY <2>2 DEF DefinedBy
<1>4. f = Scan(f)
  <2>1. ASSUME NEW n \in 1..N
        PROVE  f[n] = IF q[n] \in W THEN Append(f[n - 1], q[n]) ELSE f[n - 1]
    <3>1. n - 1 \in 0..N
      BY <1>1
    <3> QED BY <1>3, <3>1
  <2>2. \A n \in 0..N : n = 0 \/ n \in 1..N
    BY <1>1
  <2> QED BY <1>3, <2>1, <2>2
<1>5. kept = Scan(kept)
  <2> HIDE DEF Scan
  <2> QED BY <1>4
<1>6. Kept(q, W) = kept[N]
  BY DEF Kept
<1>7. /\ kept[0] = <<>>
      /\ \A n \in 1..N : kept[n] = IF q[n] \in W THEN Append(kept[n - 1], q[n])
                                   ELSE kept[n - 1]
  <2> HIDE DEF kept
  <2>1. 0 \in 0..N /\ \A n \in 1..N : n \in 0..N /\ n # 0
    BY <1>1
  <2> QED BY <1>5, <2>1
<1> HIDE DEF kept
<1> QED BY <1>6, <1>7

\* The scan keeps exactly the members that are in W, in their order.
LEMMA KeptIs ==
    ASSUME NEW S, NEW q \in Seq(S), NEW W
    PROVE  /\ Kept(q, W) \in Seq(S)
           /\ Members(Kept(q, W)) = Members(q) \cap W
           /\ \A i1, i2 \in 1..Len(Kept(q, W)) : i1 < i2 =>
                 \E j1, j2 \in 1..Len(q) :
                    j1 < j2 /\ Kept(q, W)[i1] = q[j1] /\ Kept(q, W)[i2] = q[j2]
<1> DEFINE N == Len(q)
<1>1. N \in Nat /\ \A n \in 1..N : q[n] \in S
  OBVIOUS
<1>6. PICK kept :
          /\ Kept(q, W) = kept[N]
          /\ kept[0] = <<>>
          /\ \A n \in 1..N :
                kept[n] = IF q[n] \in W THEN Append(kept[n - 1], q[n]) ELSE kept[n - 1]
  BY KeptUnfolds
<1>7. /\ kept[0] = <<>>
      /\ \A n \in 1..N : kept[n] = IF q[n] \in W THEN Append(kept[n - 1], q[n])
                                   ELSE kept[n - 1]
  BY <1>6
<1> DEFINE Sofar(n) ==
        /\ kept[n] \in Seq(S)
        /\ \A i \in 1..Len(kept[n]) : \E j \in 1..n : kept[n][i] = q[j] /\ q[j] \in W
        /\ \A j \in 1..n : q[j] \in W => \E i \in 1..Len(kept[n]) : kept[n][i] = q[j]
        /\ \A i1, i2 \in 1..Len(kept[n]) : i1 < i2 =>
              \E j1, j2 \in 1..n : j1 < j2 /\ kept[n][i1] = q[j1] /\ kept[n][i2] = q[j2]
<1> DEFINE G == {n \in Nat : n <= N => Sofar(n)}
<1>8. 0 \in G
  <2>1. kept[0] \in Seq(S) /\ Len(kept[0]) = 0
    BY <1>7
  <2>2. 1..0 = {}
    OBVIOUS
  <2>3. Sofar(0)
    BY <2>1, <2>2
  <2> QED BY <2>3
<1>9. ASSUME NEW m \in Nat, m \in G PROVE m + 1 \in G
  <2> SUFFICES ASSUME m + 1 <= N PROVE Sofar(m + 1)
    OBVIOUS
  <2>1. Sofar(m) /\ m + 1 \in 1..N
    <3> HIDE DEF Sofar
    <3> QED BY <1>1, <1>9
  <2>2. kept[m + 1] = IF q[m + 1] \in W THEN Append(kept[m], q[m + 1]) ELSE kept[m]
    BY <1>7, <2>1
  <2>3. \A j \in 1..(m + 1) : j \in 1..m \/ j = m + 1
    OBVIOUS
  <2>4. CASE q[m + 1] \notin W
    BY <2>1, <2>2, <2>3, <2>4
  <2>5. CASE q[m + 1] \in W
    <3>1. /\ kept[m + 1] \in Seq(S) /\ Len(kept[m + 1]) = Len(kept[m]) + 1
          /\ Len(kept[m]) \in Nat
          /\ \A i \in 1..Len(kept[m]) : kept[m + 1][i] = kept[m][i]
          /\ kept[m + 1][Len(kept[m]) + 1] = q[m + 1]
      BY <1>1, <2>1, <2>2, <2>5
    <3>2. \A i \in 1..Len(kept[m + 1]) : i \in 1..Len(kept[m]) \/ i = Len(kept[m]) + 1
      BY <3>1
    <3>3. \A i \in 1..Len(kept[m]) : i \in 1..Len(kept[m + 1])
      BY <3>1
    <3>4. \A i \in 1..Len(kept[m + 1]) :
              \E j \in 1..(m + 1) : kept[m + 1][i] = q[j] /\ q[j] \in W
      <4> TAKE i \in 1..Len(kept[m + 1])
      <4>1. CASE i = Len(kept[m]) + 1
        <5>1. m + 1 \in 1..(m + 1)
          OBVIOUS
        <5> QED BY <2>5, <3>1, <4>1, <5>1
      <4>2. CASE i \in 1..Len(kept[m])
        <5>1. PICK j \in 1..m : kept[m][i] = q[j] /\ q[j] \in W
          BY <2>1, <4>2
        <5>2. j \in 1..(m + 1)
          OBVIOUS
        <5> QED BY <3>1, <4>2, <5>1, <5>2
      <4> QED BY <3>2, <4>1, <4>2
    <3>5. \A j \in 1..(m + 1) : q[j] \in W =>
              \E i \in 1..Len(kept[m + 1]) : kept[m + 1][i] = q[j]
      <4> TAKE j \in 1..(m + 1)
      <4> HAVE q[j] \in W
      <4>1. CASE j = m + 1
        <5>1. Len(kept[m]) + 1 \in 1..Len(kept[m + 1])
          BY <3>1
        <5> QED BY <3>1, <4>1, <5>1
      <4>2. CASE j \in 1..m
        BY <2>1, <3>1, <3>3, <4>2
      <4> QED BY <2>3, <4>1, <4>2
    <3>6. ASSUME NEW i1 \in 1..Len(kept[m + 1]), NEW i2 \in 1..Len(kept[m + 1]), i1 < i2
          PROVE  \E j1, j2 \in 1..(m + 1) :
                    j1 < j2 /\ kept[m + 1][i1] = q[j1] /\ kept[m + 1][i2] = q[j2]
      <4>1. i1 \in 1..Len(kept[m])
        BY <3>1, <3>6
      <4>2. CASE i2 = Len(kept[m]) + 1
        <5>1. PICK j \in 1..m : kept[m][i1] = q[j]
          BY <2>1, <4>1
        <5>2. j < m + 1 /\ j \in 1..(m + 1) /\ m + 1 \in 1..(m + 1)
          OBVIOUS
        <5> QED BY <3>1, <4>1, <4>2, <5>1, <5>2
      <4>3. CASE i2 \in 1..Len(kept[m])
        <5>1. PICK j1 \in 1..m, j2 \in 1..m :
                  j1 < j2 /\ kept[m][i1] = q[j1] /\ kept[m][i2] = q[j2]
          BY <2>1, <3>6, <4>1, <4>3
        <5>2. j1 \in 1..(m + 1) /\ j2 \in 1..(m + 1)
          OBVIOUS
        <5> QED BY <3>1, <4>1, <4>3, <5>1, <5>2
      <4> QED BY <3>2, <4>2, <4>3
    <3> QED BY <3>1, <3>4, <3>5, <3>6
  <2> QED BY <2>4, <2>5
<1>10. Sofar(N)
  <2>1. N \in G
    <3> HIDE DEF G, N
    <3> QED BY <1>1, <1>8, <1>9, SetInduction
  <2> HIDE DEF Sofar
  <2> QED BY <1>1, <2>1
<1>11. Members(kept[N]) = Members(q) \cap W
  <2>1. ASSUME NEW c \in Members(kept[N]) PROVE c \in Members(q) /\ c \in W
    <3>1. PICK i \in 1..Len(kept[N]) : c = kept[N][i]
      BY DEF Members
    <3>2. PICK j \in 1..N : kept[N][i] = q[j] /\ q[j] \in W
      BY <1>10
    <3> QED BY <3>1, <3>2 DEF Members
  <2>2. ASSUME NEW c \in Members(q), c \in W PROVE c \in Members(kept[N])
    <3>1. PICK j \in 1..N : c = q[j]
      BY DEF Members
    <3>2. PICK i \in 1..Len(kept[N]) : kept[N][i] = q[j]
      BY <1>10, <2>2, <3>1
    <3> QED BY <3>1, <3>2 DEF Members
  <2> QED BY <2>1, <2>2
<1>12. /\ kept[N] \in Seq(S)
       /\ \A i1, i2 \in 1..Len(kept[N]) : i1 < i2 =>
             \E j1, j2 \in 1..Len(q) : j1 < j2 /\ kept[N][i1] = q[j1] /\ kept[N][i2] = q[j2]
  BY <1>10, Zenon
<1> HIDE DEF N, Sofar, G
<1> DEFINE K == Kept(q, W)
<1>13. K = kept[N]
  BY <1>6
<1> HIDE DEF K
<1>14. K \in Seq(S) /\ Members(K) = Members(q) \cap W
  BY <1>11, <1>12, <1>13
<1>15. \A i1, i2 \in 1..Len(K) : i1 < i2 =>
           \E j1, j2 \in 1..Len(q) : j1 < j2 /\ K[i1] = q[j1] /\ K[i2] = q[j2]
  <2> SUFFICES ASSUME NEW i1 \in 1..Len(K), NEW i2 \in 1..Len(K), i1 < i2
               PROVE  \E j1, j2 \in 1..Len(q) : j1 < j2 /\ K[i1] = q[j1] /\ K[i2] = q[j2]
    OBVIOUS
  <2>1. i1 \in 1..Len(kept[N]) /\ i2 \in 1..Len(kept[N])
    BY <1>13
  <2>2. PICK j1 \in 1..Len(q), j2 \in 1..Len(q) :
            j1 < j2 /\ kept[N][i1] = q[j1] /\ kept[N][i2] = q[j2]
    BY <1>12, <2>1
  <2> QED BY <1>13, <2>2
<1> QED BY <1>14, <1>15 DEF K

\* q2 consists of elements of q, each taken at most once.
Embeds(q2, q, g) ==
    /\ g \in [1..Len(q2) -> 1..Len(q)]
    /\ \A i \in 1..Len(q2) : q2[i] = q[g[i]]
    /\ \A i, j \in 1..Len(q2) : i < j => g[i] < g[j]

\* The scan keeps each element at most once.
LEMMA KeptEmbeds ==
    ASSUME NEW S, NEW q \in Seq(S), NEW W
    PROVE  \E g : Embeds(Kept(q, W), q, g)
<1> DEFINE N == Len(q)
<1>1. N \in Nat /\ \A n \in 1..N : q[n] \in S
  OBVIOUS
<1>2. PICK kept :
          /\ Kept(q, W) = kept[N]
          /\ kept[0] = <<>>
          /\ \A n \in 1..N :
                kept[n] = IF q[n] \in W THEN Append(kept[n - 1], q[n]) ELSE kept[n - 1]
  BY KeptUnfolds
<1> DEFINE Sofar(n, g) ==
        /\ kept[n] \in Seq(S)
        /\ g \in [1..Len(kept[n]) -> 1..n]
        /\ \A i \in 1..Len(kept[n]) : kept[n][i] = q[g[i]]
        /\ \A i, j \in 1..Len(kept[n]) : i < j => g[i] < g[j]
<1> DEFINE G == {n \in Nat : n <= N => \E g : Sofar(n, g)}
<1>3. 0 \in G
  <2>1. Sofar(0, [i \in 1..0 |-> i])
    BY <1>2
  <2> QED BY <2>1
<1>4. ASSUME NEW m \in Nat, m \in G PROVE m + 1 \in G
  <2> SUFFICES ASSUME m + 1 <= N PROVE \E g : Sofar(m + 1, g)
    <3> HIDE DEF Sofar
    <3> QED OBVIOUS
  <2>1. PICK g : Sofar(m, g)
    BY <1>1, <1>4
  <2>2. kept[m + 1] = IF q[m + 1] \in W THEN Append(kept[m], q[m + 1]) ELSE kept[m]
    BY <1>1, <1>2
  <2>3. CASE q[m + 1] \notin W
    <3>1. g \in [1..Len(kept[m + 1]) -> 1..(m + 1)]
      BY <2>1, <2>2, <2>3
    <3>2. Sofar(m + 1, g)
      BY <2>1, <2>2, <2>3, <3>1
    <3> QED BY <3>2
  <2>4. CASE q[m + 1] \in W
    <3>1. PICK l \in Nat : l = Len(kept[m])
      BY <2>1
    <3>2. /\ kept[m + 1] \in Seq(S) /\ Len(kept[m + 1]) = l + 1
          /\ \A i \in 1..l : kept[m + 1][i] = kept[m][i]
          /\ kept[m + 1][l + 1] = q[m + 1]
      BY <1>1, <2>1, <2>2, <2>4, <3>1
    <3> DEFINE h == [i \in 1..(l + 1) |-> IF i = l + 1 THEN m + 1 ELSE g[i]]
    <3>3. \A i \in 1..(l + 1) : i \in 1..l \/ i = l + 1
      OBVIOUS
    <3>4. h[l + 1] = m + 1 /\ \A i \in 1..l : h[i] = g[i] /\ g[i] \in 1..m
      <4>1. g \in [1..l -> 1..m]
        BY <2>1, <3>1
      <4>2. l + 1 \in 1..(l + 1) /\ \A i \in 1..l : i \in 1..(l + 1) /\ i # l + 1
        OBVIOUS
      <4> QED BY <4>1, <4>2
    <3>5. h \in [1..(l + 1) -> 1..(m + 1)]
      BY <3>3, <3>4
    <3> HIDE DEF h
    <3>6. \A i \in 1..(l + 1) : kept[m + 1][i] = q[h[i]]
      BY <2>1, <3>1, <3>2, <3>3, <3>4
    <3>7. \A i, j \in 1..(l + 1) : i < j => h[i] < h[j]
      BY <2>1, <3>1, <3>3, <3>4
    <3>8. Sofar(m + 1, h)
      BY <3>2, <3>5, <3>6, <3>7
    <3> QED BY <3>8
  <2> QED BY <2>3, <2>4
<1>5. \E g : Sofar(N, g)
  <2>1. N \in G
    <3> HIDE DEF G, N
    <3> QED BY <1>1, <1>3, <1>4, SetInduction
  <2> HIDE DEF Sofar
  <2> QED BY <1>1, <2>1
<1> QED BY <1>2, <1>5 DEF Embeds
=============================================================================
