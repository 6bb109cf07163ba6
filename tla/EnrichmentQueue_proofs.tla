----------------------- MODULE EnrichmentQueue_proofs -----------------------
(***************************************************************************)
(* The commands of FileEnrichment, queued and issued: what it means that   *)
(* they account for the Files that are loading and for the pending cache   *)
(* update, and what renaming, dropping, adding, inserting, issuing and     *)
(* completing commands does to those accounts. Nothing here depends on the *)
(* rest of a Session.                                                      *)
(***************************************************************************)
EXTENDS FileEnrichment, Queues_proofs, FiniteSetTheorems, SequenceTheorems, TLAPS

Text == SUBSET File

\* The commands of every kind; left is what keeps a worker busy for an earlier Session.
Command ==
    [type : {"enrich"}, epoch : Nat, file : File, speculative : BOOLEAN, search : BOOLEAN]
    \cup [type : {"build"}, epoch : Nat, file : File, speculative : BOOLEAN,
          result : {"ready", "failed"}, base : Text, range : Text, hold : BOOLEAN,
          fresh : BOOLEAN, view : Text \cup {None}]
    \cup [type : {"cache"}, epoch : Nat, base : Text, range : Text, wanted : BOOLEAN,
          fresh : BOOLEAN, view : Text \cup {None}]
    \cup [type : {"scan"}, epoch : Nat, file : File, current : BOOLEAN]
    \cup [type : {"left"}, epoch : Nat]

\* The commands of a kind, among those queued and issued.
Fetching(e, f) == {c \in Command : c.type \in {"enrich", "build"} /\ c.epoch = e /\ c.file = f}
WantedCaches(e) == {c \in Command : c.type = "cache" /\ c.epoch = e /\ c.wanted}

\* At most one command of S is queued or issued.
AtMostOne(q, iss, S) ==
    /\ \A i, j \in 1..Len(q) : q[i] \in S /\ q[j] \in S => i = j
    /\ \A c, d \in iss \cap S : c = d
    /\ \A i \in 1..Len(q), c \in iss : ~(q[i] \in S /\ c \in S)

\* The speculative reads, queued and issued.
SpeculativeAt(q) == {i \in 1..Len(q) : IsSpeculative(q[i])}
SpeculativeIn(iss) == {c \in iss : IsSpeculative(c)}

\* Commands of earlier Sessions are reads, none that is queued of a Review search,
\* and the work that keeps a worker busy.
Earlier(c) == c.type \in {"enrich", "left"}
\* The queue and the issued commands of Session e: one worker builds or scans, and
\* the speculative reads of all Sessions are within their bound.
Queue(q, iss, e) ==
    /\ q \in Seq(Command) /\ iss \in SUBSET Command /\ IsFiniteSet(iss)
    /\ \A c \in Members(q) \cup iss : c.epoch <= e /\ (c.epoch # e => Earlier(c))
    /\ \A c \in Members(q) : c.epoch # e /\ c.type = "enrich" => ~c.search
    /\ \A c, d \in iss : c.type # "enrich" /\ d.type # "enrich" => c = d
    /\ Cardinality(SpeculativeAt(q)) + Cardinality(SpeculativeIn(iss)) <= MaxSpeculative

\* A File has one read or build if it is loading, and none otherwise.
Loads(q, iss, e, loading) ==
    \A f \in File :
        /\ AtMostOne(q, iss, Fetching(e, f))
        /\ f \in loading <=> \E c \in Members(q) \cup iss : c \in Fetching(e, f)

\* A cache update that is pending has one build that is wanted, for its range.
Caches(q, iss, e, update) ==
    /\ AtMostOne(q, iss, WantedCaches(e))
    /\ update # None <=> \E c \in Members(q) \cup iss : c \in WantedCaches(e)
    /\ \A c \in Members(q) \cup iss : c \in WantedCaches(e) => c.range = update

-----------------------------------------------------------------------------
(* Counting.                                                               *)

\* A set that maps one to one into a finite set is no larger.
LEMMA CountInjection ==
    ASSUME NEW S, NEW T, IsFiniteSet(T), NEW h \in [S -> T],
           \A x, y \in S : h[x] = h[y] => x = y
    PROVE  IsFiniteSet(S) /\ Cardinality(S) <= Cardinality(T)
<1>1. h \in Injection(S, T)
  BY DEF Injection, IsInjective
<1> QED BY <1>1, FS_Injection

\* A set that a finite set covers is no larger.
LEMMA CountSurjection ==
    ASSUME NEW S, NEW T, IsFiniteSet(S), NEW h \in [S -> T],
           \A y \in T : \E x \in S : h[x] = y
    PROVE  IsFiniteSet(T) /\ Cardinality(T) <= Cardinality(S)
<1>1. h \in Surjection(S, T)
  BY DEF Surjection
<1> QED BY <1>1, FS_Surjection

\* The speculative reads that are queued, and those issued, can be counted.
LEMMA SpeculativeFinite ==
    ASSUME NEW q \in Seq(Command), NEW iss, IsFiniteSet(iss)
    PROVE  /\ IsFiniteSet(SpeculativeAt(q)) /\ IsFiniteSet(SpeculativeIn(iss))
           /\ Cardinality(SpeculativeAt(q)) \in Nat /\ Cardinality(SpeculativeIn(iss)) \in Nat
<1>1. IsFiniteSet(1..Len(q))
  BY FS_Interval
<1>2. SpeculativeAt(q) \in SUBSET (1..Len(q)) /\ SpeculativeIn(iss) \in SUBSET iss
  BY DEF SpeculativeAt, SpeculativeIn
<1> QED BY <1>1, <1>2, FS_Subset, FS_CardinalityType

\* No more speculative reads are queued if each is one that was.
LEMMA FewerQueued ==
    ASSUME NEW q \in Seq(Command), NEW q2 \in Seq(Command),
           NEW h \in [1..Len(q2) -> Int],
           \A i \in 1..Len(q2) : IsSpeculative(q2[i]) => h[i] \in 1..Len(q) /\ IsSpeculative(q[h[i]]),
           \A i, j \in 1..Len(q2) : h[i] = h[j] => i = j
    PROVE  Cardinality(SpeculativeAt(q2)) <= Cardinality(SpeculativeAt(q))
<1>1. IsFiniteSet(SpeculativeAt(q))
  BY SpeculativeFinite, FS_EmptySet
<1> DEFINE g == [i \in SpeculativeAt(q2) |-> h[i]]
<1>2. g \in [SpeculativeAt(q2) -> SpeculativeAt(q)]
  BY DEF SpeculativeAt
<1>3. \A i, j \in SpeculativeAt(q2) : g[i] = g[j] => i = j
  BY DEF SpeculativeAt
<1> HIDE DEF g
<1> QED BY <1>1, <1>2, <1>3, CountInjection

\* No more speculative reads are issued if each is one that was.
LEMMA FewerIssued ==
    ASSUME NEW iss, IsFiniteSet(iss), NEW iss2, SpeculativeIn(iss2) \subseteq SpeculativeIn(iss)
    PROVE  Cardinality(SpeculativeIn(iss2)) <= Cardinality(SpeculativeIn(iss))
<1>1. SpeculativeIn(iss) \in SUBSET iss /\ SpeculativeIn(iss2) \in SUBSET SpeculativeIn(iss)
  BY DEF SpeculativeIn
<1> QED BY <1>1, FS_Subset

-----------------------------------------------------------------------------
(* Commands.                                                               *)

\* What the fields of a command are.
LEMMA CommandIs ==
    ASSUME NEW c \in Command
    PROVE  /\ c.type \in {"enrich", "build", "cache", "scan", "left"} /\ c.epoch \in Nat
           /\ c.type \in {"enrich", "build", "scan"} => c.file \in File
           /\ c.type \in {"enrich", "build"} => c.speculative \in BOOLEAN
           /\ c.type = "enrich" => c.search \in BOOLEAN
           /\ c.type = "build" => c.result \in {"ready", "failed"} /\ c.hold \in BOOLEAN
           /\ c.type = "cache" => c.wanted \in BOOLEAN
           /\ IsBuild(c) => /\ c.base \in Text /\ c.range \in Text /\ c.fresh \in BOOLEAN
                            /\ c.view \in Text \cup {None}
  BY DEF Command, IsBuild

\* F replaces a command by one of the same kind, for the same File and Session.
Renames(F) ==
    /\ F \in [Command -> Command]
    /\ \A c \in Command :
          /\ F[c].type = c.type /\ F[c].epoch = c.epoch
          /\ c.type \in {"enrich", "build", "scan"} => F[c].file = c.file
          /\ c.type = "enrich" => (F[c].search => c.search)
          /\ IsSpeculative(F[c]) => F[c] = c

\* F leaves the cache updates and their ranges alone.
RenamesCaches(F) ==
    \A c \in Command : c.type = "cache" => F[c].wanted = c.wanted /\ F[c].range = c.range

Mapped(q, F) == [i \in 1..Len(q) |-> F[q[i]]]
Image(iss, F) == {F[c] : c \in iss}

\* A queue with every command renamed.
LEMMA MappedIs ==
    ASSUME NEW q \in Seq(Command), NEW F \in [Command -> Command]
    PROVE  /\ Mapped(q, F) \in Seq(Command) /\ Len(Mapped(q, F)) = Len(q)
           /\ \A i \in 1..Len(q) : Mapped(q, F)[i] = F[q[i]] /\ q[i] \in Command
           /\ Members(Mapped(q, F)) = {F[c] : c \in Members(q)}
<1>1. \A i \in 1..Len(q) : q[i] \in Command /\ F[q[i]] \in Command
  OBVIOUS
<1>2. Mapped(q, F) \in Seq(Command) /\ Len(Mapped(q, F)) = Len(q)
  BY <1>1 DEF Mapped
<1>3. \A i \in 1..Len(q) : Mapped(q, F)[i] = F[q[i]]
  BY DEF Mapped
<1> QED BY <1>1, <1>2, <1>3 DEF Members

\* The parts of Queue.
LEMMA QueueIs ==
    ASSUME NEW q, NEW iss, NEW e, Queue(q, iss, e)
    PROVE  /\ q \in Seq(Command) /\ iss \in SUBSET Command /\ IsFiniteSet(iss)
           /\ Members(q) \in SUBSET Command
           /\ \A c \in Members(q) \cup iss : c.epoch <= e /\ (c.epoch # e => Earlier(c))
           /\ \A c \in Members(q) : c.epoch # e /\ c.type = "enrich" => ~c.search
           /\ \A c, d \in iss : c.type # "enrich" /\ d.type # "enrich" => c = d
  BY DEF Queue, Members

\* A queue with no more speculative reads is as well bounded.
LEMMA QueueFrom ==
    ASSUME NEW q, NEW iss, NEW e, Queue(q, iss, e),
           NEW q2 \in Seq(Command), NEW iss2 \in SUBSET Command, NEW e2, IsFiniteSet(iss2),
           \A c \in Members(q2) \cup iss2 : c.epoch <= e2 /\ (c.epoch # e2 => Earlier(c)),
           \A c \in Members(q2) : c.epoch # e2 /\ c.type = "enrich" => ~c.search,
           \A c, d \in iss2 : c.type # "enrich" /\ d.type # "enrich" => c = d,
           Cardinality(SpeculativeAt(q2)) <= Cardinality(SpeculativeAt(q)),
           Cardinality(SpeculativeIn(iss2)) <= Cardinality(SpeculativeIn(iss))
    PROVE  Queue(q2, iss2, e2)
<1>1. /\ Cardinality(SpeculativeAt(q)) + Cardinality(SpeculativeIn(iss)) <= MaxSpeculative
      /\ q \in Seq(Command) /\ IsFiniteSet(iss)
  BY DEF Queue
<1>2. MaxSpeculative \in Nat
  BY BoundsAssumption
<1>3. Cardinality(SpeculativeAt(q2)) + Cardinality(SpeculativeIn(iss2)) <= MaxSpeculative
  BY <1>1, <1>2, SpeculativeFinite
<1> QED BY <1>3 DEF Queue

\* The issued commands renamed.
LEMMA ImageIs ==
    ASSUME NEW iss, iss \in SUBSET Command, IsFiniteSet(iss), NEW F \in [Command -> Command]
    PROVE  Image(iss, F) \in SUBSET Command /\ IsFiniteSet(Image(iss, F))
<1>1. PICK iss2 : iss2 = Image(iss, F)
  OBVIOUS
<1> DEFINE h == [c \in iss |-> F[c]]
<1>2. h \in [iss -> iss2] /\ \A d \in iss2 : \E c \in iss : h[c] = d
  BY <1>1 DEF Image
<1> HIDE DEF h
<1>3. IsFiniteSet(iss2)
  BY <1>2, CountSurjection
<1>4. iss2 \in SUBSET Command
  BY <1>1 DEF Image
<1> QED BY <1>1, <1>3, <1>4

\* Renaming commands keeps the queue well-formed and its bound.
LEMMA RemapQueue ==
    ASSUME NEW q, NEW iss, NEW e \in Nat, Queue(q, iss, e), NEW F, NEW G, Renames(F), Renames(G)
    PROVE  Queue(Mapped(q, F), Image(iss, G), e)
<1>1. /\ q \in Seq(Command) /\ iss \in SUBSET Command /\ IsFiniteSet(iss)
      /\ Members(q) \in SUBSET Command
  BY QueueIs
<1>2. PICK q2 : q2 = Mapped(q, F)
  OBVIOUS
<1>3. PICK iss2 : iss2 = Image(iss, G)
  OBVIOUS
<1>0. F \in [Command -> Command] /\ G \in [Command -> Command]
  BY DEF Renames
<1>4. /\ q2 \in Seq(Command) /\ Len(q2) = Len(q)
      /\ \A i \in 1..Len(q) : q2[i] = F[q[i]] /\ q[i] \in Command
      /\ Members(q2) = {F[c] : c \in Members(q)}
  BY <1>0, <1>1, <1>2, MappedIs
<1>5. iss2 \in SUBSET Command /\ IsFiniteSet(iss2)
  BY <1>0, <1>1, <1>3, ImageIs
<1>6. ASSUME NEW d \in Members(q2)
      PROVE  \E c \in Members(q) : c \in Command /\ d = F[c]
  BY <1>1, <1>4
<1>7. ASSUME NEW d \in iss2
      PROVE  \E c \in iss : c \in Command /\ d = G[c]
  BY <1>1, <1>3 DEF Image
<1>8. ASSUME NEW d \in Members(q2) \cup iss2 PROVE d.epoch <= e /\ (d.epoch # e => Earlier(d))
  <2>1. PICK c \in Members(q) \cup iss : d.epoch = c.epoch /\ d.type = c.type
    BY <1>6, <1>7, <1>8 DEF Renames
  <2> QED BY <2>1, QueueIs DEF Earlier
<1>9. ASSUME NEW d \in Members(q2), d.epoch # e, d.type = "enrich" PROVE ~d.search
  <2>1. PICK c \in Members(q) : c \in Command /\ d = F[c]
    BY <1>6
  <2>2. c.epoch # e /\ c.type = "enrich" /\ (d.search => c.search)
    BY <1>9, <2>1 DEF Renames
  <2> QED BY <2>1, <2>2, QueueIs
<1>10. ASSUME NEW c2 \in iss2, NEW d2 \in iss2, c2.type # "enrich", d2.type # "enrich"
       PROVE  c2 = d2
  <2>1. PICK c \in iss : c \in Command /\ c2 = G[c]
    BY <1>7
  <2>2. PICK d \in iss : d \in Command /\ d2 = G[d]
    BY <1>7
  <2>3. c.type # "enrich" /\ d.type # "enrich"
    BY <1>10, <2>1, <2>2 DEF Renames
  <2>4. c = d
    BY <2>3, QueueIs
  <2> QED BY <2>1, <2>2, <2>4
<1>11. Cardinality(SpeculativeAt(q2)) <= Cardinality(SpeculativeAt(q))
  <2> DEFINE h == [i \in 1..Len(q2) |-> i]
  <2>1. h \in [1..Len(q2) -> Int] /\ \A i, j \in 1..Len(q2) : h[i] = h[j] => i = j
    OBVIOUS
  <2>2. ASSUME NEW i \in 1..Len(q2), IsSpeculative(q2[i])
        PROVE  h[i] \in 1..Len(q) /\ IsSpeculative(q[h[i]])
    <3>1. h[i] = i /\ i \in 1..Len(q)
      BY <1>4
    <3>2. q2[i] = F[q[i]] /\ q[i] \in Command
      BY <1>4, <3>1
    <3>3. q2[i] = q[i]
      BY <2>2, <3>2 DEF Renames
    <3> QED BY <2>2, <3>1, <3>3
  <2> HIDE DEF h
  <2> QED BY <1>1, <1>4, <2>1, <2>2, FewerQueued
<1>12. SpeculativeIn(iss2) \subseteq SpeculativeIn(iss)
  <2> SUFFICES ASSUME NEW d \in iss2, IsSpeculative(d) PROVE d \in SpeculativeIn(iss)
    BY DEF SpeculativeIn
  <2>1. PICK c \in iss : c \in Command /\ d = G[c]
    BY <1>7
  <2>2. d = c
    BY <2>1 DEF Renames
  <2> QED BY <2>1, <2>2 DEF SpeculativeIn
<1>13. Cardinality(SpeculativeIn(iss2)) <= Cardinality(SpeculativeIn(iss))
  BY <1>1, <1>12, FewerIssued
<1>15. Queue(q2, iss2, e)
  BY <1>4, <1>5, <1>8, <1>9, <1>10, <1>11, <1>13, QueueFrom
<1> QED BY <1>2, <1>3, <1>15

\* What renaming does to a kind of commands it neither adds to nor removes from.
LEMMA RemapOne ==
    ASSUME NEW q \in Seq(Command), NEW iss \in SUBSET Command, NEW S,
           NEW F \in [Command -> Command], NEW G \in [Command -> Command],
           \A c \in Command : F[c] \in S => c \in S,
           \A c \in Command : G[c] \in S => c \in S,
           AtMostOne(q, iss, S)
    PROVE  AtMostOne(Mapped(q, F), Image(iss, G), S)
<1>1. PICK q2 : q2 = Mapped(q, F)
  OBVIOUS
<1>2. PICK iss2 : iss2 = Image(iss, G)
  OBVIOUS
<1>3. Len(q2) = Len(q) /\ \A i \in 1..Len(q) : q2[i] = F[q[i]] /\ q[i] \in Command
  BY <1>1, MappedIs
<1>4. \A d \in iss2 : \E c \in iss : c \in Command /\ d = G[c]
  BY <1>2 DEF Image
<1>5. \A i, j \in 1..Len(q2) : q2[i] \in S /\ q2[j] \in S => i = j
  BY <1>3 DEF AtMostOne
<1>6. ASSUME NEW c2 \in iss2 \cap S, NEW d2 \in iss2 \cap S PROVE c2 = d2
  <2>1. PICK c \in iss : c \in Command /\ c2 = G[c]
    BY <1>4
  <2>2. PICK d \in iss : d \in Command /\ d2 = G[d]
    BY <1>4
  <2>3. c \in S /\ d \in S
    BY <2>1, <2>2
  <2>4. c = d
    BY <2>3 DEF AtMostOne
  <2> QED BY <2>1, <2>2, <2>4
<1>7. ASSUME NEW i \in 1..Len(q2), NEW d \in iss2, q2[i] \in S, d \in S PROVE FALSE
  <2>1. PICK c \in iss : c \in Command /\ d = G[c]
    BY <1>4
  <2>2. q[i] \in S /\ c \in S /\ i \in 1..Len(q)
    BY <1>3, <1>7, <2>1
  <2> QED BY <2>2 DEF AtMostOne
<1>8. AtMostOne(q2, iss2, S)
  BY <1>5, <1>6, <1>7 DEF AtMostOne
<1> QED BY <1>1, <1>2, <1>8

\* Renaming keeps a command's kind.
LEMMA RenamedKind ==
    ASSUME NEW F, Renames(F), NEW c \in Command, NEW e
    PROVE  /\ F[c] \in Command
           /\ \A f : F[c] \in Fetching(e, f) <=> c \in Fetching(e, f)
           /\ RenamesCaches(F) => (F[c] \in WantedCaches(e) <=> c \in WantedCaches(e))
<1>1. F[c] \in Command /\ F[c].type = c.type /\ F[c].epoch = c.epoch
  BY DEF Renames
<1>2. c.type \in {"enrich", "build"} => F[c].file = c.file
  BY DEF Renames
<1>3. RenamesCaches(F) => (c.type = "cache" => F[c].wanted = c.wanted)
  BY DEF RenamesCaches
<1> QED BY <1>1, <1>2, <1>3 DEF Fetching, WantedCaches

\* A kind that renaming keeps has members before exactly if it has after.
LEMMA RemapMembers ==
    ASSUME NEW q \in Seq(Command), NEW iss \in SUBSET Command, NEW S,
           NEW F \in [Command -> Command], NEW G \in [Command -> Command],
           \A c \in Command : F[c] \in S <=> c \in S,
           \A c \in Command : G[c] \in S <=> c \in S
    PROVE  (\E c \in Members(Mapped(q, F)) \cup Image(iss, G) : c \in S)
               <=> (\E c \in Members(q) \cup iss : c \in S)
<1>1. Members(Mapped(q, F)) = {F[c] : c \in Members(q)}
  BY MappedIs
<1>2. Members(q) \in SUBSET Command
  BY DEF Members
<1>3. PICK A : A = Members(Mapped(q, F)) \cup Image(iss, G)
  OBVIOUS
<1>4. PICK B : B = Members(q) \cup iss
  OBVIOUS
<1>5. \A a \in A : \E c \in B : c \in Command /\ (a = F[c] \/ a = G[c])
  BY <1>1, <1>2, <1>3, <1>4 DEF Image
<1>6. \A c \in B : c \in Command /\ (F[c] \in A \/ G[c] \in A)
  BY <1>1, <1>2, <1>3, <1>4 DEF Image
<1>7. ASSUME NEW a \in A, a \in S PROVE \E c \in B : c \in S
  <2>1. PICK c \in B : c \in Command /\ (a = F[c] \/ a = G[c])
    BY <1>5
  <2> QED BY <1>7, <2>1
<1>8. ASSUME NEW c \in B, c \in S PROVE \E a \in A : a \in S
  <2>1. F[c] \in S /\ G[c] \in S /\ (F[c] \in A \/ G[c] \in A)
    BY <1>6, <1>8
  <2> QED BY <2>1
<1> QED BY <1>3, <1>4, <1>7, <1>8

\* Renaming keeps the reads and builds of every File.
LEMMA RemapLoads ==
    ASSUME NEW q, NEW iss, NEW e, NEW loading, Queue(q, iss, e), Loads(q, iss, e, loading),
           NEW F, NEW G, Renames(F), Renames(G)
    PROVE  Loads(Mapped(q, F), Image(iss, G), e, loading)
<1>1. q \in Seq(Command) /\ iss \in SUBSET Command
  BY QueueIs
<1>2. F \in [Command -> Command] /\ G \in [Command -> Command]
  BY DEF Renames
<1> SUFFICES ASSUME NEW f \in File
             PROVE  /\ AtMostOne(Mapped(q, F), Image(iss, G), Fetching(e, f))
                    /\ f \in loading <=>
                          \E c \in Members(Mapped(q, F)) \cup Image(iss, G) : c \in Fetching(e, f)
  BY DEF Loads
<1>3. PICK S : S = Fetching(e, f)
  OBVIOUS
<1>4. \A c \in Command : (F[c] \in S <=> c \in S) /\ (G[c] \in S <=> c \in S)
  BY <1>3, RenamedKind
<1>5. AtMostOne(q, iss, S) /\ (f \in loading <=> \E c \in Members(q) \cup iss : c \in S)
  BY <1>3 DEF Loads
<1>6. AtMostOne(Mapped(q, F), Image(iss, G), S)
  BY <1>1, <1>2, <1>4, <1>5, RemapOne
<1>7. (\E c \in Members(Mapped(q, F)) \cup Image(iss, G) : c \in S)
          <=> (\E c \in Members(q) \cup iss : c \in S)
  BY <1>1, <1>2, <1>4, RemapMembers
<1> QED BY <1>3, <1>5, <1>6, <1>7

\* Renaming keeps the wanted cache update.
LEMMA RemapCaches ==
    ASSUME NEW q, NEW iss, NEW e, NEW update, Queue(q, iss, e), Caches(q, iss, e, update),
           NEW F, NEW G, Renames(F), Renames(G), RenamesCaches(F), RenamesCaches(G)
    PROVE  Caches(Mapped(q, F), Image(iss, G), e, update)
<1>1. q \in Seq(Command) /\ iss \in SUBSET Command /\ Members(q) \in SUBSET Command
  BY QueueIs
<1>2. F \in [Command -> Command] /\ G \in [Command -> Command]
  BY DEF Renames
<1>3. PICK S : S = WantedCaches(e)
  OBVIOUS
<1>4. \A c \in Command : (F[c] \in S <=> c \in S) /\ (G[c] \in S <=> c \in S)
  BY <1>3, RenamedKind
<1>5. /\ AtMostOne(q, iss, S) /\ (update # None <=> \E c \in Members(q) \cup iss : c \in S)
      /\ \A c \in Members(q) \cup iss : c \in S => c.range = update
  BY <1>3 DEF Caches
<1>6. AtMostOne(Mapped(q, F), Image(iss, G), S)
  BY <1>1, <1>2, <1>4, <1>5, RemapOne
<1>7. (\E c \in Members(Mapped(q, F)) \cup Image(iss, G) : c \in S)
          <=> (\E c \in Members(q) \cup iss : c \in S)
  BY <1>1, <1>2, <1>4, RemapMembers
<1>8. ASSUME NEW d \in Members(Mapped(q, F)) \cup Image(iss, G), d \in S PROVE d.range = update
  <2>1. PICK c \in Members(q) \cup iss : c \in Command /\ (d = F[c] \/ d = G[c])
    BY <1>1, <1>2, <1>8, MappedIs DEF Image
  <2>2. c \in S
    BY <1>4, <1>8, <2>1
  <2>3. c.range = update /\ c.type = "cache"
    BY <1>3, <1>5, <2>1, <2>2 DEF WantedCaches
  <2> QED BY <2>1, <2>3 DEF RenamesCaches
<1> QED BY <1>3, <1>5, <1>6, <1>7, <1>8 DEF Caches

-----------------------------------------------------------------------------
(* A queue that loses commands.                                            *)

\* Dropping queued commands keeps the queue well-formed.
LEMMA KeptQueue ==
    ASSUME NEW q, NEW iss, NEW e, Queue(q, iss, e), NEW W
    PROVE  Queue(Kept(q, W), iss, e)
<1>1. q \in Seq(Command)
  BY QueueIs
<1>2. PICK q2 : q2 = Kept(q, W)
  OBVIOUS
<1>3. q2 \in Seq(Command) /\ Members(q2) \subseteq Members(q)
  BY <1>1, <1>2, KeptIs
<1>4. Cardinality(SpeculativeAt(q2)) <= Cardinality(SpeculativeAt(q))
  <2>1. PICK h : Embeds(q2, q, h)
    BY <1>1, <1>2, KeptEmbeds
  <2>2. h \in [1..Len(q2) -> Int] /\ \A i \in 1..Len(q2) : h[i] \in 1..Len(q) /\ q2[i] = q[h[i]]
    BY <2>1 DEF Embeds
  <2>3. \A i, j \in 1..Len(q2) : h[i] = h[j] => i = j
    <3>1. \A i, j \in 1..Len(q2) : i < j => h[i] < h[j]
      BY <2>1 DEF Embeds
    <3> QED BY <2>2, <3>1
  <2> QED BY <1>1, <1>3, <2>2, <2>3, FewerQueued
<1>5. Queue(q2, iss, e)
  <2>1. iss \in SUBSET Command /\ IsFiniteSet(iss)
    BY QueueIs
  <2>2. \A c \in Members(q2) \cup iss : c.epoch <= e /\ (c.epoch # e => Earlier(c))
    BY <1>3, QueueIs
  <2>3. \A c \in Members(q2) : c.epoch # e /\ c.type = "enrich" => ~c.search
    BY <1>3, QueueIs
  <2>4. \A c, d \in iss : c.type # "enrich" /\ d.type # "enrich" => c = d
    BY QueueIs
  <2>5. Cardinality(SpeculativeIn(iss)) <= Cardinality(SpeculativeIn(iss))
    BY <1>1, <2>1, SpeculativeFinite
  <2> QED BY <1>3, <1>4, <2>1, <2>2, <2>3, <2>4, <2>5, QueueFrom
<1> QED BY <1>2, <1>5

\* Dropping queued commands adds to no kind.
LEMMA KeptOne ==
    ASSUME NEW q \in Seq(Command), NEW iss, NEW S, NEW W, AtMostOne(q, iss, S)
    PROVE  AtMostOne(Kept(q, W), iss, S)
<1>1. PICK q2 : q2 = Kept(q, W)
  OBVIOUS
<1>2. PICK h : Embeds(q2, q, h)
  BY <1>1, KeptEmbeds
<1>3. /\ \A i \in 1..Len(q2) : h[i] \in 1..Len(q) /\ q2[i] = q[h[i]]
      /\ \A i, j \in 1..Len(q2) : i < j => h[i] < h[j]
  BY <1>2 DEF Embeds
<1>4. Len(q2) \in Nat
  BY <1>1, KeptIs
<1>5. \A i, j \in 1..Len(q2) : q2[i] \in S /\ q2[j] \in S => i = j
  <2> SUFFICES ASSUME NEW i \in 1..Len(q2), NEW j \in 1..Len(q2), q2[i] \in S, q2[j] \in S, i < j
               PROVE  FALSE
    BY <1>4
  <2>1. h[i] = h[j]
    BY <1>3 DEF AtMostOne
  <2> QED BY <1>3, <2>1
<1>6. \A i \in 1..Len(q2), c \in iss : ~(q2[i] \in S /\ c \in S)
  BY <1>3 DEF AtMostOne
<1>7. \A c, d \in iss \cap S : c = d
  BY DEF AtMostOne
<1>8. AtMostOne(q2, iss, S)
  BY <1>5, <1>6, <1>7 DEF AtMostOne
<1> QED BY <1>1, <1>8

\* What a queued and an issued command of a kind of which there is at most one are.
LEMMA TheOnlyOne ==
    ASSUME NEW q, NEW iss, NEW S, AtMostOne(q, iss, S)
    PROVE  /\ \A c, d \in Members(q) \cup iss : c \in S /\ d \in S => c = d
           /\ \A c \in Members(q) : c \in S => c \notin iss
  BY DEF AtMostOne, Members

\* The Files whose read or build is dropped stop loading, the others go on.
LEMMA KeptLoads ==
    ASSUME NEW q, NEW iss, NEW e, NEW loading, Queue(q, iss, e), Loads(q, iss, e, loading),
           NEW W, NEW left,
           \A f \in File : f \in left <=>
               f \in loading /\ ~\E c \in Members(q) : c \notin W /\ c \in Fetching(e, f)
    PROVE  Loads(Kept(q, W), iss, e, left)
<1>1. q \in Seq(Command)
  BY QueueIs
<1>2. Members(Kept(q, W)) = Members(q) \cap W
  BY <1>1, KeptIs
<1> SUFFICES ASSUME NEW f \in File
             PROVE  /\ AtMostOne(Kept(q, W), iss, Fetching(e, f))
                    /\ f \in left <=>
                          \E c \in Members(Kept(q, W)) \cup iss : c \in Fetching(e, f)
  BY DEF Loads
<1>3. PICK S : S = Fetching(e, f)
  OBVIOUS
<1>4. AtMostOne(q, iss, S) /\ (f \in loading <=> \E c \in Members(q) \cup iss : c \in S)
  BY <1>3 DEF Loads
<1>5. AtMostOne(Kept(q, W), iss, S)
  BY <1>1, <1>4, KeptOne
<1>6. /\ \A c, d \in Members(q) \cup iss : c \in S /\ d \in S => c = d
      /\ \A c \in Members(q) : c \in S => c \notin iss
  BY <1>4, TheOnlyOne
<1>7. f \in left <=> \E c \in (Members(q) \cap W) \cup iss : c \in S
  BY <1>3, <1>4, <1>6
<1> QED BY <1>2, <1>3, <1>5, <1>7

\* Dropping other commands keeps the wanted cache update.
LEMMA KeptCaches ==
    ASSUME NEW q, NEW iss, NEW e, NEW update, Queue(q, iss, e), Caches(q, iss, e, update),
           NEW W, \A c \in Members(q) : c \in WantedCaches(e) => c \in W
    PROVE  Caches(Kept(q, W), iss, e, update)
<1>1. q \in Seq(Command)
  BY QueueIs
<1>2. Members(Kept(q, W)) = Members(q) \cap W
  BY <1>1, KeptIs
<1>3. AtMostOne(q, iss, WantedCaches(e))
  BY DEF Caches
<1>4. AtMostOne(Kept(q, W), iss, WantedCaches(e))
  BY <1>1, <1>3, KeptOne
<1> QED BY <1>2, <1>4 DEF Caches

-----------------------------------------------------------------------------
(* A queue that gets one more command.                                     *)

\* A command of this Session that is no speculative read is queued.
LEMMA AppendQueue ==
    ASSUME NEW q, NEW iss, NEW e, Queue(q, iss, e), NEW c \in Command, c.epoch = e,
           ~IsSpeculative(c)
    PROVE  Queue(Append(q, c), iss, e)
<1>1. q \in Seq(Command) /\ iss \in SUBSET Command /\ IsFiniteSet(iss)
  BY QueueIs
<1>2. PICK q2 : q2 = Append(q, c)
  OBVIOUS
<1>3. q2 \in Seq(Command) /\ Members(q2) = Members(q) \cup {c}
  BY <1>1, <1>2, AppendMembers
<1>4. /\ Len(q2) = Len(q) + 1 /\ Len(q) \in Nat
      /\ \A i \in 1..Len(q) : q2[i] = q[i]
      /\ q2[Len(q) + 1] = c
  BY <1>1, <1>2
<1>5. Cardinality(SpeculativeAt(q2)) <= Cardinality(SpeculativeAt(q))
  <2>1. SpeculativeAt(q2) \in SUBSET SpeculativeAt(q)
    <3> SUFFICES ASSUME NEW i \in 1..Len(q2), IsSpeculative(q2[i])
                 PROVE  i \in 1..Len(q) /\ IsSpeculative(q[i])
      BY DEF SpeculativeAt
    <3>1. i # Len(q) + 1
      BY <1>4
    <3>2. i \in 1..Len(q)
      BY <1>4, <3>1
    <3> QED BY <1>4, <3>2
  <2> QED BY <1>1, <2>1, SpeculativeFinite, FS_Subset
<1>6. Queue(q2, iss, e)
  <2>1. c.epoch <= e
    BY CommandIs
  <2>2. \A d \in Members(q2) \cup iss : d.epoch <= e /\ (d.epoch # e => Earlier(d))
    BY <1>3, <2>1, QueueIs
  <2>3. \A d \in Members(q2) : d.epoch # e /\ d.type = "enrich" => ~d.search
    BY <1>3, QueueIs
  <2>4. \A b, d \in iss : b.type # "enrich" /\ d.type # "enrich" => b = d
    BY QueueIs
  <2>5. Cardinality(SpeculativeIn(iss)) <= Cardinality(SpeculativeIn(iss))
    BY <1>1, SpeculativeFinite
  <2> QED BY <1>1, <1>3, <1>5, <2>2, <2>3, <2>4, <2>5, QueueFrom
<1> QED BY <1>2, <1>6

\* Appending to a kind that has none, or of another kind.
LEMMA AppendOne ==
    ASSUME NEW q \in Seq(Command), NEW iss, NEW S, NEW c \in Command, AtMostOne(q, iss, S),
           c \in S => \A d \in Members(q) \cup iss : d \notin S
    PROVE  AtMostOne(Append(q, c), iss, S)
<1>1. PICK q2 : q2 = Append(q, c)
  OBVIOUS
<1>2. /\ Len(q2) = Len(q) + 1 /\ Len(q) \in Nat
      /\ \A i \in 1..Len(q) : q2[i] = q[i]
      /\ q2[Len(q) + 1] = c
  BY <1>1
<1>3. \A i \in 1..Len(q2) : (i \in 1..Len(q) /\ q2[i] = q[i]) \/ (i = Len(q) + 1 /\ q2[i] = c)
  BY <1>2
<1>4. \A i \in 1..Len(q) : q[i] \in Members(q)
  BY DEF Members
<1>5. \A i, j \in 1..Len(q2) : q2[i] \in S /\ q2[j] \in S => i = j
  BY <1>3, <1>4 DEF AtMostOne
<1>6. \A i \in 1..Len(q2), d \in iss : ~(q2[i] \in S /\ d \in S)
  BY <1>3, <1>4 DEF AtMostOne
<1>7. \A b, d \in iss \cap S : b = d
  BY DEF AtMostOne
<1>8. AtMostOne(q2, iss, S)
  BY <1>5, <1>6, <1>7 DEF AtMostOne
<1> QED BY <1>1, <1>8

\* A build or read of a File that is not loading.
LEMMA AppendLoads ==
    ASSUME NEW q, NEW iss, NEW e, NEW loading, Queue(q, iss, e), Loads(q, iss, e, loading),
           NEW g \in File, NEW c \in Command, c \in Fetching(e, g), g \notin loading
    PROVE  Loads(Append(q, c), iss, e, loading \cup {g})
<1>1. q \in Seq(Command)
  BY QueueIs
<1>2. Members(Append(q, c)) = Members(q) \cup {c}
  BY <1>1, AppendMembers
<1> SUFFICES ASSUME NEW f \in File
             PROVE  /\ AtMostOne(Append(q, c), iss, Fetching(e, f))
                    /\ f \in loading \cup {g} <=>
                          \E d \in Members(Append(q, c)) \cup iss : d \in Fetching(e, f)
  BY DEF Loads
<1>3. PICK S : S = Fetching(e, f)
  OBVIOUS
<1>4. AtMostOne(q, iss, S) /\ (f \in loading <=> \E d \in Members(q) \cup iss : d \in S)
  BY <1>3 DEF Loads
<1>5. c \in S <=> f = g
  BY <1>3 DEF Fetching
<1>6. AtMostOne(Append(q, c), iss, S)
  BY <1>1, <1>4, <1>5, AppendOne
<1> QED BY <1>2, <1>3, <1>4, <1>5, <1>6

\* A command that is no read and no build changes nothing for the Files.
LEMMA AppendOther ==
    ASSUME NEW q, NEW iss, NEW e, NEW loading, Queue(q, iss, e), Loads(q, iss, e, loading),
           NEW c \in Command, c.type \notin {"enrich", "build"}
    PROVE  Loads(Append(q, c), iss, e, loading)
<1>1. q \in Seq(Command)
  BY QueueIs
<1>2. Members(Append(q, c)) = Members(q) \cup {c}
  BY <1>1, AppendMembers
<1>3. \A f : c \notin Fetching(e, f)
  BY DEF Fetching
<1>4. \A f \in File : AtMostOne(Append(q, c), iss, Fetching(e, f))
  BY <1>1, <1>3, AppendOne DEF Loads
<1> QED BY <1>2, <1>3, <1>4 DEF Loads

\* A command that is no cache update changes nothing for it.
LEMMA AppendCaches ==
    ASSUME NEW q, NEW iss, NEW e, NEW update, Queue(q, iss, e), Caches(q, iss, e, update),
           NEW c \in Command, c.type # "cache"
    PROVE  Caches(Append(q, c), iss, e, update)
<1>1. q \in Seq(Command)
  BY QueueIs
<1>2. Members(Append(q, c)) = Members(q) \cup {c}
  BY <1>1, AppendMembers
<1>3. c \notin WantedCaches(e)
  BY DEF WantedCaches
<1>4. AtMostOne(Append(q, c), iss, WantedCaches(e))
  BY <1>1, <1>3, AppendOne DEF Caches
<1> QED BY <1>2, <1>3, <1>4 DEF Caches

-----------------------------------------------------------------------------
(* A command that is no longer issued.                                     *)

\* A completion keeps the queue well-formed.
LEMMA ConsumeQueue ==
    ASSUME NEW q, NEW iss, NEW e, Queue(q, iss, e), NEW c
    PROVE  Queue(q, iss \ {c}, e)
<1>1. q \in Seq(Command) /\ iss \in SUBSET Command /\ IsFiniteSet(iss)
  BY QueueIs
<1>2. PICK iss2 : iss2 = iss \ {c}
  OBVIOUS
<1>3. iss2 \in SUBSET Command /\ IsFiniteSet(iss2) /\ iss2 \subseteq iss
  BY <1>1, <1>2, FS_RemoveElement
<1>4. SpeculativeIn(iss2) \subseteq SpeculativeIn(iss)
  BY <1>3 DEF SpeculativeIn
<1>5. Cardinality(SpeculativeIn(iss2)) <= Cardinality(SpeculativeIn(iss))
  BY <1>1, <1>4, FewerIssued
<1>6. Cardinality(SpeculativeAt(q)) <= Cardinality(SpeculativeAt(q))
  BY <1>1, SpeculativeFinite
<1>7. \A d \in Members(q) \cup iss2 : d.epoch <= e /\ (d.epoch # e => Earlier(d))
  BY <1>3, QueueIs
<1>8. \A d \in Members(q) : d.epoch # e /\ d.type = "enrich" => ~d.search
  BY QueueIs
<1>9. \A b, d \in iss2 : b.type # "enrich" /\ d.type # "enrich" => b = d
  BY <1>3, QueueIs
<1>10. Queue(q, iss2, e)
  BY <1>1, <1>3, <1>5, <1>6, <1>7, <1>8, <1>9, QueueFrom
<1> QED BY <1>2, <1>10

\* With its read or build consumed a File has none left.
LEMMA ConsumeLoads ==
    ASSUME NEW q, NEW iss, NEW e, NEW loading, Loads(q, iss, e, loading), NEW c \in iss
    PROVE  /\ \A g \in File : c \in Fetching(e, g) =>
                 g \in loading /\ Loads(q, iss \ {c}, e, loading \ {g})
           /\ (\A g \in File : c \notin Fetching(e, g)) => Loads(q, iss \ {c}, e, loading)
<1>1. \A S : AtMostOne(q, iss, S) => AtMostOne(q, iss \ {c}, S)
  BY DEF AtMostOne
<1>2. ASSUME NEW g \in File, c \in Fetching(e, g)
      PROVE  g \in loading /\ Loads(q, iss \ {c}, e, loading \ {g})
  <2>1. g \in loading
    BY <1>2 DEF Loads
  <2>2. ASSUME NEW f \in File, f # g PROVE c \notin Fetching(e, f)
    BY <1>2, <2>2 DEF Fetching
  <2>3. \A d \in Members(q) \cup (iss \ {c}) : d \notin Fetching(e, g)
    <3>1. AtMostOne(q, iss, Fetching(e, g))
      BY DEF Loads
    <3>2. /\ \A b, d \in Members(q) \cup iss :
                b \in Fetching(e, g) /\ d \in Fetching(e, g) => b = d
          /\ \A d \in Members(q) : d \in Fetching(e, g) => d \notin iss
      BY <3>1, TheOnlyOne
    <3> QED BY <1>2, <3>2
  <2> QED BY <1>1, <2>1, <2>2, <2>3 DEF Loads
<1>3. ASSUME \A g \in File : c \notin Fetching(e, g) PROVE Loads(q, iss \ {c}, e, loading)
  BY <1>1, <1>3 DEF Loads
<1> QED BY <1>2, <1>3

\* With its build consumed a cache update has none left.
LEMMA ConsumeCaches ==
    ASSUME NEW q, NEW iss, NEW e, NEW update, Caches(q, iss, e, update), NEW c \in iss
    PROVE  /\ c \in WantedCaches(e) =>
                 update # None /\ c.range = update /\ Caches(q, iss \ {c}, e, None)
           /\ c \notin WantedCaches(e) => Caches(q, iss \ {c}, e, update)
<1>1. \A S : AtMostOne(q, iss, S) => AtMostOne(q, iss \ {c}, S)
  BY DEF AtMostOne
<1>2. ASSUME c \in WantedCaches(e)
      PROVE  update # None /\ c.range = update /\ Caches(q, iss \ {c}, e, None)
  <2>1. update # None /\ c.range = update
    BY <1>2 DEF Caches
  <2>2. \A d \in Members(q) \cup (iss \ {c}) : d \notin WantedCaches(e)
    <3>1. AtMostOne(q, iss, WantedCaches(e))
      BY DEF Caches
    <3>2. /\ \A b, d \in Members(q) \cup iss :
                b \in WantedCaches(e) /\ d \in WantedCaches(e) => b = d
          /\ \A d \in Members(q) : d \in WantedCaches(e) => d \notin iss
      BY <3>1, TheOnlyOne
    <3> QED BY <1>2, <3>2
  <2> QED BY <1>1, <2>1, <2>2 DEF Caches
<1>3. ASSUME c \notin WantedCaches(e) PROVE Caches(q, iss \ {c}, e, update)
  BY <1>1, <1>3 DEF Caches
<1> QED BY <1>2, <1>3

-----------------------------------------------------------------------------
(* New reads in the queue.                                                 *)

\* q2 is q with the commands of new behind its first at ones.
IsInsert(q2, q, at, new) ==
    /\ q \in Seq(Command) /\ q2 \in Seq(Command) /\ new \in Seq(Command)
    /\ at \in 0..Len(q)
    /\ Len(q2) = Len(q) + Len(new)
    /\ \A i \in 1..at : q2[i] = q[i]
    /\ \A i \in 1..Len(new) : q2[at + i] = new[i]
    /\ \A i \in (at + 1)..Len(q) : q2[Len(new) + i] = q[i]

\* Where a command of q2 comes from.
From(q, at, new, i) == IF i <= at THEN i ELSE i - Len(new)
IsNew(at, new, i) == at < i /\ i <= at + Len(new)

\* Every command of q2 is a new one or comes from q, and none twice.
LEMMA InsertIs ==
    ASSUME NEW q2, NEW q, NEW at, NEW new, IsInsert(q2, q, at, new)
    PROVE  /\ \A i \in 1..Len(q2) :
                 IF IsNew(at, new, i) THEN i - at \in 1..Len(new) /\ q2[i] = new[i - at]
                 ELSE From(q, at, new, i) \in 1..Len(q) /\ q2[i] = q[From(q, at, new, i)]
           /\ \A i, j \in 1..Len(q2) : ~IsNew(at, new, i) /\ ~IsNew(at, new, j)
                 /\ From(q, at, new, i) = From(q, at, new, j) => i = j
           /\ Members(q2) = Members(q) \cup Members(new)
<1>1. PICK n \in Nat : n = Len(new)
  BY DEF IsInsert
<1>2. PICK m \in Nat : m = Len(q)
  BY DEF IsInsert
<1>3. at \in 0..m /\ Len(q2) = m + n
  BY <1>1, <1>2 DEF IsInsert
<1>4. /\ \A i \in 1..at : q2[i] = q[i]
      /\ \A i \in 1..n : q2[at + i] = new[i]
      /\ \A i \in (at + 1)..m : q2[n + i] = q[i]
  BY <1>1, <1>2 DEF IsInsert
<1>5. ASSUME NEW i \in 1..(m + n)
      PROVE  IF IsNew(at, new, i) THEN i - at \in 1..n /\ q2[i] = new[i - at]
             ELSE From(q, at, new, i) \in 1..m /\ q2[i] = q[From(q, at, new, i)]
  <2>1. CASE i <= at
    BY <1>1, <1>3, <1>4, <2>1 DEF IsNew, From
  <2>2. CASE at < i /\ i <= at + n
    <3>1. i - at \in 1..n /\ at + (i - at) = i
      BY <1>3, <2>2
    <3> QED BY <1>1, <1>4, <2>2, <3>1 DEF IsNew
  <2>3. CASE at + n < i
    <3>1. i - n \in (at + 1)..m /\ n + (i - n) = i /\ i - n \in 1..m
      BY <1>3, <2>3
    <3>2. ~(i <= at)
      BY <1>3, <2>3
    <3>3. ~IsNew(at, new, i) /\ From(q, at, new, i) = i - n
      <4>1. ~(i <= at + n)
        BY <1>3, <2>3
      <4> QED BY <1>1, <3>2, <4>1 DEF IsNew, From
    <3> QED BY <1>4, <3>1, <3>3
  <2> QED BY <1>3, <2>1, <2>2, <2>3
<1>6. \A i, j \in 1..(m + n) : ~IsNew(at, new, i) /\ ~IsNew(at, new, j)
          /\ From(q, at, new, i) = From(q, at, new, j) => i = j
  BY <1>1, <1>3 DEF IsNew, From
<1>7. Members(q2) \subseteq Members(q) \cup Members(new)
  BY <1>1, <1>2, <1>3, <1>5 DEF Members
<1>8. Members(q) \subseteq Members(q2)
  <2> SUFFICES ASSUME NEW i \in 1..m PROVE \E j \in 1..(m + n) : q2[j] = q[i]
    BY <1>1, <1>2, <1>3 DEF Members
  <2>1. CASE i <= at
    BY <1>3, <1>4, <2>1
  <2>2. CASE ~(i <= at)
    <3>1. n + i \in 1..(m + n) /\ i \in (at + 1)..m
      BY <1>3, <2>2
    <3> QED BY <1>4, <3>1
  <2> QED BY <2>1, <2>2
<1>9. Members(new) \subseteq Members(q2)
  <2> SUFFICES ASSUME NEW i \in 1..n PROVE \E j \in 1..(m + n) : q2[j] = new[i]
    BY <1>1, <1>2, <1>3 DEF Members
  <2>1. at + i \in 1..(m + n)
    BY <1>3
  <2> QED BY <1>4, <2>1
<1> QED BY <1>1, <1>2, <1>3, <1>5, <1>6, <1>7, <1>8, <1>9

\* Reads of Files that are not loading are put into the queue.
LEMMA InsertLoads ==
    ASSUME NEW q2, NEW q, NEW at, NEW new, IsInsert(q2, q, at, new),
           NEW iss, NEW e, NEW loading, Loads(q, iss, e, loading),
           NEW fs \in Seq(File), Len(new) = Len(fs),
           \A i \in 1..Len(fs) : new[i] \in Fetching(e, fs[i]) /\ fs[i] \notin loading,
           \A i, j \in 1..Len(fs) : fs[i] = fs[j] => i = j
    PROVE  Loads(q2, iss, e, loading \cup Members(fs))
<1>1. Members(q2) = Members(q) \cup Members(new)
  BY InsertIs
<1> SUFFICES ASSUME NEW f \in File
             PROVE  /\ AtMostOne(q2, iss, Fetching(e, f))
                    /\ f \in loading \cup Members(fs) <=>
                          \E d \in Members(q2) \cup iss : d \in Fetching(e, f)
  BY DEF Loads
<1>2. PICK S : S = Fetching(e, f)
  OBVIOUS
<1>3. AtMostOne(q, iss, S) /\ (f \in loading <=> \E d \in Members(q) \cup iss : d \in S)
  BY <1>2 DEF Loads
<1>4. \A i \in 1..Len(new) : new[i] \in S <=> fs[i] = f
  BY <1>2 DEF Fetching
<1>5. f \in Members(fs) <=> \E d \in Members(new) : d \in S
  BY <1>4 DEF Members
<1>6. f \in loading => f \notin Members(fs)
  BY DEF Members
<1>7. \A i, j \in 1..Len(q2) : q2[i] \in S /\ q2[j] \in S => i = j
  <2> SUFFICES ASSUME NEW i \in 1..Len(q2), NEW j \in 1..Len(q2), q2[i] \in S, q2[j] \in S
               PROVE  i = j
    OBVIOUS
  <2>1. \A k \in 1..Len(q2) : q2[k] \in S /\ IsNew(at, new, k) =>
            k - at \in 1..Len(fs) /\ fs[k - at] = f /\ f \notin loading
    BY <1>4, InsertIs
  <2>2. \A k \in 1..Len(q2) : q2[k] \in S /\ ~IsNew(at, new, k) =>
            From(q, at, new, k) \in 1..Len(q) /\ q[From(q, at, new, k)] \in S /\ f \in loading
    <3> SUFFICES ASSUME NEW k \in 1..Len(q2), q2[k] \in S, ~IsNew(at, new, k)
                 PROVE  From(q, at, new, k) \in 1..Len(q) /\ q[From(q, at, new, k)] \in S
                        /\ f \in loading
      OBVIOUS
    <3>1. From(q, at, new, k) \in 1..Len(q) /\ q[From(q, at, new, k)] \in S
      BY InsertIs
    <3> QED BY <1>3, <3>1 DEF Members
  <2>3. CASE IsNew(at, new, i) /\ IsNew(at, new, j)
    <3>1. i - at = j - at
      BY <2>1, <2>3
    <3>2. at \in Int
      BY DEF IsInsert
    <3> QED BY <3>1, <3>2
  <2>4. CASE ~IsNew(at, new, i) /\ ~IsNew(at, new, j)
    <3>1. From(q, at, new, i) = From(q, at, new, j)
      BY <1>3, <2>2, <2>4 DEF AtMostOne
    <3> QED BY <2>4, <3>1, InsertIs
  <2> QED BY <2>1, <2>2, <2>3, <2>4
<1>8. \A i \in 1..Len(q2), d \in iss : ~(q2[i] \in S /\ d \in S)
  <2> SUFFICES ASSUME NEW i \in 1..Len(q2), NEW d \in iss, q2[i] \in S, d \in S PROVE FALSE
    OBVIOUS
  <2>1. f \in loading
    BY <1>3
  <2>2. ~IsNew(at, new, i)
    <3> SUFFICES ASSUME IsNew(at, new, i) PROVE FALSE
      OBVIOUS
    <3>1. i - at \in 1..Len(new) /\ q2[i] = new[i - at]
      BY InsertIs
    <3> QED BY <1>4, <2>1, <3>1
  <2>3. From(q, at, new, i) \in 1..Len(q) /\ q[From(q, at, new, i)] \in S
    BY <2>2, InsertIs
  <2> QED BY <1>3, <2>3 DEF AtMostOne
<1>9. AtMostOne(q2, iss, S)
  BY <1>3, <1>7, <1>8 DEF AtMostOne
<1> QED BY <1>1, <1>2, <1>3, <1>5, <1>6, <1>9

\* Reads change nothing for the cache update.
LEMMA InsertCaches ==
    ASSUME NEW q2, NEW q, NEW at, NEW new, IsInsert(q2, q, at, new),
           NEW iss, NEW e, NEW update, Caches(q, iss, e, update),
           \A i \in 1..Len(new) : new[i].type # "cache"
    PROVE  Caches(q2, iss, e, update)
<1>1. Members(q2) = Members(q) \cup Members(new)
  BY InsertIs
<1>2. PICK S : S = WantedCaches(e)
  OBVIOUS
<1>3. \A i \in 1..Len(new) : new[i] \notin S
  BY <1>2 DEF WantedCaches
<1>4. \A d \in Members(new) : d \notin S
  BY <1>3 DEF Members
<1>5. \A i \in 1..Len(q2) : q2[i] \in S =>
          ~IsNew(at, new, i) /\ From(q, at, new, i) \in 1..Len(q) /\ q[From(q, at, new, i)] \in S
  BY <1>3, InsertIs
<1>6. AtMostOne(q, iss, S)
  BY <1>2 DEF Caches
<1>7. \A i, j \in 1..Len(q2) : q2[i] \in S /\ q2[j] \in S => i = j
  <2> SUFFICES ASSUME NEW i \in 1..Len(q2), NEW j \in 1..Len(q2), q2[i] \in S, q2[j] \in S
               PROVE  i = j
    OBVIOUS
  <2>1. From(q, at, new, i) = From(q, at, new, j)
    BY <1>5, <1>6 DEF AtMostOne
  <2> QED BY <1>5, <2>1, InsertIs
<1>8. AtMostOne(q2, iss, S)
  BY <1>5, <1>6, <1>7 DEF AtMostOne
<1> QED BY <1>1, <1>2, <1>4, <1>8 DEF Caches

\* Demand reads do not count.
LEMMA InsertQueue ==
    ASSUME NEW q2, NEW q, NEW at, NEW new, IsInsert(q2, q, at, new),
           NEW iss, NEW e, Queue(q, iss, e),
           \A i \in 1..Len(new) : new[i].epoch = e /\ ~IsSpeculative(new[i])
    PROVE  Queue(q2, iss, e)
<1>1. /\ q \in Seq(Command) /\ q2 \in Seq(Command) /\ new \in Seq(Command)
      /\ iss \in SUBSET Command /\ IsFiniteSet(iss)
  BY QueueIs DEF IsInsert
<1>2. Members(q2) = Members(q) \cup Members(new)
  BY InsertIs
<1>3. \A c \in Members(new) : c \in Command /\ c.epoch = e
  BY <1>1 DEF Members
<1>4. \A c \in Members(new) : c.epoch <= e
  BY <1>3, CommandIs
<1>5. Cardinality(SpeculativeAt(q2)) <= Cardinality(SpeculativeAt(q))
  <2> DEFINE h == [i \in 1..Len(q2) |-> IF IsNew(at, new, i) THEN Len(q) + i
                                        ELSE From(q, at, new, i)]
  <2>1. /\ h \in [1..Len(q2) -> Int]
        /\ \A i \in 1..Len(q2) : IsNew(at, new, i) => h[i] = Len(q) + i
        /\ \A i \in 1..Len(q2) : ~IsNew(at, new, i) => h[i] = From(q, at, new, i)
    <3>1. at \in Int /\ Len(new) \in Int /\ Len(q) \in Int
      BY <1>1 DEF IsInsert
    <3>2. \A i \in 1..Len(q2) : From(q, at, new, i) \in Int
      BY <3>1 DEF From
    <3> QED BY <3>1, <3>2
  <2> HIDE DEF h
  <2>2. \A i \in 1..Len(q2) : IsSpeculative(q2[i]) => h[i] \in 1..Len(q) /\ IsSpeculative(q[h[i]])
    <3> SUFFICES ASSUME NEW i \in 1..Len(q2), IsSpeculative(q2[i])
                 PROVE  h[i] \in 1..Len(q) /\ IsSpeculative(q[h[i]])
      OBVIOUS
    <3>1. ~IsNew(at, new, i)
      <4> SUFFICES ASSUME IsNew(at, new, i) PROVE FALSE
        OBVIOUS
      <4>1. i - at \in 1..Len(new) /\ q2[i] = new[i - at]
        BY InsertIs
      <4> QED BY <4>1
    <3>2. From(q, at, new, i) \in 1..Len(q) /\ q2[i] = q[From(q, at, new, i)]
      BY <3>1, InsertIs
    <3> QED BY <2>1, <3>1, <3>2
  <2>3. \A i, j \in 1..Len(q2) : h[i] = h[j] => i = j
    <3> SUFFICES ASSUME NEW i \in 1..Len(q2), NEW j \in 1..Len(q2), h[i] = h[j] PROVE i = j
      OBVIOUS
    <3>1. Len(q) \in Nat
      BY <1>1
    <3>2. \A k \in 1..Len(q2) : ~IsNew(at, new, k) => h[k] <= Len(q)
      <4> SUFFICES ASSUME NEW k \in 1..Len(q2), ~IsNew(at, new, k) PROVE h[k] <= Len(q)
        OBVIOUS
      <4>1. From(q, at, new, k) \in 1..Len(q)
        BY InsertIs
      <4> QED BY <2>1, <4>1
    <3>3. \A k \in 1..Len(q2) : IsNew(at, new, k) => h[k] > Len(q)
      BY <2>1, <3>1
    <3>4. CASE IsNew(at, new, i) /\ IsNew(at, new, j)
      BY <2>1, <3>1, <3>4
    <3>5. CASE ~IsNew(at, new, i) /\ ~IsNew(at, new, j)
      BY <2>1, <3>5, InsertIs
    <3> QED BY <2>1, <3>1, <3>2, <3>3, <3>4, <3>5
  <2> QED BY <1>1, <2>1, <2>2, <2>3, FewerQueued
<1>6. Queue(q2, iss, e)
  <2>2. \A d \in Members(q2) \cup iss : d.epoch <= e /\ (d.epoch # e => Earlier(d))
    BY <1>2, <1>3, <1>4, QueueIs
  <2>3. \A d \in Members(q2) : d.epoch # e /\ d.type = "enrich" => ~d.search
    BY <1>2, <1>3, QueueIs
  <2>4. \A b, d \in iss : b.type # "enrich" /\ d.type # "enrich" => b = d
    BY QueueIs
  <2>5. Cardinality(SpeculativeIn(iss)) <= Cardinality(SpeculativeIn(iss))
    BY <1>1, SpeculativeFinite
  <2> QED BY <1>1, <1>5, <2>2, <2>3, <2>4, <2>5, QueueFrom
<1> QED BY <1>6

\* Speculative reads go behind the others, as many as the bound allows.
LEMMA ExtendQueue ==
    ASSUME NEW q2, NEW q, NEW new, IsInsert(q2, q, Len(q), new),
           NEW iss, NEW e, Queue(q, iss, e),
           \A i \in 1..Len(new) : new[i].epoch = e,
           Len(new) + Cardinality(SpeculativeAt(q)) + Cardinality(SpeculativeIn(iss))
               <= MaxSpeculative
    PROVE  Queue(q2, iss, e)
<1>1. /\ q \in Seq(Command) /\ q2 \in Seq(Command) /\ new \in Seq(Command)
      /\ iss \in SUBSET Command /\ IsFiniteSet(iss)
  BY QueueIs DEF IsInsert
<1>2. Members(q2) = Members(q) \cup Members(new)
  BY InsertIs
<1>3. \A c \in Members(new) : c \in Command /\ c.epoch = e
  BY <1>1 DEF Members
<1>4. \A c \in Members(new) : c.epoch <= e
  BY <1>3, CommandIs
<1>5. PICK m \in Nat : m = Len(q)
  BY <1>1
<1>6. PICK n \in Nat : n = Len(new)
  BY <1>1
<1>7. SpeculativeAt(q2) \in SUBSET (SpeculativeAt(q) \cup ((m + 1)..(m + n)))
  <2> SUFFICES ASSUME NEW i \in 1..Len(q2), IsSpeculative(q2[i]), ~(i \in (m + 1)..(m + n))
               PROVE  i \in 1..m /\ IsSpeculative(q[i])
    BY <1>5 DEF SpeculativeAt
  <2>1. i \in 1..m
    BY <1>5, <1>6 DEF IsInsert
  <2>2. q2[i] = q[i]
    BY <1>5, <2>1 DEF IsInsert
  <2> QED BY <2>1, <2>2
<1>8. Cardinality(SpeculativeAt(q2)) <= Cardinality(SpeculativeAt(q)) + n
  <2>1. IsFiniteSet(SpeculativeAt(q)) /\ Cardinality(SpeculativeAt(q)) \in Nat
    BY <1>1, SpeculativeFinite
  <2>2. PICK R : R = (m + 1)..(m + n)
    OBVIOUS
  <2>3. IsFiniteSet(R) /\ Cardinality(R) = n
    BY <2>2, FS_Interval
  <2>4. PICK A : A = SpeculativeAt(q)
    OBVIOUS
  <2>5. IsFiniteSet(A \cup R) /\ Cardinality(A \cup R) = Cardinality(A) + n - Cardinality(A \cap R)
    BY <2>1, <2>3, <2>4, FS_Union
  <2>6. IsFiniteSet(A \cap R) /\ Cardinality(A \cap R) \in Nat
    <3>1. A \cap R \in SUBSET R
      OBVIOUS
    <3> QED BY <2>3, <3>1, FS_Subset, FS_CardinalityType
  <2>7. Cardinality(SpeculativeAt(q2)) <= Cardinality(A \cup R)
    BY <1>7, <2>2, <2>4, <2>5, FS_Subset
  <2>8. Cardinality(SpeculativeAt(q2)) \in Nat /\ Cardinality(A) \in Nat
    BY <1>1, <2>1, <2>4, SpeculativeFinite
  <2> QED BY <2>4, <2>5, <2>6, <2>7, <2>8
<1>9. Cardinality(SpeculativeAt(q2)) + Cardinality(SpeculativeIn(iss)) <= MaxSpeculative
  <2>1. /\ Cardinality(SpeculativeAt(q2)) \in Nat /\ Cardinality(SpeculativeAt(q)) \in Nat
        /\ Cardinality(SpeculativeIn(iss)) \in Nat
    BY <1>1, SpeculativeFinite
  <2>2. MaxSpeculative \in Nat
    BY BoundsAssumption
  <2> QED BY <1>6, <1>8, <2>1, <2>2
<1>10. \A d \in Members(q2) \cup iss : d.epoch <= e /\ (d.epoch # e => Earlier(d))
  BY <1>2, <1>3, <1>4, QueueIs
<1>11. \A d \in Members(q2) : d.epoch # e /\ d.type = "enrich" => ~d.search
  BY <1>2, <1>3, QueueIs
<1>12. \A b, d \in iss : b.type # "enrich" /\ d.type # "enrich" => b = d
  BY QueueIs
<1> QED BY <1>1, <1>9, <1>10, <1>11, <1>12 DEF Queue

-----------------------------------------------------------------------------
(* The first commands of the queue are issued.                             *)

\* F is what issuing a command makes of it.
Issues(F) ==
    /\ F \in [Command -> Command]
    /\ \A c \in Command :
          /\ F[c].type = c.type /\ F[c].epoch = c.epoch
          /\ c.type = "enrich" => F[c].file = c.file /\ F[c].speculative = c.speculative
          /\ c.type # "enrich" => F[c] = c

Rest(q, n) == SubSeq(q, n + 1, Len(q))
Taken(q, n, F) == {F[q[i]] : i \in 1..n}

\* What is left of a queue.
LEMMA RestIs ==
    ASSUME NEW q \in Seq(Command), NEW n \in 0..Len(q)
    PROVE  /\ Rest(q, n) \in Seq(Command) /\ Len(Rest(q, n)) = Len(q) - n
           /\ \A i \in 1..(Len(q) - n) : Rest(q, n)[i] = q[i + n]
           /\ Members(Rest(q, n)) = {q[i] : i \in (n + 1)..Len(q)}
<1>1. /\ Rest(q, n) \in Seq(Command) /\ Len(Rest(q, n)) = Len(q) - n
      /\ \A i \in 1..(Len(q) - n) : Rest(q, n)[i] = q[i + n]
  BY DEF Rest
<1>2. \A i \in (n + 1)..Len(q) : i - n \in 1..(Len(q) - n) /\ (i - n) + n = i
  OBVIOUS
<1>3. \A i \in 1..(Len(q) - n) : i + n \in (n + 1)..Len(q)
  OBVIOUS
<1>4. \A i \in (n + 1)..Len(q) : q[i] = Rest(q, n)[i - n]
  BY <1>1, <1>2
<1> QED BY <1>1, <1>2, <1>3, <1>4 DEF Members

\* Issuing moves a command and neither adds to nor removes from its kind.
LEMMA IssueOne ==
    ASSUME NEW q \in Seq(Command), NEW iss, NEW n \in 0..Len(q), NEW F, Issues(F), NEW S,
           \A c \in Command : F[c] \in S <=> c \in S,
           AtMostOne(q, iss, S)
    PROVE  /\ AtMostOne(Rest(q, n), iss \cup Taken(q, n, F), S)
           /\ (\E c \in Members(Rest(q, n)) \cup (iss \cup Taken(q, n, F)) : c \in S)
                 <=> (\E c \in Members(q) \cup iss : c \in S)
<1>1. PICK q2 : q2 = Rest(q, n)
  OBVIOUS
<1>2. PICK iss2 : iss2 = iss \cup Taken(q, n, F)
  OBVIOUS
<1>3. PICK m \in Nat : m = Len(q)
  OBVIOUS
<1>4. n \in 0..m /\ n \in Nat
  BY <1>3
<1>5. /\ Len(q2) = m - n /\ \A i \in 1..(m - n) : q2[i] = q[i + n]
      /\ Members(q2) = {q[i] : i \in (n + 1)..m}
  BY <1>1, <1>3, RestIs
<1>6. \A i \in 1..m : q[i] \in Command
  BY <1>3
<1>7. \A i, j \in 1..m : q[i] \in S /\ q[j] \in S => i = j
  BY <1>3 DEF AtMostOne
<1>8. \A i \in 1..m, c \in iss : ~(q[i] \in S /\ c \in S)
  BY <1>3 DEF AtMostOne
<1>9. \A c \in iss2 : c \in iss \/ \E i \in 1..n : c = F[q[i]]
  BY <1>2 DEF Taken
<1>10. \A i \in 1..n : F[q[i]] \in S => q[i] \in S /\ i \in 1..m
  BY <1>4, <1>6
<1>11. \A i, j \in 1..Len(q2) : q2[i] \in S /\ q2[j] \in S => i = j
  <2> SUFFICES ASSUME NEW i \in 1..(m - n), NEW j \in 1..(m - n), q2[i] \in S, q2[j] \in S
               PROVE  i = j
    BY <1>5
  <2>1. i + n \in 1..m /\ j + n \in 1..m
    BY <1>4
  <2>2. i + n = j + n
    BY <1>5, <1>7, <2>1
  <2> QED BY <1>4, <2>2
<1>12. \A c, d \in iss2 \cap S : c = d
  <2> SUFFICES ASSUME NEW c \in iss2, NEW d \in iss2, c \in S, d \in S PROVE c = d
    OBVIOUS
  <2>1. CASE c \in iss /\ d \in iss
    BY <2>1 DEF AtMostOne
  <2>2. CASE c \in iss /\ d \notin iss
    BY <1>8, <1>9, <1>10, <2>2
  <2>3. CASE c \notin iss /\ d \in iss
    BY <1>8, <1>9, <1>10, <2>3
  <2>4. CASE c \notin iss /\ d \notin iss
    <3>1. PICK i \in 1..n : c = F[q[i]]
      BY <1>9, <2>4
    <3>2. PICK j \in 1..n : d = F[q[j]]
      BY <1>9, <2>4
    <3>3. i = j
      BY <1>7, <1>10, <3>1, <3>2
    <3> QED BY <3>1, <3>2, <3>3
  <2> QED BY <2>1, <2>2, <2>3, <2>4
<1>13. \A i \in 1..Len(q2), c \in iss2 : ~(q2[i] \in S /\ c \in S)
  <2> SUFFICES ASSUME NEW i \in 1..(m - n), NEW c \in iss2, q2[i] \in S, c \in S PROVE FALSE
    BY <1>5
  <2>1. i + n \in 1..m /\ q[i + n] \in S
    BY <1>4, <1>5
  <2>2. c \notin iss
    BY <1>8, <2>1
  <2>3. PICK j \in 1..n : c = F[q[j]]
    BY <1>9, <2>2
  <2>4. q[j] \in S /\ j \in 1..m
    BY <1>10, <2>3
  <2>5. j = i + n
    BY <1>7, <2>1, <2>4
  <2> QED BY <1>4, <2>5
<1>14. AtMostOne(q2, iss2, S)
  BY <1>11, <1>12, <1>13 DEF AtMostOne
<1>15. ASSUME NEW c \in Members(q2) \cup iss2, c \in S
       PROVE  \E d \in Members(q) \cup iss : d \in S
  <2>1. CASE c \in Members(q2)
    <3>1. PICK i \in (n + 1)..m : c = q[i]
      BY <1>5, <2>1
    <3>2. i \in 1..m
      BY <1>4
    <3> QED BY <1>3, <1>15, <3>1, <3>2 DEF Members
  <2>2. CASE c \in iss
    BY <1>15, <2>2
  <2>3. CASE c \notin iss /\ c \notin Members(q2)
    <3>1. PICK i \in 1..n : c = F[q[i]]
      BY <1>9, <1>15, <2>3
    <3>2. q[i] \in S /\ i \in 1..m
      BY <1>10, <1>15, <3>1
    <3> QED BY <1>3, <3>2 DEF Members
  <2> QED BY <2>1, <2>2, <2>3
<1>16. ASSUME NEW d \in Members(q) \cup iss, d \in S
       PROVE  \E c \in Members(q2) \cup iss2 : c \in S
  <2>1. CASE d \in iss
    BY <1>2, <1>16, <2>1
  <2>2. CASE d \in Members(q)
    <3>1. PICK i \in 1..m : d = q[i]
      BY <1>3, <2>2 DEF Members
    <3>2. CASE i <= n
      <4>1. i \in 1..n /\ F[q[i]] \in S
        BY <1>4, <1>6, <1>16, <3>1, <3>2
      <4>2. F[q[i]] \in iss2
        BY <1>2, <4>1 DEF Taken
      <4> QED BY <4>1, <4>2
    <3>3. CASE ~(i <= n)
      <4>1. i \in (n + 1)..m
        BY <1>4, <3>3
      <4>2. d \in Members(q2)
        BY <1>5, <3>1, <4>1
      <4> QED BY <1>16, <4>2
    <3> QED BY <3>2, <3>3
  <2> QED BY <1>16, <2>1, <2>2
<1> QED BY <1>1, <1>2, <1>14, <1>15, <1>16

\* An issued command is of the kind it was queued as.
LEMMA IssuedKind ==
    ASSUME NEW F, Issues(F), NEW c \in Command, NEW e
    PROVE  /\ F[c] \in Command
           /\ IsSpeculative(F[c]) <=> IsSpeculative(c)
           /\ \A f : F[c] \in Fetching(e, f) <=> c \in Fetching(e, f)
           /\ F[c] \in WantedCaches(e) <=> c \in WantedCaches(e)
<1>1. F[c] \in Command
  BY DEF Issues
<1>2. CASE c.type # "enrich"
  <2>1. F[c] = c
    BY <1>2 DEF Issues
  <2> QED BY <2>1
<1>3. CASE c.type = "enrich"
  <2>1. /\ F[c].type = "enrich" /\ F[c].epoch = c.epoch
        /\ F[c].file = c.file /\ F[c].speculative = c.speculative
    BY <1>3 DEF Issues
  <2> QED BY <1>1, <1>3, <2>1 DEF IsSpeculative, Fetching, WantedCaches
<1> QED BY <1>2, <1>3

\* Issuing keeps the reads and builds of every File.
LEMMA IssueLoads ==
    ASSUME NEW q \in Seq(Command), NEW iss, NEW n \in 0..Len(q), NEW F, Issues(F), NEW e,
           NEW loading, Loads(q, iss, e, loading)
    PROVE  Loads(Rest(q, n), iss \cup Taken(q, n, F), e, loading)
<1> SUFFICES ASSUME NEW f \in File
             PROVE  /\ AtMostOne(Rest(q, n), iss \cup Taken(q, n, F), Fetching(e, f))
                    /\ f \in loading <=>
                          \E c \in Members(Rest(q, n)) \cup (iss \cup Taken(q, n, F)) :
                              c \in Fetching(e, f)
  BY DEF Loads
<1>1. PICK S : S = Fetching(e, f)
  OBVIOUS
<1>2. AtMostOne(q, iss, S) /\ (f \in loading <=> \E c \in Members(q) \cup iss : c \in S)
  BY <1>1 DEF Loads
<1>3. \A c \in Command : F[c] \in S <=> c \in S
  BY <1>1, IssuedKind
<1>4. /\ AtMostOne(Rest(q, n), iss \cup Taken(q, n, F), S)
      /\ (\E c \in Members(Rest(q, n)) \cup (iss \cup Taken(q, n, F)) : c \in S)
            <=> (\E c \in Members(q) \cup iss : c \in S)
  BY <1>2, <1>3, IssueOne
<1> QED BY <1>1, <1>2, <1>4

\* Issuing keeps the wanted cache update.
LEMMA IssueCaches ==
    ASSUME NEW q \in Seq(Command), NEW iss, NEW n \in 0..Len(q), NEW F, Issues(F), NEW e,
           NEW update, Caches(q, iss, e, update)
    PROVE  Caches(Rest(q, n), iss \cup Taken(q, n, F), e, update)
<1>1. PICK S : S = WantedCaches(e)
  OBVIOUS
<1>2. /\ AtMostOne(q, iss, S) /\ (update # None <=> \E c \in Members(q) \cup iss : c \in S)
      /\ \A c \in Members(q) \cup iss : c \in S => c.range = update
  BY <1>1 DEF Caches
<1>3. \A c \in Command : F[c] \in S <=> c \in S
  BY <1>1, IssuedKind
<1>4. /\ AtMostOne(Rest(q, n), iss \cup Taken(q, n, F), S)
      /\ (\E c \in Members(Rest(q, n)) \cup (iss \cup Taken(q, n, F)) : c \in S)
            <=> (\E c \in Members(q) \cup iss : c \in S)
  BY <1>2, <1>3, IssueOne
<1>5. ASSUME NEW c \in Members(Rest(q, n)) \cup (iss \cup Taken(q, n, F)), c \in S
      PROVE  c.range = update
  <2>1. Members(Rest(q, n)) \subseteq Members(q)
    <3>1. Members(Rest(q, n)) = {q[i] : i \in (n + 1)..Len(q)}
      BY RestIs
    <3>2. \A i \in (n + 1)..Len(q) : i \in 1..Len(q)
      OBVIOUS
    <3> QED BY <3>1, <3>2 DEF Members
  <2>2. CASE c \in Taken(q, n, F)
    <3>1. PICK i \in 1..n : c = F[q[i]]
      BY <2>2 DEF Taken
    <3>2. q[i] \in Command /\ q[i] \in Members(q)
      BY DEF Members
    <3>3. q[i].type = "cache"
      BY <1>1, <1>5, <3>1, <3>2 DEF Issues, WantedCaches
    <3>4. c = q[i]
      BY <3>1, <3>2, <3>3 DEF Issues
    <3> QED BY <1>2, <1>5, <3>2, <3>4
  <2>3. CASE c \in Members(q) \cup iss
    BY <1>2, <1>5, <2>3
  <2> QED BY <1>5, <2>1, <2>2, <2>3
<1> QED BY <1>1, <1>2, <1>4, <1>5 DEF Caches

\* One command of those issued may keep the worker busy.
LEMMA IssueQueue ==
    ASSUME NEW q, NEW iss, NEW e, Queue(q, iss, e), NEW n \in 0..Len(q), NEW F, Issues(F),
           \A i, j \in 1..n : q[i].type # "enrich" /\ q[j].type # "enrich" => i = j,
           \A i \in 1..n, c \in iss : ~(q[i].type # "enrich" /\ c.type # "enrich")
    PROVE  Queue(Rest(q, n), iss \cup Taken(q, n, F), e)
<1>1. /\ q \in Seq(Command) /\ iss \in SUBSET Command /\ IsFiniteSet(iss)
      /\ Cardinality(SpeculativeAt(q)) + Cardinality(SpeculativeIn(iss)) <= MaxSpeculative
  BY DEF Queue
<1>2. PICK q2 : q2 = Rest(q, n)
  OBVIOUS
<1>3. PICK T : T = Taken(q, n, F)
  OBVIOUS
<1>4. PICK m \in Nat : m = Len(q)
  BY <1>1
<1>5. n \in 0..m /\ n \in Nat
  BY <1>4
<1>6. /\ q2 \in Seq(Command) /\ Len(q2) = m - n /\ \A i \in 1..(m - n) : q2[i] = q[i + n]
      /\ Members(q2) = {q[i] : i \in (n + 1)..m}
  BY <1>1, <1>2, <1>4, RestIs
<1>7. \A i \in 1..n : i \in 1..m /\ q[i] \in Command /\ q[i] \in Members(q)
  BY <1>1, <1>4, <1>5 DEF Members
<1>8. Members(q2) \subseteq Members(q)
  BY <1>4, <1>5, <1>6 DEF Members
<1>9. T \in SUBSET Command
  BY <1>3, <1>7 DEF Taken, Issues
<1>10. \A d \in T : \E i \in 1..n : d = F[q[i]]
  BY <1>3 DEF Taken
<1> DEFINE P == {i \in 1..n : IsSpeculative(q[i])}
<1> DEFINE R == {i \in (n + 1)..m : IsSpeculative(q[i])}
<1>11. /\ IsFiniteSet(P) /\ IsFiniteSet(R) /\ IsFiniteSet(T)
       /\ Cardinality(P) \in Nat /\ Cardinality(R) \in Nat
  <2>1. IsFiniteSet(1..n) /\ IsFiniteSet((n + 1)..m)
    BY <1>5, FS_Interval
  <2>2. P \in SUBSET (1..n) /\ R \in SUBSET ((n + 1)..m)
    OBVIOUS
  <2> DEFINE h == [i \in 1..n |-> F[q[i]]]
  <2>3. h \in [1..n -> T] /\ \A d \in T : \E i \in 1..n : h[i] = d
    BY <1>3 DEF Taken
  <2> HIDE DEF h, P, R
  <2>4. IsFiniteSet(T)
    BY <2>1, <2>3, CountSurjection
  <2> QED BY <2>1, <2>2, <2>4, FS_Subset, FS_CardinalityType
<1>12. Cardinality(SpeculativeAt(q)) = Cardinality(P) + Cardinality(R)
  <2>1. SpeculativeAt(q) = P \cup R
    BY <1>4, <1>5 DEF SpeculativeAt
  <2>2. P \cap R = {}
    BY <1>5
  <2> HIDE DEF P, R
  <2>3. Cardinality(P \cap R) = 0
    BY <2>2, FS_EmptySet
  <2>4. Cardinality(P \cup R) = Cardinality(P) + Cardinality(R) - Cardinality(P \cap R)
    BY <1>11, FS_Union
  <2> QED BY <1>11, <2>1, <2>3, <2>4
<1>13. Cardinality(SpeculativeAt(q2)) <= Cardinality(R)
  <2> DEFINE h == [i \in SpeculativeAt(q2) |-> i + n]
  <2>1. \A i \in SpeculativeAt(q2) : i \in 1..(m - n) /\ i + n \in (n + 1)..m /\ IsSpeculative(q[i + n])
    BY <1>5, <1>6 DEF SpeculativeAt
  <2>2. h \in [SpeculativeAt(q2) -> R]
    BY <2>1
  <2>3. \A i, j \in SpeculativeAt(q2) : h[i] = h[j] => i = j
    BY <1>5, <2>1
  <2> HIDE DEF h, R
  <2> QED BY <1>11, <2>2, <2>3, CountInjection
<1>14. Cardinality(SpeculativeIn(iss \cup T)) <= Cardinality(SpeculativeIn(iss)) + Cardinality(P)
  <2>1. PICK A : A = SpeculativeIn(iss)
    OBVIOUS
  <2>2. PICK B : B = SpeculativeIn(T)
    OBVIOUS
  <2>3. SpeculativeIn(iss \cup T) = A \cup B
    BY <2>1, <2>2 DEF SpeculativeIn
  <2>4. IsFiniteSet(A) /\ IsFiniteSet(B) /\ Cardinality(A) \in Nat /\ Cardinality(B) \in Nat
    BY <1>1, <1>11, <2>1, <2>2, SpeculativeFinite
  <2>5. Cardinality(B) <= Cardinality(P)
    <3> DEFINE h == [i \in P |-> F[q[i]]]
    <3>1. \A i \in P : F[q[i]] \in B
      BY <1>3, <1>7, <2>2, IssuedKind DEF SpeculativeIn, Taken
    <3>2. \A d \in B : \E i \in P : F[q[i]] = d
      BY <1>7, <1>10, <2>2, IssuedKind DEF SpeculativeIn
    <3>3. h \in [P -> B] /\ \A d \in B : \E i \in P : h[i] = d
      BY <3>1, <3>2
    <3> HIDE DEF h, P
    <3> QED BY <1>11, <3>3, CountSurjection
  <2>6. Cardinality(A \cup B) = Cardinality(A) + Cardinality(B) - Cardinality(A \cap B)
    BY <2>4, FS_Union
  <2>7. Cardinality(A \cap B) \in Nat /\ IsFiniteSet(A \cup B)
    <3>1. A \cap B \in SUBSET A
      OBVIOUS
    <3> QED BY <2>4, <3>1, FS_Subset, FS_CardinalityType, FS_Union
  <2>8. Cardinality(A \cup B) \in Nat
    BY <2>7, FS_CardinalityType
  <2> HIDE DEF P
  <2>9. Cardinality(A \cup B) <= Cardinality(A) + Cardinality(P)
    BY <1>11, <2>4, <2>5, <2>6, <2>7, <2>8
  <2> QED BY <2>1, <2>3, <2>9
<1>15. IsFiniteSet(iss \cup T) /\ iss \cup T \in SUBSET Command
  BY <1>1, <1>9, <1>11, FS_Union
<1>16. Cardinality(SpeculativeAt(q2)) + Cardinality(SpeculativeIn(iss \cup T)) <= MaxSpeculative
  <2>1. /\ Cardinality(SpeculativeAt(q)) \in Nat /\ Cardinality(SpeculativeIn(iss)) \in Nat
        /\ Cardinality(SpeculativeAt(q2)) \in Nat /\ Cardinality(SpeculativeIn(iss \cup T)) \in Nat
    BY <1>1, <1>6, <1>15, SpeculativeFinite
  <2>2. MaxSpeculative \in Nat
    BY BoundsAssumption
  <2> HIDE DEF P, R
  <2> QED BY <1>1, <1>11, <1>12, <1>13, <1>14, <2>1, <2>2
<1>17. ASSUME NEW d \in Members(q2) \cup (iss \cup T)
       PROVE  d.epoch <= e /\ (d.epoch # e => Earlier(d))
  <2>1. CASE d \in Members(q) \cup iss
    BY <2>1, QueueIs
  <2>2. CASE d \in T
    <3>1. PICK i \in 1..n : d = F[q[i]]
      BY <1>10, <2>2
    <3>2. d.type = q[i].type /\ d.epoch = q[i].epoch
      BY <1>7, <3>1 DEF Issues
    <3> QED BY <1>7, <3>2, QueueIs DEF Earlier
  <2> QED BY <1>8, <1>17, <2>1, <2>2
<1>18. \A d \in Members(q2) : d.epoch # e /\ d.type = "enrich" => ~d.search
  BY <1>8, QueueIs
<1>19. ASSUME NEW b \in iss \cup T, NEW d \in iss \cup T, b.type # "enrich", d.type # "enrich"
       PROVE  b = d
  <2>1. ASSUME NEW x \in T, x.type # "enrich" PROVE \E i \in 1..n : x = q[i] /\ q[i].type # "enrich"
    <3>1. PICK i \in 1..n : x = F[q[i]]
      BY <1>10, <2>1
    <3>2. q[i].type # "enrich" /\ F[q[i]] = q[i]
      BY <1>7, <2>1, <3>1 DEF Issues
    <3> QED BY <3>1, <3>2
  <2>2. CASE b \in iss /\ d \in iss
    BY <1>19, <2>2, QueueIs
  <2>3. CASE b \in T /\ d \in T
    BY <1>19, <2>1, <2>3
  <2>4. CASE (b \in T /\ d \in iss) \/ (b \in iss /\ d \in T)
    BY <1>19, <2>1, <2>4
  <2> QED BY <1>19, <2>2, <2>3, <2>4
<1>20. Queue(q2, iss \cup T, e)
  BY <1>6, <1>15, <1>16, <1>17, <1>18, <1>19 DEF Queue
<1> QED BY <1>2, <1>3, <1>20
=============================================================================
