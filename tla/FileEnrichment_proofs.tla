----------------------- MODULE FileEnrichment_proofs -----------------------
(***************************************************************************)
(* Theorems about FileEnrichment: the type invariant, the bound of the     *)
(* speculative reads, that the Files that load are those with work under   *)
(* way, that the Frame shows what the Storage retains, and which Files an  *)
(* admission may evict.                                                    *)
(*                                                                         *)
(* All of them follow from one inductive invariant, IInv. Completions and  *)
(* admissions first, then one lemma for each action, then the theorems.    *)
(***************************************************************************)
EXTENDS EnrichmentHandlers_proofs

\* The inductive invariant.
IInv == J(p) /\ Focus(p)

-----------------------------------------------------------------------------
(* Completions.                                                            *)

\* A completion is consumed.
Without(s, c) == [s EXCEPT !.issued = @ \ {c}]

\* What a consumed completion leaves alone.
LEMMA WithoutIs ==
    ASSUME NEW s, Base(s), NEW c \in s.issued, NEW t, t = Without(s, c)
    PROVE  /\ Base(t) /\ Kin(s, t) /\ t \in Session /\ c \in Command
           /\ t.commands = s.commands /\ t.issued = s.issued \ {c}
           /\ t.status = s.status /\ t.held = s.held /\ t.cacheUpdate = s.cacheUpdate
           /\ t.searching = s.searching /\ t.acquired = s.acquired /\ t.scanned = s.scanned
           /\ Loading(t) = Loading(s) /\ All(t) \subseteq All(s)
           /\ c.type # "scan" \/ c.epoch # s.epoch =>
                 Leased(t) = Leased(s) /\ (Fresh(s) => Fresh(t))
<1>1. /\ s \in Session /\ s.issued \in SUBSET Command /\ Queue(s.commands, s.issued, s.epoch)
  BY SessionIs DEF Base
<1>2. PICK iss : iss = s.issued \ {c}
  OBVIOUS
<1>3. iss \in SUBSET Command
  BY <1>1, <1>2
<1>4. t = [s EXCEPT !.issued = iss]
  BY <1>2 DEF Without
<1>5. /\ t \in Session /\ t.commands = s.commands /\ t.issued = iss
      /\ t.status = s.status /\ t.cacheUpdate = s.cacheUpdate /\ t.held = s.held
      /\ t.epoch = s.epoch /\ t.cursor = s.cursor /\ t.focused = s.focused
      /\ t.frame = s.frame /\ t.shutdown = s.shutdown /\ t.raced = s.raced
      /\ t.lastUsed = s.lastUsed
      /\ t.searching = s.searching /\ t.acquired = s.acquired /\ t.scanned = s.scanned
  BY <1>1, <1>3, <1>4 DEF Session
<1>6. Kin(s, t) /\ Loading(t) = Loading(s)
  BY <1>5 DEF Kin, Retained, Loading
<1>7. Base(t)
  <2>1. Queue(s.commands, iss, s.epoch)
    BY <1>1, <1>2, ConsumeQueue
  <2> QED BY <1>5, <2>1 DEF Base
<1>8. All(t) \subseteq All(s)
  BY <1>2, <1>5 DEF All
<1>9. ASSUME c.type # "scan" \/ c.epoch # s.epoch
      PROVE  Leased(t) = Leased(s) /\ (Fresh(s) => Fresh(t))
  <2>1. Scans(t) = Scans(s)
    BY <1>2, <1>5, <1>9 DEF Scans, All, Ours
  <2>2. Leased(t) = Leased(s)
    BY <1>5, <2>1 DEF Leased
  <2> QED BY <1>6, <1>8, <2>2, FreshKept
<1> QED BY <1>1, <1>2, <1>5, <1>6, <1>7, <1>8, <1>9

\* The read or build of a File is consumed, or another command.
LEMMA WithoutLoads ==
    ASSUME NEW s, Base(s), LoadsOK(s), CachesOK(s), NEW c \in s.issued, NEW t, t = Without(s, c)
    PROVE  /\ c.type \in {"enrich", "build"} /\ c.epoch = s.epoch =>
                 /\ c.file \in File /\ c.file \in Loading(s)
                 /\ Loads(t.commands, t.issued, t.epoch, Loading(s) \ {c.file})
           /\ c.type \notin {"enrich", "build"} \/ c.epoch # s.epoch => LoadsOK(t)
           /\ c \in WantedCaches(s.epoch) =>
                 /\ s.cacheUpdate # None /\ c.range = s.cacheUpdate
                 /\ Caches(t.commands, t.issued, t.epoch, None)
           /\ c \notin WantedCaches(s.epoch) => CachesOK(t)
<1>1. /\ t.commands = s.commands /\ t.issued = s.issued \ {c} /\ t.epoch = s.epoch
      /\ t.cacheUpdate = s.cacheUpdate /\ Loading(t) = Loading(s) /\ c \in Command
  BY WithoutIs DEF Kin
<1>2. PICK q : q = s.commands
  OBVIOUS
<1>3. PICK iss : iss = s.issued
  OBVIOUS
<1>4. PICK e : e = s.epoch
  OBVIOUS
<1>5. PICK l : l = Loading(s)
  OBVIOUS
<1>6. PICK k : k = s.cacheUpdate
  OBVIOUS
<1>7. Loads(q, iss, e, l) /\ Caches(q, iss, e, k) /\ c \in iss
  BY <1>2, <1>3, <1>4, <1>5, <1>6 DEF LoadsOK, CachesOK
<1>8. /\ \A g \in File : c \in Fetching(e, g) => g \in l /\ Loads(q, iss \ {c}, e, l \ {g})
      /\ (\A g \in File : c \notin Fetching(e, g)) => Loads(q, iss \ {c}, e, l)
  BY <1>7, ConsumeLoads
<1>9. /\ c \in WantedCaches(e) => k # None /\ c.range = k /\ Caches(q, iss \ {c}, e, None)
      /\ c \notin WantedCaches(e) => Caches(q, iss \ {c}, e, k)
  BY <1>7, ConsumeCaches
<1>10. ASSUME c.type \in {"enrich", "build"}, c.epoch = s.epoch
       PROVE  /\ c.file \in File /\ c.file \in Loading(s)
              /\ Loads(t.commands, t.issued, t.epoch, Loading(s) \ {c.file})
  <2>1. PICK g \in File : g = c.file
    BY <1>1, <1>10, CommandIs
  <2>2. c \in Fetching(e, g)
    BY <1>1, <1>4, <1>10, <2>1 DEF Fetching
  <2>3. g \in l /\ Loads(q, iss \ {c}, e, l \ {g})
    BY <1>8, <2>2
  <2> QED BY <1>1, <1>2, <1>3, <1>4, <1>5, <2>1, <2>3
<1>11. ASSUME c.type \notin {"enrich", "build"} \/ c.epoch # s.epoch
       PROVE  LoadsOK(t)
  <2>1. \A g \in File : c \notin Fetching(e, g)
    BY <1>4, <1>11 DEF Fetching
  <2> QED BY <1>1, <1>2, <1>3, <1>4, <1>5, <1>8, <2>1 DEF LoadsOK
<1>12. ASSUME c \in WantedCaches(s.epoch)
       PROVE  /\ s.cacheUpdate # None /\ c.range = s.cacheUpdate
              /\ Caches(t.commands, t.issued, t.epoch, None)
  BY <1>1, <1>2, <1>3, <1>4, <1>6, <1>9, <1>12
<1>13. ASSUME c \notin WantedCaches(s.epoch)
       PROVE  CachesOK(t)
  BY <1>1, <1>2, <1>3, <1>4, <1>6, <1>9, <1>13 DEF CachesOK
<1> QED BY <1>10, <1>11, <1>12, <1>13

\* A completion that no longer applies is dropped.
LEMMA DroppedCompletion ==
    ASSUME NEW s, J(s), NEW c \in s.issued,
           \/ s.shutdown \/ c.epoch # s.epoch
           \/ c.type = "cache" /\ c \notin WantedCaches(s.epoch),
           NEW t, t = Without(s, c)
    PROVE  J(t) /\ Kin(s, t)
<1>1. Base(s)
  BY DEF J
<1>2. Base(t) /\ Kin(s, t)
  BY <1>1, WithoutIs
<1>3. FrameTrue(t) /\ t.shutdown = s.shutdown
  BY <1>2 DEF J, Kin, FrameTrue
<1>4. ASSUME ~s.shutdown PROVE LoadsOK(t) /\ CachesOK(t) /\ Fresh(t)
  <2>1. LoadsOK(s) /\ CachesOK(s) /\ Fresh(s)
    BY <1>4 DEF J
  <2>2. c.epoch # s.epoch \/ c.type = "cache"
    BY <1>4
  <2>3. c \notin WantedCaches(s.epoch)
    BY <1>4 DEF WantedCaches
  <2>4. Fresh(t)
    BY <1>1, <2>1, <2>2, WithoutIs
  <2> QED BY <1>1, <2>1, <2>2, <2>3, <2>4, WithoutLoads
<1> QED BY <1>2, <1>3, <1>4 DEF J

\* The read or the build of a File ends without its text: the File is pending again.
LEMMA GivenUp ==
    ASSUME NEW s, J(s), ~s.shutdown, NEW c \in s.issued, c.type \in {"enrich", "build"},
           c.epoch = s.epoch, NEW u, u = Without(s, c), NEW fs, fs = {c.file},
           NEW t, t = resetLoading(u, fs)
    PROVE  J(t) /\ Kin(s, t) /\ t.searching = s.searching
<1>1. Base(s) /\ LoadsOK(s) /\ CachesOK(s) /\ Fresh(s)
  BY DEF J
<1>3. /\ Base(u) /\ Kin(s, u) /\ u \in Session /\ Loading(u) = Loading(s)
      /\ u.searching = s.searching
  BY <1>1, WithoutIs
<1>4. c.type # "scan" /\ c \notin WantedCaches(s.epoch)
  BY DEF WantedCaches
<1>5. Fresh(u)
  BY <1>1, <1>4, WithoutIs
<1>6. /\ Loads(u.commands, u.issued, u.epoch, Loading(s) \ {c.file})
      /\ CachesOK(u)
  BY <1>1, <1>4, WithoutLoads
<1>9. /\ t \in Session
      /\ t.commands = u.commands /\ t.issued = u.issued /\ t.held = u.held
      /\ t.cacheUpdate = u.cacheUpdate /\ t.searching = u.searching
      /\ Kin(u, t) /\ Loading(t) = Loading(u) \ fs
  <2>1. u \in Session
    BY <1>3
  <2> QED BY <2>1, resetLoadingIs
<1>10. t.epoch = u.epoch
  BY <1>9 DEF Kin
<1>11. /\ Base(t) /\ All(t) = All(u) /\ Leased(t) = Leased(u)
       /\ CachesOK(t)
  BY <1>3, <1>6, <1>9, <1>10, SameQueue
<1>12. LoadsOK(t)
  BY <1>3, <1>6, <1>9, <1>10 DEF LoadsOK
<1>13. Fresh(t)
  BY <1>5, <1>9, <1>11, FreshKept
<1>14. Kin(s, t)
  BY <1>3, <1>9, KinTransitive
<1>15. FrameTrue(t)
  BY <1>14 DEF J, Kin, FrameTrue
<1> QED BY <1>3, <1>9, <1>11, <1>12, <1>13, <1>14, <1>15 DEF J

\* A File read, or a build that is out of date, is queued to be built.
LEMMA BuildQueued ==
    ASSUME NEW s, J(s), ~s.shutdown, NEW c \in s.issued, c.type \in {"enrich", "build"},
           c.epoch = s.epoch, NEW u, u = Without(s, c),
           NEW speculative \in BOOLEAN, NEW result \in {"ready", "failed"},
           NEW t, t = [u EXCEPT !.commands =
                          Append(@, EnrichmentBuild(u, c.file, speculative, result))]
    PROVE  J(t) /\ Kin(s, t)
<1>1. Base(s) /\ LoadsOK(s) /\ CachesOK(s) /\ Fresh(s)
  BY DEF J
<1>2. /\ Base(u) /\ Kin(s, u) /\ u \in Session /\ Loading(u) = Loading(s)
      /\ u.epoch = s.epoch
  BY <1>1, WithoutIs DEF Kin
<1>3. c.type # "scan" /\ c \notin WantedCaches(s.epoch)
  BY DEF WantedCaches
<1>4. Fresh(u)
  BY <1>1, <1>3, WithoutIs
<1>5. /\ c.file \in File /\ c.file \in Loading(s)
      /\ Loads(u.commands, u.issued, u.epoch, Loading(s) \ {c.file})
      /\ CachesOK(u)
  BY <1>1, <1>3, WithoutLoads
<1>6. PICK f \in File : f = c.file
  BY <1>5
<1>7. PICK b : b = EnrichmentBuild(u, f, speculative, result)
  OBVIOUS
<1>8. /\ u.epoch \in Nat /\ u.frame \in Text /\ u.focused \in Text /\ u.searching \in BOOLEAN
      /\ u.commands \in Seq(Command) /\ Queue(u.commands, u.issued, u.epoch)
  BY <1>2, SessionIs DEF Base
<1>9. /\ b.type = "build" /\ b.epoch = u.epoch /\ b.file = f /\ b.base = u.frame
      /\ b.range = u.focused /\ b.view = None
  BY <1>7 DEF EnrichmentBuild
<1>10. b \in Command
  <2>1. PICK h \in BOOLEAN : h = HoldsOnAdmission(u, f)
    BY DEF HoldsOnAdmission
  <2>2. b = [type |-> "build", epoch |-> u.epoch, file |-> f, speculative |-> speculative,
             result |-> result, base |-> u.frame, range |-> u.focused,
             hold |-> h, fresh |-> TRUE, view |-> None]
    BY <1>7, <2>1 DEF EnrichmentBuild
  <2> QED BY <1>6, <1>8, <2>1, <2>2 DEF Command
<1>11. PICK q2 : q2 = Append(u.commands, b)
  OBVIOUS
<1>12. t = [u EXCEPT !.commands = q2]
  BY <1>6, <1>7, <1>11
<1>13. q2 \in Seq(Command) /\ Members(q2) = Members(u.commands) \cup {b}
  BY <1>8, <1>10, <1>11, AppendMembers
<1>14. /\ t \in Session /\ t.commands = q2 /\ t.issued = u.issued
       /\ t.status = u.status /\ t.cacheUpdate = u.cacheUpdate /\ t.held = u.held
       /\ t.epoch = u.epoch /\ t.cursor = u.cursor /\ t.focused = u.focused
       /\ t.frame = u.frame /\ t.shutdown = u.shutdown /\ t.raced = u.raced
       /\ t.lastUsed = u.lastUsed
  BY <1>2, <1>12, <1>13 DEF Session
<1>15. Kin(u, t) /\ Loading(t) = Loading(s)
  BY <1>2, <1>14 DEF Kin, Retained, Loading
<1>16. Base(t)
  <2>1. ~IsSpeculative(b)
    BY <1>9 DEF IsSpeculative
  <2>2. Queue(q2, u.issued, u.epoch)
    BY <1>8, <1>9, <1>10, <1>11, <2>1, AppendQueue
  <2> QED BY <1>14, <2>2 DEF Base
<1>17. LoadsOK(t)
  <2>1. PICK l : l = Loading(s) \ {f}
    OBVIOUS
  <2>2. f \notin l /\ l \cup {f} = Loading(t)
    BY <1>5, <1>6, <1>15, <2>1
  <2>3. b \in Fetching(u.epoch, f)
    BY <1>9, <1>10 DEF Fetching
  <2>4. Loads(u.commands, u.issued, u.epoch, l)
    BY <1>5, <1>6, <2>1
  <2>5. Loads(q2, u.issued, u.epoch, l \cup {f})
    <3>1. PICK e : e = u.epoch
      OBVIOUS
    <3> QED BY <1>6, <1>8, <1>10, <1>11, <2>2, <2>3, <2>4, <3>1, AppendLoads
  <2> QED BY <1>14, <2>2, <2>5 DEF LoadsOK
<1>18. CachesOK(t)
  BY <1>5, <1>8, <1>9, <1>10, <1>11, <1>14, AppendCaches DEF CachesOK
<1>19. All(t) = All(u) \cup {b}
  BY <1>13, <1>14 DEF All
<1>20. Leased(t) = Leased(u)
  <2>1. Scans(t) = Scans(u)
    BY <1>9, <1>14, <1>19 DEF Scans, Ours
  <2> QED BY <1>14, <2>1 DEF Leased
<1>21. Fresh(t)
  <2>1. \A d \in All(t) : Admissible(t, d) =>
               \/ d \in All(u)
               \/ d.view = None /\ d.base = u.frame /\ (d.type = "build" => d.range = u.focused)
    BY <1>9, <1>19
  <2> QED BY <1>4, <1>15, <1>20, <2>1, FreshKept
<1>22. Kin(s, t)
  BY <1>2, <1>15, KinTransitive
<1>23. FrameTrue(t)
  BY <1>22 DEF J, Kin, FrameTrue
<1> QED BY <1>16, <1>17, <1>18, <1>21, <1>22, <1>23 DEF J

-----------------------------------------------------------------------------
(* Admissions.                                                             *)

CachesKept(q, iss, q2, iss2, e) ==
    \A update : Caches(q, iss, e, update) => Caches(q2, iss2, e, update)

\* The same work is queued and issued, whatever it is for.
Requeues(s, t) ==
    /\ Base(t) /\ t.epoch = s.epoch /\ Scans(t) = Scans(s)
    /\ LoadsKept(s.commands, s.issued, t.commands, t.issued, s.epoch)
    /\ CachesKept(s.commands, s.issued, t.commands, t.issued, s.epoch)

\* What an admission leaves alone.
Aside(s, t) ==
    /\ t.cursor = s.cursor /\ t.shutdown = s.shutdown /\ t.raced = s.raced
    /\ t.lastUsed = s.lastUsed /\ t.focused = s.focused /\ t.held = s.held
    /\ t.cacheUpdate = s.cacheUpdate /\ t.searching = s.searching

\* One part of an admission after the other.
LEMMA RequeuesTransitive ==
    ASSUME NEW s, NEW t, NEW u, Requeues(s, t), Requeues(t, u)
    PROVE  Requeues(s, u)
  BY DEF Requeues, LoadsKept, CachesKept

\* Accounts of the work outlast an admission.
LEMMA RequeuesIs ==
    ASSUME NEW s, NEW t, Requeues(s, t)
    PROVE  /\ \A l : Loads(s.commands, s.issued, s.epoch, l) => Loads(t.commands, t.issued, t.epoch, l)
           /\ \A k : Caches(s.commands, s.issued, s.epoch, k) => Caches(t.commands, t.issued, t.epoch, k)
           /\ t.held = s.held => Leased(t) = Leased(s)
<1>1. t.epoch = s.epoch /\ Scans(t) = Scans(s)
  BY DEF Requeues
<1>2. /\ LoadsKept(s.commands, s.issued, t.commands, t.issued, s.epoch)
      /\ CachesKept(s.commands, s.issued, t.commands, t.issued, s.epoch)
  BY DEF Requeues
<1> QED BY <1>1, <1>2 DEF LoadsKept, CachesKept, Leased

\* A change that leaves the commands alone.
LEMMA SameRequeues ==
    ASSUME NEW s, Base(s), NEW t \in Session, t.commands = s.commands, t.issued = s.issued,
           t.epoch = s.epoch
    PROVE  Requeues(s, t)
<1>1. Base(t) /\ Scans(t) = Scans(s)
  BY SameQueue
<1> QED BY <1>1 DEF Requeues, LoadsKept, CachesKept

\* A revision, as part of an admission.
LEMMA RevisedRequeues ==
    ASSUME NEW s, Base(s), NEW t, t = Revised(s)
    PROVE  Requeues(s, t) /\ Fresh(t) /\ Aside(s, t) /\ t.status = s.status /\ t.frame = s.frame
<1>1. /\ Base(t) /\ Kin(s, t) /\ Fresh(t) /\ Scans(t) = Scans(s)
      /\ t.status = s.status /\ t.held = s.held /\ t.cacheUpdate = s.cacheUpdate
      /\ t.searching = s.searching
  BY RevisedKeeps
<1>2. /\ s \in Session /\ IsFiniteSet(s.issued) /\ Queue(s.commands, s.issued, s.epoch)
  BY QueueIs DEF Base
<1>3. t.commands = Mapped(s.commands, Outdated) /\ t.issued = Image(s.issued, Outdated)
  BY <1>2, RevisedIs
<1>4. Renames(Outdated) /\ RenamesCaches(Outdated)
  BY OutdatedIs
<1>5. LoadsKept(s.commands, s.issued, t.commands, t.issued, s.epoch)
  <2> SUFFICES ASSUME NEW l, Loads(s.commands, s.issued, s.epoch, l)
               PROVE  Loads(t.commands, t.issued, s.epoch, l)
    BY DEF LoadsKept
  <2> QED BY <1>2, <1>3, <1>4, RemapLoads
<1>6. CachesKept(s.commands, s.issued, t.commands, t.issued, s.epoch)
  <2> SUFFICES ASSUME NEW l, Caches(s.commands, s.issued, s.epoch, l)
               PROVE  Caches(t.commands, t.issued, s.epoch, l)
    BY DEF CachesKept
  <2> QED BY <1>2, <1>3, <1>4, RemapCaches
<1>7. /\ t.epoch = s.epoch /\ t.cursor = s.cursor /\ t.focused = s.focused /\ t.frame = s.frame
      /\ t.shutdown = s.shutdown /\ t.raced = s.raced /\ t.lastUsed = s.lastUsed
  BY <1>1 DEF Kin
<1> QED BY <1>1, <1>5, <1>6, <1>7 DEF Requeues, Aside

\* Victims are retained, outside the range and not leased.
LEMMA VictimsAre ==
    ASSUME NEW used, NEW retained, NEW range, NEW leased
    PROVE  Victims(used, retained, range, leased) \subseteq retained \ (range \cup leased)
  BY DEF Victims

\* Storage: what staging evictions does to the Files.
LEMMA stageCacheVictimsIs ==
    ASSUME NEW s, Base(s), NEW V, V \subseteq Retained(s), NEW t, t = stageCacheVictims(s, V)
    PROVE  /\ Requeues(s, t) /\ Aside(s, t) /\ t.frame = s.frame
           /\ Retained(t) = Retained(s) \ V /\ Loading(t) = Loading(s)
<1>1. CASE V = {}
  <2>1. t = s /\ s \in Session
    BY <1>1 DEF stageCacheVictims, Base
  <2>2. Requeues(s, t)
    BY <2>1, SameRequeues
  <2> QED BY <1>1, <2>1, <2>2 DEF Aside
<1>2. CASE V # {}
  <2>1. PICK status : status = [f \in File |-> IF f \in V THEN "pending" ELSE s.status[f]]
    OBVIOUS
  <2>2. s \in Session /\ s.status \in [File -> {"pending", "loading", "ready", "failed"}]
    BY SessionIs DEF Base
  <2>3. status \in [File -> {"pending", "loading", "ready", "failed"}]
    BY <2>1, <2>2
  <2>4. PICK u : u = [s EXCEPT !.status = status]
    OBVIOUS
  <2>5. /\ u \in Session /\ u.status = status /\ u.commands = s.commands /\ u.issued = s.issued
        /\ u.epoch = s.epoch /\ u.frame = s.frame
        /\ u.cursor = s.cursor /\ u.shutdown = s.shutdown /\ u.raced = s.raced
        /\ u.lastUsed = s.lastUsed /\ u.focused = s.focused /\ u.held = s.held
        /\ u.cacheUpdate = s.cacheUpdate /\ u.searching = s.searching
    BY <2>2, <2>3, <2>4 DEF Session
  <2>6. Requeues(s, u) /\ Base(u)
    BY <2>5, SameRequeues DEF Requeues
  <2>7. t = Revised(u)
    BY <1>2, <2>1, <2>4 DEF stageCacheVictims
  <2>8. Requeues(u, t) /\ Aside(u, t) /\ t.status = u.status /\ t.frame = u.frame
    BY <2>6, <2>7, RevisedRequeues
  <2>9. \A f \in File : t.status[f] = IF f \in V THEN "pending" ELSE s.status[f]
    BY <2>1, <2>5, <2>8
  <2>10. Retained(t) = Retained(s) \ V /\ Loading(t) = Loading(s)
    BY <2>9 DEF Retained, Loading
  <2>11. Requeues(s, t)
    BY <2>6, <2>8, RequeuesTransitive
  <2> QED BY <2>5, <2>8, <2>10, <2>11 DEF Aside
<1> QED BY <1>1, <1>2

\* The Frame that a worker built is shown.
LEMMA PublishedIs ==
    ASSUME NEW s, Base(s), NEW view \in Text, NEW t, t = Published(s, view)
    PROVE  /\ Requeues(s, t) /\ Aside(s, t) /\ t.frame = view /\ Fresh(t)
           /\ Retained(t) = Retained(s) /\ Loading(t) = Loading(s)
<1>1. PICK u : u = [s EXCEPT !.frame = view]
  OBVIOUS
<1>2. /\ u \in Session /\ u.status = s.status /\ u.commands = s.commands /\ u.issued = s.issued
      /\ u.epoch = s.epoch /\ u.frame = view
      /\ u.cursor = s.cursor /\ u.shutdown = s.shutdown /\ u.raced = s.raced
      /\ u.lastUsed = s.lastUsed /\ u.focused = s.focused /\ u.held = s.held
      /\ u.cacheUpdate = s.cacheUpdate /\ u.searching = s.searching
  BY <1>1 DEF Session, Base
<1>3. Requeues(s, u) /\ Base(u)
  BY <1>2, SameRequeues DEF Requeues
<1>4. t = Revised(u)
  BY <1>1 DEF Published
<1>5. Requeues(u, t) /\ Fresh(t) /\ Aside(u, t) /\ t.status = u.status /\ t.frame = u.frame
  BY <1>3, <1>4, RevisedRequeues
<1>6. Requeues(s, t)
  BY <1>3, <1>5, RequeuesTransitive
<1>7. Retained(t) = Retained(s) /\ Loading(t) = Loading(s)
  BY <1>2, <1>5 DEF Retained, Loading
<1> QED BY <1>2, <1>5, <1>6, <1>7 DEF Aside

Retaining(result, f) == IF result = "ready" THEN {f} ELSE {}

AfterAdmission(s, f, result) ==
    LET retained == Retained(s) \cup Retaining(result, f)
    IN  retained \ Victims(s.lastUsed, retained, s.focused, Leased(s))

\* Storage: the File is settled and the cache brought down to its budget.
LEMMA stageAdmissionIs ==
    ASSUME NEW s, Base(s), NEW f \in Loading(s), NEW result \in {"ready", "failed"}
    PROVE  /\ Requeues(s, stageAdmission(s, f, result)) /\ Aside(s, stageAdmission(s, f, result))
           /\ Retained(stageAdmission(s, f, result)) = AfterAdmission(s, f, result)
           /\ Loading(stageAdmission(s, f, result)) = Loading(s) \ {f}
<1>a. PICK t : t = stageAdmission(s, f, result)
  OBVIOUS
<1>b. PICK R : R = Retained(s) \cup Retaining(result, f)
  OBVIOUS
<1>c. PICK V : V = Victims(s.lastUsed, R, s.focused, Leased(s))
  OBVIOUS
<1>d. AfterAdmission(s, f, result) = R \ V
  BY <1>b, <1>c DEF AfterAdmission
<1>e. f \in File /\ s.status[f] = "loading"
  BY DEF Loading
<1>1. PICK status : status = [s.status EXCEPT ![f] = result]
  OBVIOUS
<1>2. s \in Session /\ s.status \in [File -> {"pending", "loading", "ready", "failed"}]
  BY SessionIs DEF Base
<1>3. /\ status \in [File -> {"pending", "loading", "ready", "failed"}]
      /\ \A g \in File : status[g] = IF g = f THEN result ELSE s.status[g]
  BY <1>1, <1>2, <1>e
<1>4. PICK u : u = [s EXCEPT !.status = status]
  OBVIOUS
<1>5. /\ u \in Session /\ u.status = status /\ u.commands = s.commands /\ u.issued = s.issued
      /\ u.epoch = s.epoch
      /\ u.cursor = s.cursor /\ u.shutdown = s.shutdown /\ u.raced = s.raced
      /\ u.lastUsed = s.lastUsed /\ u.focused = s.focused /\ u.held = s.held
      /\ u.cacheUpdate = s.cacheUpdate /\ u.searching = s.searching
  BY <1>2, <1>3, <1>4 DEF Session
<1>6. Requeues(s, u) /\ Base(u)
  BY <1>5, SameRequeues DEF Requeues
<1>7. PICK v : v = Revised(u)
  OBVIOUS
<1>8. Requeues(u, v) /\ Aside(u, v) /\ v.status = u.status /\ Base(v)
  BY <1>6, <1>7, RevisedRequeues DEF Requeues
<1>9. \A g \in File : v.status[g] = IF g = f THEN result ELSE s.status[g]
  BY <1>3, <1>5, <1>8
<1>10. Retained(v) = R
  BY <1>9, <1>b, <1>e DEF Retained, Retaining
<1>11. Loading(v) = Loading(s) \ {f}
  BY <1>9, <1>e DEF Loading
<1>12. v = Revised([s EXCEPT !.status[f] = result])
  BY <1>1, <1>4, <1>7
<1>13. t = stageCacheVictims(v, V)
  BY <1>10, <1>12, <1>a, <1>c DEF stageAdmission
<1>14. V \subseteq Retained(v)
  BY <1>10, <1>c, VictimsAre
<1>15. /\ Requeues(v, t) /\ Aside(v, t)
       /\ Retained(t) = Retained(v) \ V /\ Loading(t) = Loading(v)
  <2>1. PICK V2 : V2 = V
    OBVIOUS
  <2>2. PICK w : w = stageCacheVictims(v, V2)
    OBVIOUS
  <2>3. V2 \subseteq Retained(v) /\ w = t /\ Base(v)
    BY <1>8, <1>13, <1>14, <2>1, <2>2
  <2>4. /\ Requeues(v, w) /\ Aside(v, w)
        /\ Retained(w) = Retained(v) \ V2 /\ Loading(w) = Loading(v)
    BY <2>2, <2>3, stageCacheVictimsIs
  <2> QED BY <2>1, <2>3, <2>4
<1>16. Requeues(s, t)
  BY <1>6, <1>8, <1>15, RequeuesTransitive
<1>17. Aside(s, t)
  BY <1>5, <1>8, <1>15 DEF Aside
<1> QED BY <1>10, <1>11, <1>15, <1>16, <1>17, <1>a, <1>d

\* What a build that may be admitted has seen and projected.
LEMMA AdmissibleIs ==
    ASSUME NEW s, J(s), ~s.shutdown, NEW c \in s.issued, IsBuild(c), c.epoch = s.epoch,
           c.type = "cache" => c \in WantedCaches(s.epoch), c.fresh, c.view # None
    PROVE  /\ c.view \in Text /\ c.base = s.frame /\ c.view = Preview(s, c)
           /\ c.type = "build" => c.range = s.focused
<1>1. c \in All(s) /\ c \in Command
  BY SessionIs DEF J, Base, All
<1>2. Admissible(s, c)
  BY DEF Admissible, Ours, WantedCaches
<1>3. UpToDate(s, c)
  BY <1>1, <1>2 DEF J, Fresh
<1>4. c.view \in Text \cup {None}
  BY <1>1, CommandIs
<1> QED BY <1>3, <1>4 DEF UpToDate

\* The search holds the File that is admitted.
LEMMA HeldForAdmission ==
    ASSUME NEW s, Base(s), NEW f \in File, NEW t,
           t = IF HoldsOnAdmission(s, f) THEN hold(s, {f}) ELSE s,
           NEW l, Loads(s.commands, s.issued, s.epoch, l), CachesOK(s)
    PROVE  /\ Base(t) /\ Kin(s, t) /\ t.status = s.status /\ t.cacheUpdate = s.cacheUpdate
           /\ t.searching = s.searching
           /\ Loads(t.commands, t.issued, t.epoch, l) /\ CachesOK(t)
           /\ Leased(t) = Leased(s) \cup (IF HoldsOnAdmission(s, f) THEN {f} ELSE {})
<1>1. CASE ~HoldsOnAdmission(s, f)
  BY <1>1 DEF Kin
<1>2. CASE HoldsOnAdmission(s, f)
  <2>1. PICK fs : fs = {f}
    OBVIOUS
  <2>2. fs \in Text /\ fs # {}
    BY <2>1 DEF Text
  <2>3. t = hold(s, fs)
    BY <1>2, <2>1
  <2>4. /\ Keeps(s, t) /\ Leased(t) = Leased(s) \cup fs
        /\ t.status = s.status /\ t.searching = s.searching /\ t.cacheUpdate = s.cacheUpdate
    BY <2>2, <2>3, holdKeeps
  <2>5. PICK u : u = [s EXCEPT !.held = @ \cup fs]
    OBVIOUS
  <2>6. s \in Session /\ s.held \in Text
    BY SessionIs DEF Base
  <2>7. s.held \cup fs \in Text
    BY <2>2, <2>6 DEF Text
  <2>8. u \in Session /\ u.commands = s.commands /\ u.issued = s.issued /\ u.epoch = s.epoch
    BY <2>5, <2>6, <2>7 DEF Session
  <2>9. Requeues(s, u) /\ Base(u)
    BY <2>8, SameRequeues DEF Requeues
  <2>10. PICK v : v = Revised(u)
    OBVIOUS
  <2>11. Requeues(u, v)
    BY <2>9, <2>10, RevisedRequeues
  <2>12. t = v
    BY <2>2, <2>3, <2>5, <2>10 DEF hold
  <2>13. Loads(t.commands, t.issued, t.epoch, l)
    BY <2>9, <2>11, <2>12, RequeuesTransitive, RequeuesIs
  <2> QED BY <1>2, <2>1, <2>4, <2>13 DEF Keeps
<1> QED BY <1>1, <1>2

\* A build that acceptViewBuild admits.
CanAdmit(s, c) ==
    /\ J(s) /\ ~s.shutdown /\ c \in s.issued /\ c.epoch = s.epoch
    /\ c.fresh /\ c.view # None

\* The states between the completion of a build and its admission.
AdmittedBy(s, c, u, h, a, t) ==
    /\ u = Without(s, c)
    /\ h = IF HoldsOnAdmission(u, c.file) THEN hold(u, {c.file}) ELSE u
    /\ a = Published(stageAdmission(h, c.file, c.result), c.view)
    /\ t = [a EXCEPT !.raced = @ \/ HoldsOnAdmission(u, c.file) # c.hold]

\* The File is in the Storage and its text in the Frame, before the search goes on.
LEMMA Admitted ==
    ASSUME NEW s, NEW c, CanAdmit(s, c), c.type = "build", NEW u, NEW h, NEW a, NEW t,
           AdmittedBy(s, c, u, h, a, t)
    PROVE  /\ J(t) /\ t.epoch = s.epoch /\ t.cursor = s.cursor /\ t.focused = s.focused
           /\ t.cacheUpdate = s.cacheUpdate
           /\ \A g \in Retained(s) : g \notin Retained(t) => g \notin s.focused \cup Leased(s)
<1>0. u = Without(s, c) /\ c \in s.issued
  BY DEF AdmittedBy, CanAdmit
<1>1. Base(s) /\ LoadsOK(s) /\ CachesOK(s) /\ Fresh(s) /\ FrameTrue(s) /\ ~s.shutdown
      /\ c.epoch = s.epoch
  BY DEF J, CanAdmit
<1>2. /\ Base(u) /\ Kin(s, u) /\ Loading(u) = Loading(s) /\ u.status = s.status
      /\ u.cacheUpdate = s.cacheUpdate /\ c \in Command
  BY <1>0, <1>1, WithoutIs
<1>3. c.type # "scan" /\ c \notin WantedCaches(s.epoch) /\ IsBuild(c)
  BY DEF WantedCaches, IsBuild
<1>4. Leased(u) = Leased(s)
  BY <1>0, <1>1, <1>3, WithoutIs
<1>5. /\ c.file \in File /\ c.file \in Loading(s)
      /\ Loads(u.commands, u.issued, u.epoch, Loading(s) \ {c.file})
      /\ CachesOK(u)
  BY <1>0, <1>1, <1>3, WithoutLoads
<1>6. PICK f \in File : f = c.file
  BY <1>5
<1>7. PICK l : l = Loading(s) \ {f}
  OBVIOUS
<1>8. PICK x : x = (IF HoldsOnAdmission(u, f) THEN {f} ELSE {})
  OBVIOUS
<1>9. /\ Base(h) /\ Kin(u, h) /\ h.status = u.status /\ h.cacheUpdate = u.cacheUpdate
      /\ Loads(h.commands, h.issued, h.epoch, l) /\ CachesOK(h)
      /\ Leased(h) = Leased(u) \cup x
  <2>1. h = IF HoldsOnAdmission(u, f) THEN hold(u, {f}) ELSE u
    BY <1>6 DEF AdmittedBy
  <2>2. Loads(u.commands, u.issued, u.epoch, l)
    BY <1>5, <1>6, <1>7
  <2> QED BY <1>2, <1>5, <1>6, <1>8, <2>1, <2>2, HeldForAdmission
<1>10. Kin(s, h)
  BY <1>2, <1>9, KinTransitive
<1>11. f \in Loading(h)
  BY <1>2, <1>5, <1>6, <1>9 DEF Loading
<1>12. PICK result \in {"ready", "failed"} : result = c.result
  BY <1>2, CommandIs
<1>13. PICK R : R = Retained(h) \cup Retaining(result, f)
  OBVIOUS
<1>14. PICK V : V = Victims(h.lastUsed, R, h.focused, Leased(h))
  OBVIOUS
<1>15. PICK b : b = stageAdmission(h, f, result)
  OBVIOUS
<1>16. /\ Requeues(h, b) /\ Aside(h, b)
       /\ Retained(b) = R \ V /\ Loading(b) = Loading(h) \ {f}
  <2>1. Base(h)
    BY <1>9
  <2>2. f \in File /\ result \in {"ready", "failed"}
    BY <1>6, <1>12
  <2>3. /\ Requeues(h, b) /\ Aside(h, b)
        /\ Retained(b) = AfterAdmission(h, f, result) /\ Loading(b) = Loading(h) \ {f}
    BY <1>11, <1>15, <2>1, <2>2, stageAdmissionIs
  <2>4. AfterAdmission(h, f, result) = R \ V
    BY <1>13, <1>14 DEF AfterAdmission
  <2> QED BY <2>3, <2>4
<1>17. c.view \in Text /\ c.base = s.frame /\ c.view = Preview(s, c) /\ c.range = s.focused
  BY <1>0, <1>1, <1>3, AdmissibleIs DEF CanAdmit
<1>18. a = Published(b, c.view)
  BY <1>6, <1>12, <1>15 DEF AdmittedBy
<1>19. /\ Requeues(b, a) /\ Aside(b, a) /\ a.frame = c.view /\ Fresh(a)
       /\ Retained(a) = Retained(b) /\ Loading(a) = Loading(b)
  <2>1. PICK view \in Text : view = c.view
    BY <1>17
  <2>2. PICK a2 : a2 = Published(b, view)
    OBVIOUS
  <2>3. Base(b) /\ a2 = a
    BY <1>16, <1>18, <2>1, <2>2 DEF Requeues
  <2>4. /\ Requeues(b, a2) /\ Aside(b, a2) /\ a2.frame = view /\ Fresh(a2)
        /\ Retained(a2) = Retained(b) /\ Loading(a2) = Loading(b)
    <3>1. Base(b)
      BY <2>3
    <3>2. view \in Text
      BY <2>1
    <3> QED BY <2>2, <3>1, <3>2, PublishedIs
  <2> QED BY <2>1, <2>3, <2>4
<1>20. Requeues(h, a) /\ Base(a) /\ a \in Session
  BY <1>16, <1>19, RequeuesTransitive DEF Requeues, Base
<1>21. /\ Loads(a.commands, a.issued, a.epoch, l)
       /\ Caches(a.commands, a.issued, a.epoch, h.cacheUpdate)
  BY <1>9, <1>20, RequeuesIs DEF CachesOK
<1>22. Loading(h) = Loading(s)
  BY <1>2, <1>9 DEF Loading
<1>23. /\ a.epoch = s.epoch /\ a.cursor = s.cursor /\ a.focused = s.focused
       /\ a.shutdown = s.shutdown /\ a.raced = s.raced /\ a.cacheUpdate = s.cacheUpdate
       /\ a.lastUsed = s.lastUsed
  <2>1. /\ h.epoch = s.epoch /\ h.cursor = s.cursor /\ h.focused = s.focused
        /\ h.shutdown = s.shutdown /\ h.raced = s.raced /\ h.lastUsed = s.lastUsed
    BY <1>10 DEF Kin
  <2>2. h.cacheUpdate = s.cacheUpdate
    BY <1>2, <1>9
  <2>3. /\ b.cursor = h.cursor /\ b.focused = h.focused /\ b.shutdown = h.shutdown
        /\ b.raced = h.raced /\ b.lastUsed = h.lastUsed /\ b.cacheUpdate = h.cacheUpdate
    BY <1>16 DEF Aside
  <2>4. /\ a.cursor = b.cursor /\ a.focused = b.focused /\ a.shutdown = b.shutdown
        /\ a.raced = b.raced /\ a.lastUsed = b.lastUsed /\ a.cacheUpdate = b.cacheUpdate
    BY <1>19 DEF Aside
  <2>5. a.epoch = h.epoch
    BY <1>20 DEF Requeues
  <2> QED BY <2>1, <2>2, <2>3, <2>4, <2>5
<1>24. PICK r \in BOOLEAN : r = (a.raced \/ HoldsOnAdmission(u, c.file) # c.hold)
  OBVIOUS
<1>25. t = [a EXCEPT !.raced = r]
  BY <1>24 DEF AdmittedBy
<1>26. /\ t \in Session /\ t.commands = a.commands /\ t.issued = a.issued
       /\ t.status = a.status /\ t.cacheUpdate = a.cacheUpdate /\ t.held = a.held
       /\ t.epoch = a.epoch /\ t.cursor = a.cursor /\ t.focused = a.focused
       /\ t.frame = a.frame /\ t.shutdown = a.shutdown
       /\ t.lastUsed = a.lastUsed /\ t.raced = r
  BY <1>20, <1>24, <1>25 DEF Session
<1>27. /\ Base(t) /\ All(t) = All(a) /\ Leased(t) = Leased(a)
  <2>1. /\ t \in Session /\ t.commands = a.commands /\ t.issued = a.issued
        /\ t.held = a.held /\ t.epoch = a.epoch
    BY <1>26
  <2> QED BY <1>20, <2>1, SameQueue
<1>28. Loading(t) = l /\ Retained(t) = R \ V /\ Loading(a) = l
  <2>1. Loading(t) = Loading(a) /\ Retained(t) = Retained(a)
    BY <1>26 DEF Loading, Retained
  <2> QED BY <1>7, <1>16, <1>19, <1>22, <2>1
<1>29. LoadsOK(t) /\ CachesOK(t)
  BY <1>2, <1>9, <1>21, <1>23, <1>26, <1>28 DEF LoadsOK, CachesOK
<1>30. Fresh(t)
  <2>1. Retained(t) = Retained(a) /\ t.lastUsed = a.lastUsed
    BY <1>16, <1>19, <1>26, <1>28
  <2> SUFFICES ASSUME NEW d \in All(t), Admissible(t, d) PROVE UpToDate(t, d)
    BY DEF Fresh
  <2>2. Admissible(a, d) /\ d \in All(a)
    BY <1>26, <1>27 DEF Admissible, Ours
  <2>3. UpToDate(a, d)
    BY <1>19, <2>2 DEF Fresh
  <2>4. Preview(t, d) = Preview(a, d)
    <3>1. Leased(t) = Leased(a)
      BY <1>27
    <3> QED BY <2>1, <3>1, PreviewSame
  <2> QED BY <1>26, <2>3, <2>4 DEF UpToDate
<1>31. FrameTrue(t)
  <2> SUFFICES ASSUME ~t.raced PROVE t.frame = Retained(t)
    BY DEF FrameTrue
  <2>1. ~s.raced /\ (HoldsOnAdmission(u, f) <=> c.hold)
    <3>1. c.hold \in BOOLEAN
      BY <1>2, CommandIs
    <3>2. ~r
      BY <1>26
    <3> QED BY <1>6, <1>23, <1>24, <3>1, <3>2
  <2>2. s.frame = Retained(s)
    BY <1>1, <2>1 DEF FrameTrue
  <2>3. /\ (IF c.type = "build" /\ c.hold THEN {c.file} ELSE {}) = x
        /\ (IF c.type = "build" /\ c.result = "ready" THEN {c.file} ELSE {}) = Retaining(result, f)
    BY <1>6, <1>8, <1>12, <2>1 DEF Retaining
  <2>4. c.view = (s.frame \cup Retaining(result, f))
                     \ Victims(s.lastUsed, Retained(s) \cup Retaining(result, f), s.focused, Leased(s) \cup x)
    BY <1>17, <2>3 DEF Preview
  <2>5. h.lastUsed = s.lastUsed /\ h.focused = s.focused /\ Retained(h) = Retained(s)
    BY <1>10 DEF Kin
  <2>6. V = Victims(s.lastUsed, Retained(s) \cup Retaining(result, f), s.focused, Leased(s) \cup x)
    BY <1>4, <1>9, <1>13, <1>14, <2>5
  <2>7. t.frame = c.view
    BY <1>19, <1>26
  <2>8. R = Retained(s) \cup Retaining(result, f)
    BY <1>13, <2>5
  <2>9. t.frame = R \ V
    BY <2>2, <2>4, <2>6, <2>7, <2>8
  <2> QED BY <1>28, <2>9
<1>32. ASSUME NEW g \in Retained(s), g \notin Retained(t) PROVE g \notin s.focused \cup Leased(s)
  <2>1. Retained(h) = Retained(s) /\ h.focused = s.focused
    BY <1>10 DEF Kin
  <2>2. g \in V
    BY <1>13, <1>28, <1>32, <2>1
  <2>3. V \subseteq R \ (h.focused \cup Leased(h))
    BY <1>14, VictimsAre
  <2> QED BY <1>4, <1>9, <2>1, <2>2, <2>3
<1>33. J(t)
  BY <1>1, <1>27, <1>29, <1>30, <1>31 DEF J
<1> QED BY <1>23, <1>26, <1>32, <1>33

\* A change of fields that nothing here depends on.
LEMMA FieldKeeps ==
    ASSUME NEW s, Base(s), NEW t \in Session, t.commands = s.commands, t.issued = s.issued,
           t.held = s.held, t.status = s.status, t.cacheUpdate = s.cacheUpdate, Kin(s, t)
    PROVE  Keeps(s, t) /\ Leased(t) = Leased(s)
<1>1. t.epoch = s.epoch /\ Loading(t) = Loading(s)
  BY DEF Kin, Loading
<1>2. /\ Base(t) /\ All(t) = All(s) /\ Leased(t) = Leased(s)
      /\ LoadsOK(s) => LoadsOK(t)
      /\ CachesOK(s) => CachesOK(t)
  BY <1>1, SameQueue
<1>3. Fresh(s) => Fresh(t)
  BY <1>2, FreshKept
<1> QED BY <1>2, <1>3 DEF Keeps

\* The search counts the File as acquired.
LEMMA AcquiredKeeps ==
    ASSUME NEW s, Base(s), NEW f \in File, NEW t, t = Acquired(s, f)
    PROVE  Keeps(s, t) /\ t.cacheUpdate = s.cacheUpdate
<1>1. s \in Session /\ s.acquired \in Text
  BY SessionIs DEF Base
<1>2. CASE ~s.searching
  BY <1>2 DEF Acquired, Keeps, Kin
<1>3. CASE s.searching
  <2>1. PICK x : x = s.acquired \cup {f}
    OBVIOUS
  <2>2. x \in Text
    BY <1>1, <2>1 DEF Text
  <2>3. t = [s EXCEPT !.acquired = x]
    BY <1>3, <2>1 DEF Acquired
  <2>4. /\ t \in Session /\ t.commands = s.commands /\ t.issued = s.issued
        /\ t.held = s.held /\ t.status = s.status /\ t.cacheUpdate = s.cacheUpdate
        /\ t.epoch = s.epoch /\ t.cursor = s.cursor /\ t.focused = s.focused
        /\ t.frame = s.frame /\ t.shutdown = s.shutdown /\ t.raced = s.raced
        /\ t.lastUsed = s.lastUsed
    BY <1>1, <2>2, <2>3 DEF Session
  <2>5. Kin(s, t)
    BY <2>4 DEF Kin, Retained
  <2> QED BY <2>4, <2>5, FieldKeeps
<1> QED BY <1>2, <1>3

\* A build of a File is admitted.
LEMMA FileAdmitted ==
    ASSUME NEW s, NEW c, CanAdmit(s, c), c.type = "build", NEW t, t = AdmitFile(Without(s, c), c)
    PROVE  /\ J(t) /\ t.epoch = s.epoch /\ t.cursor = s.cursor /\ t.focused = s.focused
           /\ s.cacheUpdate # None => t.cacheUpdate # None
           /\ \A g \in Retained(s) : g \notin Retained(t) => g \notin s.focused \cup Leased(s)
<1>1. PICK u : u = Without(s, c)
  OBVIOUS
<1>2. PICK h : h = IF HoldsOnAdmission(u, c.file) THEN hold(u, {c.file}) ELSE u
  OBVIOUS
<1>3. PICK a : a = Published(stageAdmission(h, c.file, c.result), c.view)
  OBVIOUS
<1>4. PICK b : b = [a EXCEPT !.raced = @ \/ HoldsOnAdmission(u, c.file) # c.hold]
  OBVIOUS
<1>5. AdmittedBy(s, c, u, h, a, b)
  BY <1>1, <1>2, <1>3, <1>4 DEF AdmittedBy
<1>6. /\ J(b) /\ b.epoch = s.epoch /\ b.cursor = s.cursor /\ b.focused = s.focused
      /\ b.cacheUpdate = s.cacheUpdate
      /\ \A g \in Retained(s) : g \notin Retained(b) => g \notin s.focused \cup Leased(s)
  BY <1>5, Admitted
<1>7. PICK f \in File : f = c.file
  <2>1. c \in Command
    BY SessionIs DEF CanAdmit, J, Base
  <2> QED BY <2>1, CommandIs
<1>8. PICK v : v = Acquired(b, f)
  OBVIOUS
<1>9. Keeps(b, v) /\ v.cacheUpdate = b.cacheUpdate /\ Base(v)
  BY <1>6, <1>7, <1>8, AcquiredKeeps DEF J, Keeps
<1>10. PICK w : w = Pump(v)
  OBVIOUS
<1>11. Keeps(v, w) /\ w.cacheUpdate = v.cacheUpdate /\ Base(w)
  BY <1>9, <1>10, PumpKeeps DEF Keeps
<1>12. PICK x : x = QueueScan(w)
  OBVIOUS
<1>13. Keeps(w, x) /\ (w.cacheUpdate # None => x.cacheUpdate # None)
  BY <1>11, <1>12, QueueScanKeeps
<1>14. t = x
  BY <1>1, <1>2, <1>3, <1>4, <1>7, <1>8, <1>10, <1>12 DEF AdmitFile
<1>15. Keeps(b, x)
  BY <1>9, <1>11, <1>13, KeepsTransitive
<1>16. J(x)
  BY <1>6, <1>15, KeepsInvariant
<1>17. x.epoch = b.epoch /\ x.cursor = b.cursor /\ x.focused = b.focused /\ Retained(x) = Retained(b)
  BY <1>15 DEF Keeps, Kin
<1> QED BY <1>6, <1>9, <1>11, <1>13, <1>14, <1>16, <1>17

\* Focusing a range, as part of an admission.
LEMMA focusAdmittedRequeues ==
    ASSUME NEW s, Base(s), NEW range \in Text, NEW t, t = focusAdmitted(s, range)
    PROVE  Requeues(s, t)
<1>1. CASE s.focused = range
  <2>1. t = s /\ s \in Session
    BY <1>1 DEF focusAdmitted, Base
  <2> QED BY <2>1, SameRequeues
<1>2. CASE s.focused # range
  <2>1. PICK used : used = [f \in File |-> IF f \in range THEN s.recency + 1 ELSE s.lastUsed[f]]
    OBVIOUS
  <2>2. s \in Session /\ s.recency \in Nat /\ s.lastUsed \in [File -> Nat]
    BY SessionIs DEF Base
  <2>3. PICK r \in Nat : r = s.recency + 1
    BY <2>2
  <2>4. used \in [File -> Nat]
    BY <2>1, <2>2
  <2>5. PICK u : u = [s EXCEPT !.focused = range, !.recency = r, !.lastUsed = used]
    OBVIOUS
  <2>6. /\ u \in Session /\ u.commands = s.commands /\ u.issued = s.issued
        /\ u.epoch = s.epoch
    BY <2>2, <2>3, <2>4, <2>5 DEF Session
  <2>7. Requeues(s, u) /\ Base(u)
    BY <2>6, SameRequeues DEF Requeues
  <2>8. PICK v : v = Revised(u)
    OBVIOUS
  <2>9. Requeues(u, v)
    BY <2>7, <2>8, RevisedRequeues
  <2>10. t = v
    BY <1>2, <2>1, <2>3, <2>5, <2>8 DEF focusAdmitted
  <2> QED BY <2>7, <2>9, <2>10, RequeuesTransitive
<1> QED BY <1>1, <1>2

\* The build of a cache update is admitted.
LEMMA CacheAdmitted ==
    ASSUME NEW s, NEW c, CanAdmit(s, c), c \in WantedCaches(s.epoch),
           NEW t, t = AdmitCache(Without(s, c), c)
    PROVE  /\ J(t) /\ t.epoch = s.epoch /\ t.cursor = s.cursor /\ t.focused = c.range
           /\ c.range = s.cacheUpdate /\ t.cacheUpdate = None /\ s.cacheUpdate # None
           /\ \A g \in Retained(s) : g \notin Retained(t) => g \notin c.range \cup Leased(s)
<1>0. PICK u : u = Without(s, c)
  OBVIOUS
<1>1. /\ Base(s) /\ LoadsOK(s) /\ CachesOK(s) /\ Fresh(s) /\ FrameTrue(s) /\ ~s.shutdown
      /\ c.epoch = s.epoch /\ c \in s.issued
  BY DEF J, CanAdmit
<1>2. /\ Base(u) /\ Kin(s, u) /\ Loading(u) = Loading(s) /\ c \in Command
  BY <1>0, <1>1, WithoutIs
<1>3. c.type = "cache" /\ IsBuild(c)
  BY DEF WantedCaches, IsBuild
<1>4. Leased(u) = Leased(s)
  <2>1. c.type # "scan"
    BY <1>3
  <2> QED BY <1>0, <1>1, <2>1, WithoutIs
<1>5. LoadsOK(u) /\ s.cacheUpdate # None /\ c.range = s.cacheUpdate
      /\ Caches(u.commands, u.issued, u.epoch, None)
  <2>1. c.type \notin {"enrich", "build"}
    BY <1>3
  <2> QED BY <1>0, <1>1, <2>1, WithoutLoads
<1>6. PICK range \in Text : range = c.range
  BY <1>2, <1>3, CommandIs
<1>7. PICK view \in Text : view = c.view /\ view = Preview(s, c) /\ c.base = s.frame
  BY <1>1, <1>3, AdmissibleIs DEF CanAdmit
<1>8. PICK V : V = Victims(s.lastUsed, Retained(s), range, Leased(s))
  OBVIOUS
<1>9. view = s.frame \ V
  <2>1. /\ (IF c.type = "build" /\ c.result = "ready" THEN {c.file} ELSE {}) = {}
        /\ (IF c.type = "build" /\ c.hold THEN {c.file} ELSE {}) = {}
    BY <1>3
  <2>2. view = (c.base \cup {}) \ Victims(s.lastUsed, Retained(s) \cup {}, c.range, Leased(s) \cup {})
    BY <1>7, <2>1 DEF Preview
  <2>3. Retained(s) \cup {} = Retained(s) /\ Leased(s) \cup {} = Leased(s)
    OBVIOUS
  <2> QED BY <1>6, <1>7, <1>8, <2>2, <2>3
<1>10. V \subseteq Retained(s) \ (range \cup Leased(s))
  BY <1>8, VictimsAre
<1>11. PICK k : k = focusAdmitted(u, range)
  OBVIOUS
<1>12. Moved(u, k) /\ k.focused = range /\ k.cacheUpdate = u.cacheUpdate /\ k.status = u.status
  BY <1>2, <1>6, <1>11, focusAdmittedMoves
<1>13. Requeues(u, k) /\ Base(k)
  BY <1>2, <1>6, <1>11, focusAdmittedRequeues DEF Requeues
<1>14. Retained(k) = Retained(s) /\ Loading(k) = Loading(s)
  BY <1>2, <1>12 DEF Moved, Kin, Loading
<1>15. PICK W : W = s.frame \ view
  OBVIOUS
<1>16. W = s.frame \cap V
  BY <1>9, <1>15
<1>17. PICK b : b = stageCacheVictims(k, W)
  OBVIOUS
<1>18. /\ Requeues(k, b) /\ Aside(k, b)
       /\ Retained(b) = Retained(k) \ W /\ Loading(b) = Loading(k) /\ Base(b)
  <2>1. W \subseteq Retained(k)
    BY <1>10, <1>14, <1>16
  <2> QED BY <1>13, <1>17, <2>1, stageCacheVictimsIs DEF Requeues
<1>19. PICK a : a = Published(b, view)
  OBVIOUS
<1>20. /\ Requeues(b, a) /\ Aside(b, a) /\ a.frame = view /\ Fresh(a)
       /\ Retained(a) = Retained(b) /\ Loading(a) = Loading(b)
  <2>1. view \in Text
    BY <1>7
  <2> QED BY <1>18, <1>19, <2>1, PublishedIs
<1>21. Requeues(u, a) /\ Base(a) /\ a \in Session
  BY <1>13, <1>18, <1>20, RequeuesTransitive DEF Requeues, Base
<1>22. /\ Loads(a.commands, a.issued, a.epoch, Loading(s))
       /\ Caches(a.commands, a.issued, a.epoch, None)
  BY <1>2, <1>5, <1>21, RequeuesIs DEF LoadsOK
<1>23. PICK z : z = [a EXCEPT !.cacheUpdate = None]
  OBVIOUS
<1>24. t = z
  BY <1>0, <1>6, <1>7, <1>11, <1>15, <1>17, <1>19, <1>23 DEF AdmitCache
<1>25. /\ z \in Session /\ z.commands = a.commands /\ z.issued = a.issued
       /\ z.status = a.status /\ z.cacheUpdate = None /\ z.held = a.held
       /\ z.epoch = a.epoch /\ z.cursor = a.cursor /\ z.focused = a.focused
       /\ z.frame = a.frame /\ z.shutdown = a.shutdown
       /\ z.lastUsed = a.lastUsed /\ z.raced = a.raced
  BY <1>21, <1>23 DEF Session
<1>26. Base(z) /\ All(z) = All(a) /\ Leased(z) = Leased(a)
  <2>1. /\ z \in Session /\ z.commands = a.commands /\ z.issued = a.issued
        /\ z.held = a.held /\ z.epoch = a.epoch
    BY <1>25
  <2> QED BY <1>21, <2>1, SameQueue
<1>27. Kin(a, z) /\ Loading(z) = Loading(a)
  BY <1>25 DEF Kin, Retained, Loading
<1>28. Fresh(z)
  BY <1>20, <1>26, <1>27, FreshKept
<1>29. Loading(z) = Loading(s) /\ Retained(z) = Retained(s) \ W
  BY <1>14, <1>18, <1>20, <1>27 DEF Kin
<1>30. LoadsOK(z) /\ CachesOK(z)
  BY <1>22, <1>25, <1>29 DEF LoadsOK, CachesOK
<1>31. /\ z.epoch = s.epoch /\ z.cursor = s.cursor /\ z.focused = range
       /\ z.shutdown = s.shutdown /\ z.raced = s.raced /\ z.frame = view
  <2>1. u.cursor = s.cursor /\ u.epoch = s.epoch /\ u.shutdown = s.shutdown /\ u.raced = s.raced
    BY <1>2 DEF Kin
  <2>2. k.cursor = u.cursor /\ k.shutdown = u.shutdown /\ k.raced = u.raced
    BY <1>12 DEF Moved
  <2>3. /\ b.cursor = k.cursor /\ b.shutdown = k.shutdown /\ b.raced = k.raced
        /\ b.focused = k.focused
    BY <1>18 DEF Aside
  <2>4. /\ a.cursor = b.cursor /\ a.shutdown = b.shutdown /\ a.raced = b.raced
        /\ a.focused = b.focused
    BY <1>20 DEF Aside
  <2>5. a.epoch = u.epoch
    BY <1>21 DEF Requeues
  <2> QED BY <1>12, <1>20, <1>25, <2>1, <2>2, <2>3, <2>4, <2>5
<1>32. FrameTrue(z)
  <2> SUFFICES ASSUME ~z.raced PROVE z.frame = Retained(z)
    BY DEF FrameTrue
  <2>1. s.frame = Retained(s)
    BY <1>1, <1>31 DEF FrameTrue
  <2> QED BY <1>9, <1>16, <1>29, <1>31, <2>1
<1>33. J(z)
  BY <1>26, <1>28, <1>30, <1>32 DEF J
<1>34. \A g \in Retained(s) : g \notin Retained(z) => g \notin range \cup Leased(s)
  BY <1>10, <1>16, <1>29
<1> QED BY <1>5, <1>6, <1>24, <1>25, <1>31, <1>33, <1>34

\* The build of a cache update is given up.
LEMMA CacheAbandoned ==
    ASSUME NEW s, J(s), ~s.shutdown, NEW c \in s.issued, c \in WantedCaches(s.epoch),
           NEW u, u = Without(s, c), NEW t, t = [u EXCEPT !.cacheUpdate = None]
    PROVE  J(t) /\ Kin(s, t)
<1>1. Base(s) /\ LoadsOK(s) /\ CachesOK(s) /\ Fresh(s) /\ FrameTrue(s)
  BY DEF J
<1>2. c.type = "cache"
  BY DEF WantedCaches
<1>3. /\ Base(u) /\ Kin(s, u) /\ u \in Session /\ Loading(u) = Loading(s) /\ Fresh(u)
  BY <1>1, <1>2, WithoutIs
<1>4. LoadsOK(u) /\ Caches(u.commands, u.issued, u.epoch, None)
  BY <1>1, <1>2, WithoutLoads
<1>5. /\ t \in Session /\ t.commands = u.commands /\ t.issued = u.issued
      /\ t.status = u.status /\ t.cacheUpdate = None /\ t.held = u.held
      /\ t.epoch = u.epoch /\ t.cursor = u.cursor /\ t.focused = u.focused
      /\ t.frame = u.frame /\ t.shutdown = u.shutdown
      /\ t.lastUsed = u.lastUsed /\ t.raced = u.raced
  BY <1>3 DEF Session
<1>6. Kin(u, t) /\ Loading(t) = Loading(u)
  BY <1>5 DEF Kin, Retained, Loading
<1>7. Base(t) /\ All(t) = All(u) /\ Leased(t) = Leased(u) /\ LoadsOK(t)
  <2>1. /\ t.commands = u.commands /\ t.issued = u.issued /\ t.held = u.held
        /\ t.epoch = u.epoch /\ t \in Session
    BY <1>5
  <2> QED BY <1>3, <1>4, <1>6, <2>1, SameQueue
<1>8. CachesOK(t)
  BY <1>4, <1>5 DEF CachesOK
<1>9. Fresh(t)
  BY <1>3, <1>6, <1>7, FreshKept
<1>10. Kin(s, t)
  BY <1>3, <1>6, KinTransitive
<1>11. FrameTrue(t)
  BY <1>1, <1>10 DEF FrameTrue, Kin
<1> QED BY <1>7, <1>8, <1>9, <1>10, <1>11 DEF J

\* The build of a cache update is made again for the range that is wanted.
LEMMA CacheRetried ==
    ASSUME NEW s, J(s), ~s.shutdown, NEW c \in s.issued, c \in WantedCaches(s.epoch),
           NEW u, u = Without(s, c), NEW range, range = u.cacheUpdate,
           NEW t, t = queueCacheBuild(u, range)
    PROVE  J(t) /\ Kin(s, t)
<1>1. Base(s) /\ LoadsOK(s) /\ CachesOK(s) /\ Fresh(s) /\ FrameTrue(s)
  BY DEF J
<1>2. c.type = "cache"
  BY DEF WantedCaches
<1>3. /\ Base(u) /\ Kin(s, u) /\ u \in Session /\ Fresh(u) /\ u.cacheUpdate = s.cacheUpdate
  BY <1>1, <1>2, WithoutIs
<1>4. LoadsOK(u) /\ s.cacheUpdate # None
  BY <1>1, <1>2, WithoutLoads
<1>5. range \in Text
  BY <1>3, <1>4, SessionIs
<1>6. Keeps(u, t) /\ CachesOK(t)
  BY <1>3, <1>5, queueCacheBuildKeeps
<1>7. Kin(s, t)
  BY <1>3, <1>6, KinTransitive DEF Keeps
<1>8. FrameTrue(t)
  BY <1>1, <1>7 DEF FrameTrue, Kin
<1> QED BY <1>3, <1>4, <1>6, <1>7, <1>8 DEF J, Keeps

\* A scan of the Review search is consumed: its lease is gone, so builds are old.
LEMMA ScanConsumed ==
    ASSUME NEW s, J(s), ~s.shutdown, NEW c \in s.issued, c.type = "scan",
           NEW u, u = Without(s, c), NEW t, t = Revised(u)
    PROVE  J(t) /\ Kin(s, t) /\ t.searching = s.searching /\ t.scanned = s.scanned
<1>1. Base(s) /\ LoadsOK(s) /\ CachesOK(s) /\ FrameTrue(s)
  BY DEF J
<1>2. c \notin WantedCaches(s.epoch)
  BY DEF WantedCaches
<1>3. /\ Base(u) /\ Kin(s, u) /\ u.searching = s.searching /\ u.scanned = s.scanned
  BY <1>1, WithoutIs
<1>4. LoadsOK(u) /\ CachesOK(u)
  BY <1>1, <1>2, WithoutLoads
<1>5. /\ Base(t) /\ Kin(u, t) /\ Fresh(t) /\ LoadsOK(t) /\ CachesOK(t)
      /\ t.searching = u.searching /\ t.scanned = u.scanned
  BY <1>3, <1>4, RevisedKeeps
<1>6. Kin(s, t)
  BY <1>3, <1>5, KinTransitive
<1>7. FrameTrue(t)
  BY <1>1, <1>6 DEF FrameTrue, Kin
<1> QED BY <1>3, <1>5, <1>6, <1>7 DEF J

\* The next scan may start, whether or not this one has to be repeated.
LEMMA ScanReleased ==
    ASSUME NEW s, J(s), ~s.shutdown, NEW c \in s.issued, c.type = "scan",
           NEW u, u = Without(s, c), NEW v, v = Revised(u),
           NEW r, r = stageReleasedSearchLeases(v),
           NEW a, a = [r EXCEPT !.scanned = @ \ {c.file}]
    PROVE  /\ J(r) /\ Kin(s, r) /\ J(a) /\ Kin(s, a)
<1>1. J(v) /\ Kin(s, v)
  BY ScanConsumed
<1>2. Keeps(v, r)
  BY <1>1, stageReleasedSearchLeasesKeeps DEF J
<1>3. J(r) /\ Kin(s, r) /\ Base(r)
  BY <1>1, <1>2, KeepsInvariant, KinTransitive DEF Keeps
<1>4. r \in Session
  BY <1>3 DEF Base
<1>5. /\ a \in Session /\ a.commands = r.commands /\ a.issued = r.issued
      /\ a.status = r.status /\ a.cacheUpdate = r.cacheUpdate /\ a.held = r.held
      /\ a.epoch = r.epoch /\ a.cursor = r.cursor /\ a.focused = r.focused
      /\ a.frame = r.frame /\ a.shutdown = r.shutdown
      /\ a.lastUsed = r.lastUsed /\ a.raced = r.raced
  <2>1. r.scanned \ {c.file} \in Text
    BY <1>4, SessionIs DEF Text
  <2> QED BY <1>4, <2>1 DEF Session
<1>6. Kin(r, a)
  BY <1>5 DEF Kin, Retained
<1>7. Keeps(r, a)
  <2>1. /\ a.commands = r.commands /\ a.issued = r.issued /\ a.status = r.status
        /\ a.cacheUpdate = r.cacheUpdate /\ a.held = r.held /\ a \in Session
    BY <1>5
  <2> QED BY <1>3, <1>6, <2>1, FieldKeeps
<1> QED BY <1>3, <1>6, <1>7, KeepsInvariant, KinTransitive
\* What a worker has built depends on nothing it writes.
LEMMA PreviewIs ==
    ASSUME NEW s \in Session, NEW c \in Command, IsBuild(c), NEW d,
           d = [c EXCEPT !.view = Preview(s, c)]
    PROVE  /\ d \in Command /\ d.view = Preview(s, c) /\ d.type = c.type /\ d.epoch = c.epoch
           /\ c.type = "build" => d.file = c.file
           /\ d.base = c.base /\ d.range = c.range /\ d.fresh = c.fresh
           /\ c.type = "cache" => d.wanted = c.wanted
           /\ Preview(s, d) = d.view
<1>1. Preview(s, c) \in Text
  <2>1. c.base \in Text /\ (c.type = "build" => c.file \in File)
    BY CommandIs
  <2> QED BY <2>1 DEF Preview, Text
<1>2. PICK view \in Text : view = Preview(s, c)
  BY <1>1
<1>3. d = [c EXCEPT !.view = view]
  BY <1>2
<1>4. CASE c.type = "build"
  <2>1. /\ d \in Command /\ d.view = view /\ d.type = c.type /\ d.epoch = c.epoch
        /\ d.file = c.file /\ d.base = c.base /\ d.range = c.range /\ d.fresh = c.fresh
        /\ d.hold = c.hold /\ d.result = c.result
    BY <1>2, <1>3, <1>4 DEF Command
  <2>2. Preview(s, d) = Preview(s, c)
    BY <2>1, <1>4 DEF Preview
  <2> QED BY <1>2, <1>4, <2>1, <2>2
<1>5. CASE c.type = "cache"
  <2>1. /\ d \in Command /\ d.view = view /\ d.type = c.type /\ d.epoch = c.epoch
        /\ d.wanted = c.wanted /\ d.base = c.base /\ d.range = c.range /\ d.fresh = c.fresh
    BY <1>2, <1>3, <1>5 DEF Command
  <2>2. Preview(s, d) = Preview(s, c)
    BY <2>1, <1>5 DEF Preview
  <2> QED BY <1>2, <1>5, <2>1, <2>2
<1> QED BY <1>4, <1>5 DEF IsBuild

Replacing(c, d) == [x \in Command |-> IF x = c THEN d ELSE x]

\* The build with its result is the same command otherwise.
LEMMA ReplacingIs ==
    ASSUME NEW c \in Command, NEW d \in Command, IsBuild(c), d.type = c.type,
           d.epoch = c.epoch, c.type = "build" => d.file = c.file,
           c.type = "cache" => d.wanted = c.wanted, d.range = c.range
    PROVE  /\ Renames(Replacing(c, d)) /\ RenamesCaches(Replacing(c, d))
           /\ \A iss \in SUBSET Command : c \in iss =>
                 Image(iss, Replacing(c, d)) = (iss \ {c}) \cup {d}
<1>1. /\ Replacing(c, d) \in [Command -> Command]
      /\ \A x \in Command : Replacing(c, d)[x] = IF x = c THEN d ELSE x
  BY DEF Replacing
<1>2. c.type # "enrich"
  BY DEF IsBuild
<1>3. ~IsSpeculative(d)
  BY <1>2 DEF IsSpeculative
<1>4. Renames(Replacing(c, d))
  <2> SUFFICES ASSUME NEW x \in Command
               PROVE  /\ Replacing(c, d)[x].type = x.type /\ Replacing(c, d)[x].epoch = x.epoch
                      /\ x.type \in {"enrich", "build", "scan"} => Replacing(c, d)[x].file = x.file
                      /\ x.type = "enrich" => (Replacing(c, d)[x].search => x.search)
                      /\ IsSpeculative(Replacing(c, d)[x]) => Replacing(c, d)[x] = x
    BY <1>1 DEF Renames
  <2>1. CASE x = c
    <3>1. Replacing(c, d)[x] = d
      BY <1>1, <2>1
    <3> QED BY <1>2, <1>3, <2>1, <3>1 DEF IsBuild
  <2>2. CASE x # c
    <3>1. Replacing(c, d)[x] = x
      BY <1>1, <2>2
    <3> QED BY <3>1
  <2> QED BY <2>1, <2>2
<1>5. RenamesCaches(Replacing(c, d))
  BY <1>1 DEF RenamesCaches
<1>6. ASSUME NEW iss \in SUBSET Command, c \in iss
      PROVE  Image(iss, Replacing(c, d)) = (iss \ {c}) \cup {d}
  BY <1>1, <1>6 DEF Image
<1> QED BY <1>4, <1>5, <1>6

\* The worker has built what the admission will do, if nothing changes until then.
LEMMA BuildRun ==
    ASSUME NEW s, J(s), NEW c \in s.issued, IsBuild(c), NEW d, d = [c EXCEPT !.view = Preview(s, c)],
           NEW t, t = [s EXCEPT !.issued = (@ \ {c}) \cup {d}]
    PROVE  J(t) /\ Kin(s, t) /\ t.cacheUpdate = s.cacheUpdate /\ Leased(t) = Leased(s)
<1>1. Base(s) /\ FrameTrue(s) /\ s \in Session /\ s.epoch \in Nat
  BY SessionIs DEF J, Base
<1>2. Queue(s.commands, s.issued, s.epoch)
  BY <1>1 DEF Base
<1>3. s.issued \in SUBSET Command /\ c \in Command /\ s.commands \in Seq(Command) /\ IsFiniteSet(s.issued)
  BY <1>2, QueueIs
<1>4. /\ d \in Command /\ d.view = Preview(s, c) /\ d.type = c.type /\ d.epoch = c.epoch
      /\ c.type = "build" => d.file = c.file
      /\ d.base = c.base /\ d.range = c.range /\ d.fresh = c.fresh
      /\ c.type = "cache" => d.wanted = c.wanted
      /\ Preview(s, d) = d.view
  BY <1>1, <1>3, PreviewIs
<1>5. PICK G : G = Replacing(c, d)
  OBVIOUS
<1>6. Renames(G) /\ RenamesCaches(G) /\ Image(s.issued, G) = (s.issued \ {c}) \cup {d}
  BY <1>3, <1>4, <1>5, ReplacingIs
<1>7. PICK F : F = Same
  OBVIOUS
<1>8. Renames(F) /\ RenamesCaches(F) /\ Mapped(s.commands, F) = s.commands
  BY <1>3, <1>7, SameIs
<1>9. Image(s.issued, G) \in SUBSET Command
  BY <1>3, <1>6, ImageIs DEF Renames
<1>10. /\ t \in Session /\ t.commands = Mapped(s.commands, F) /\ t.issued = Image(s.issued, G)
       /\ t.status = s.status /\ t.cacheUpdate = s.cacheUpdate /\ t.held = s.held
       /\ t.epoch = s.epoch /\ t.cursor = s.cursor /\ t.focused = s.focused
       /\ t.frame = s.frame /\ t.shutdown = s.shutdown
       /\ t.lastUsed = s.lastUsed /\ t.raced = s.raced
  <2>1. (s.issued \ {c}) \cup {d} \in SUBSET Command
    BY <1>6, <1>9
  <2> QED BY <1>1, <1>6, <1>8, <2>1 DEF Session
<1>11. Kin(s, t) /\ Loading(t) = Loading(s)
  BY <1>10 DEF Kin, Retained, Loading
<1>12. Base(t)
  <2>1. Queue(Mapped(s.commands, F), Image(s.issued, G), s.epoch)
    BY <1>1, <1>2, <1>6, <1>8, RemapQueue
  <2> QED BY <1>10, <2>1 DEF Base
<1>13. LoadsOK(s) => LoadsOK(t)
  <2> SUFFICES ASSUME Loads(s.commands, s.issued, s.epoch, Loading(s))
               PROVE  Loads(t.commands, t.issued, t.epoch, Loading(t))
    BY DEF LoadsOK
  <2>1. Loads(Mapped(s.commands, F), Image(s.issued, G), s.epoch, Loading(s))
    BY <1>2, <1>6, <1>8, RemapLoads
  <2> QED BY <1>10, <1>11, <2>1
<1>14. CachesOK(s) => CachesOK(t)
  <2> SUFFICES ASSUME Caches(s.commands, s.issued, s.epoch, s.cacheUpdate)
               PROVE  Caches(t.commands, t.issued, t.epoch, t.cacheUpdate)
    BY DEF CachesOK
  <2>1. Caches(Mapped(s.commands, F), Image(s.issued, G), s.epoch, s.cacheUpdate)
    BY <1>2, <1>6, <1>8, RemapCaches
  <2> QED BY <1>10, <2>1
<1>15. t.commands = s.commands /\ t.issued = (s.issued \ {c}) \cup {d}
  BY <1>6, <1>8, <1>10
<1>16. /\ \A x \in All(t) : x \in All(s) \/ x = d
       /\ \A x \in All(s) : x \in All(t) \/ x = c
       /\ c \in All(s) /\ d \in All(t)
  BY <1>15 DEF All
<1>17. Scans(t) = Scans(s)
  <2>1. c.type # "scan" /\ d.type # "scan"
    BY <1>4 DEF IsBuild
  <2>2. \A x : x \in Scans(t) <=> x \in Scans(s)
    BY <1>10, <1>16, <2>1 DEF Scans, Ours
  <2> QED BY <2>2
<1>18. Leased(t) = Leased(s)
  BY <1>10, <1>17 DEF Leased
<1>19. Fresh(s) => Fresh(t)
  <2> SUFFICES ASSUME Fresh(s), NEW x \in All(t), Admissible(t, x)
               PROVE  UpToDate(t, x)
    BY DEF Fresh
  <2>1. Preview(t, x) = Preview(s, x)
    BY <1>11, <1>18, PreviewSame DEF Kin
  <2>2. CASE x \in All(s)
    <3>1. UpToDate(s, x)
      BY <1>10, <2>2 DEF Fresh, Admissible, Ours
    <3> QED BY <1>10, <2>1, <3>1 DEF UpToDate
  <2>3. CASE x = d
    <3>1. Admissible(s, c)
      BY <1>4, <1>10, <2>3 DEF Admissible, Ours, IsBuild
    <3>2. UpToDate(s, c)
      BY <1>16, <3>1 DEF Fresh
    <3> QED BY <1>4, <1>10, <2>1, <2>3, <3>2 DEF UpToDate
  <2> QED BY <1>16, <2>2, <2>3
<1>20. Keeps(s, t)
  BY <1>11, <1>12, <1>13, <1>14, <1>19 DEF Keeps
<1>21. J(t)
  BY <1>20, KeepsInvariant
<1> QED BY <1>10, <1>11, <1>18, <1>21

\* The cursor moves.
LEMMA CursorMoved ==
    ASSUME NEW s, J(s), NEW c \in Cursor, NEW u, u = [s EXCEPT !.cursor = c],
           NEW t, t = u \/ t = Revised(u)
    PROVE  /\ J(t) /\ t.epoch = s.epoch /\ t.focused = s.focused /\ t.cursor = c
           /\ Retained(t) = Retained(s)
<1>1. Base(s) /\ FrameTrue(s) /\ s \in Session
  BY DEF J, Base
<1>2. /\ u \in Session /\ u.commands = s.commands /\ u.issued = s.issued
      /\ u.status = s.status /\ u.cacheUpdate = s.cacheUpdate /\ u.held = s.held
      /\ u.epoch = s.epoch /\ u.cursor = c /\ u.focused = s.focused
      /\ u.frame = s.frame /\ u.shutdown = s.shutdown
      /\ u.lastUsed = s.lastUsed /\ u.raced = s.raced
  BY <1>1 DEF Session
<1>3. Retained(u) = Retained(s) /\ Loading(u) = Loading(s)
  BY <1>2 DEF Retained, Loading
<1>4. /\ Base(u) /\ All(u) = All(s) /\ Leased(u) = Leased(s)
      /\ LoadsOK(s) => LoadsOK(u)
      /\ CachesOK(s) => CachesOK(u)
  <2>1. /\ u.commands = s.commands /\ u.issued = s.issued /\ u.held = s.held
        /\ u.epoch = s.epoch /\ u \in Session /\ u.cacheUpdate = s.cacheUpdate
    BY <1>2
  <2> QED BY <1>1, <1>3, <2>1, SameQueue
<1>5. Fresh(s) => Fresh(u)
  <2> SUFFICES ASSUME Fresh(s), NEW x \in All(u), Admissible(u, x)
               PROVE  UpToDate(u, x)
    BY DEF Fresh
  <2>1. Preview(u, x) = Preview(s, x)
    BY <1>2, <1>3, <1>4, PreviewSame
  <2>2. UpToDate(s, x)
    BY <1>2, <1>4 DEF Fresh, Admissible, Ours
  <2> QED BY <1>2, <2>1, <2>2 DEF UpToDate
<1>6. FrameTrue(u)
  BY <1>1, <1>2, <1>3 DEF FrameTrue
<1>7. J(u)
  BY <1>2, <1>4, <1>5, <1>6 DEF J
<1>8. CASE t = u
  BY <1>2, <1>3, <1>7, <1>8
<1>9. CASE t = Revised(u)
  <2>1. /\ Base(t) /\ Kin(u, t) /\ Fresh(t) /\ (LoadsOK(u) => LoadsOK(t))
        /\ (CachesOK(u) => CachesOK(t))
    BY <1>4, <1>9, RevisedKeeps
  <2>2. Keeps(u, t)
    BY <2>1 DEF Keeps
  <2>3. J(t)
    BY <1>7, <2>2, KeepsInvariant
  <2> QED BY <1>2, <1>3, <2>1, <2>3 DEF Kin
<1> QED BY <1>8, <1>9
\* All the commands are of earlier Sessions.
AllEarlier(q, iss, e) == \A c \in Members(q) \cup iss : c.epoch # e

\* A Session as it is published, with what the earlier ones have left.
LEMMA NewIs ==
    ASSUME NEW e \in Nat, NEW cursor \in Cursor, NEW q, NEW iss, Queue(q, iss, e),
           AllEarlier(q, iss, e), NEW t, t = New(e, cursor, q, iss)
    PROVE  J(t) /\ t.epoch = e
<1>1. q \in Seq(Command) /\ iss \in SUBSET Command
  BY QueueIs
<1>2. cursor.active \in File
  BY DEF Cursor
<1>3. /\ t.epoch = e /\ t.cursor = cursor /\ t.status = [f \in File |-> "pending"]
      /\ t.lastUsed = [f \in File |-> IF f = cursor.active THEN 1 ELSE 0]
      /\ t.recency = 1 /\ t.focused = {cursor.active} /\ t.held = {} /\ t.frame = {}
      /\ t.cacheUpdate = None /\ t.searching = FALSE /\ t.acquired = {} /\ t.scanned = {}
      /\ t.commands = q /\ t.issued = iss /\ t.shutdown = FALSE /\ t.raced = FALSE
  BY DEF New
<1>4. t \in Session
  <2>1. [f \in File |-> "pending"] \in [File -> {"pending", "loading", "ready", "failed"}]
    OBVIOUS
  <2>2. [f \in File |-> IF f = cursor.active THEN 1 ELSE 0] \in [File -> Nat]
    OBVIOUS
  <2>3. {} \in Text /\ {cursor.active} \in Text /\ None \in Text \cup {None}
    BY <1>2 DEF Text
  <2> QED BY <1>1, <2>1, <2>2, <2>3 DEF New, Session
<1>5. Base(t)
  BY <1>3, <1>4 DEF Base
<1>6. Retained(t) = {} /\ Loading(t) = {}
  BY <1>3 DEF Retained, Loading
<1>7. LoadsOK(t)
  <2>1. \A f \in File : \A c \in Members(q) \cup iss : c \notin Fetching(e, f)
    BY DEF Fetching, AllEarlier
  <2>2. \A i \in 1..Len(q) : q[i] \in Members(q)
    BY DEF Members
  <2>3. \A f \in File : AtMostOne(q, iss, Fetching(e, f))
    BY <2>1, <2>2 DEF AtMostOne
  <2>4. Loads(q, iss, e, {})
    BY <2>1, <2>3 DEF Loads
  <2> QED BY <1>3, <1>6, <2>4 DEF LoadsOK
<1>8. CachesOK(t)
  <2>1. \A c \in Members(q) \cup iss : c \notin WantedCaches(e)
    BY DEF WantedCaches, AllEarlier
  <2>2. \A i \in 1..Len(q) : q[i] \in Members(q)
    BY DEF Members
  <2>3. AtMostOne(q, iss, WantedCaches(e))
    BY <2>1, <2>2 DEF AtMostOne
  <2>4. Caches(q, iss, e, None)
    BY <2>1, <2>3 DEF Caches
  <2> QED BY <1>3, <2>4 DEF CachesOK
<1>9. Fresh(t)
  BY <1>3 DEF Fresh, Admissible, Ours, All, AllEarlier
<1>10. FrameTrue(t)
  BY <1>3, <1>6 DEF FrameTrue
<1> QED BY <1>3, <1>5, <1>7, <1>8, <1>9, <1>10 DEF J

\* What a Session leaves to the next one: its reads, and the worker that is busy.
LeftOf(d) == IF d.type = "enrich" THEN d ELSE [type |-> "left", epoch |-> d.epoch]

\* Nothing the old Session leaves behind counts as work of the new one.
LEMMA LeftQueue ==
    ASSUME NEW q, NEW iss, NEW e \in Nat, Queue(q, iss, e), NoSearchWork(q),
           NEW q2, q2 = Kept(q, {d \in Members(q) : ~IsBuild(d)}),
           NEW iss2, iss2 = {LeftOf(d) : d \in iss},
           NEW n, n = e + 1
    PROVE  Queue(q2, iss2, n) /\ AllEarlier(q2, iss2, n)
<1> DEFINE W == {d \in Members(q) : ~IsBuild(d)}
<1>1. /\ q \in Seq(Command) /\ iss \in SUBSET Command /\ IsFiniteSet(iss)
      /\ Members(q) \in SUBSET Command
      /\ \A c \in Members(q) \cup iss : c.epoch <= e /\ (c.epoch # e => Earlier(c))
      /\ \A c, d \in iss : c.type # "enrich" /\ d.type # "enrich" => c = d
  BY QueueIs
<1>2. Queue(q2, iss, e) /\ q2 \in Seq(Command)
  BY KeptQueue, QueueIs
<1>3. Members(q2) = Members(q) \cap W
  BY <1>1, KeptIs
<1>4. \A d \in Command : /\ LeftOf(d) \in Command /\ LeftOf(d).epoch = d.epoch
                         /\ Earlier(LeftOf(d))
                         /\ d.type = "enrich" => LeftOf(d) = d
                         /\ d.type # "enrich" => LeftOf(d).type = "left"
  <2> SUFFICES ASSUME NEW d \in Command
               PROVE  /\ LeftOf(d) \in Command /\ LeftOf(d).epoch = d.epoch
                      /\ Earlier(LeftOf(d))
                      /\ d.type = "enrich" => LeftOf(d) = d
                      /\ d.type # "enrich" => LeftOf(d).type = "left"
    OBVIOUS
  <2>1. d.epoch \in Nat
    BY CommandIs
  <2>2. CASE d.type = "enrich"
    BY <2>2 DEF LeftOf, Earlier
  <2>3. CASE d.type # "enrich"
    <3>1. LeftOf(d) = [type |-> "left", epoch |-> d.epoch]
      BY <2>3 DEF LeftOf
    <3> QED BY <2>1, <2>3, <3>1 DEF Command, Earlier
  <2> QED BY <2>2, <2>3
<1>5. iss2 \in SUBSET Command
  BY <1>1, <1>4
<1>6. IsFiniteSet(iss2)
  <2>1. PICK F : F = [d \in Command |-> LeftOf(d)]
    OBVIOUS
  <2>2. F \in [Command -> Command] /\ \A d \in Command : F[d] = LeftOf(d)
    BY <1>4, <2>1
  <2>3. IsFiniteSet(Image(iss, F))
    BY <1>1, <2>2, ImageIs
  <2>4. Image(iss, F) = iss2
    BY <1>1, <2>2 DEF Image
  <2> QED BY <2>3, <2>4
<1>7. \A c \in Members(q2) \cup iss2 : c.epoch <= e + 1 /\ c.epoch # e + 1 /\ Earlier(c)
  <2>1. ASSUME NEW c \in Members(q2)
        PROVE  c.epoch <= e + 1 /\ c.epoch # e + 1 /\ Earlier(c)
    <3>1. c \in Members(q) /\ ~IsBuild(c) /\ c \in Command /\ c.epoch \in Nat
      BY <1>1, <1>3, CommandIs
    <3>2. c.epoch <= e
      BY <1>1, <3>1
    <3>3. c.type # "scan"
      BY <3>1 DEF NoSearchWork
    <3>4. c.type \in {"enrich", "build", "cache", "scan", "left"}
      BY <3>1, CommandIs
    <3> QED BY <3>1, <3>2, <3>3, <3>4 DEF Earlier, IsBuild
  <2>2. ASSUME NEW c \in iss2
        PROVE  c.epoch <= e + 1 /\ c.epoch # e + 1 /\ Earlier(c)
    <3>1. PICK d \in iss : c = LeftOf(d)
      OBVIOUS
    <3>2. d \in Command /\ d.epoch \in Nat /\ d.epoch <= e
      BY <1>1, CommandIs
    <3>3. c.epoch = d.epoch /\ Earlier(c)
      BY <1>4, <3>1, <3>2
    <3> QED BY <3>2, <3>3
  <2> QED BY <2>1, <2>2
<1>8. \A c \in Members(q2) : c.epoch # e + 1 /\ c.type = "enrich" => ~c.search
  BY <1>3 DEF NoSearchWork
<1>9. \A c, d \in iss2 : c.type # "enrich" /\ d.type # "enrich" => c = d
  <2> SUFFICES ASSUME NEW c \in iss2, NEW d \in iss2, c.type # "enrich", d.type # "enrich"
               PROVE  c = d
    OBVIOUS
  <2>1. PICK x \in iss : c = LeftOf(x)
    OBVIOUS
  <2>2. PICK y \in iss : d = LeftOf(y)
    OBVIOUS
  <2>3. x \in Command /\ y \in Command
    BY <1>1
  <2>4. x.type # "enrich" /\ y.type # "enrich"
    BY <1>4, <2>1, <2>2, <2>3
  <2> QED BY <1>1, <2>1, <2>2, <2>4
<1>10. Cardinality(SpeculativeIn(iss2)) <= Cardinality(SpeculativeIn(iss))
  <2>1. ASSUME NEW c \in SpeculativeIn(iss2) PROVE c \in SpeculativeIn(iss)
    <3>1. c \in iss2 /\ IsSpeculative(c)
      BY <2>1 DEF SpeculativeIn
    <3>2. PICK d \in iss : c = LeftOf(d)
      BY <3>1
    <3>3. c.type = "enrich"
      BY <3>1 DEF IsSpeculative
    <3>4. d \in Command
      BY <1>1
    <3>5. c = d
      BY <1>4, <3>2, <3>3, <3>4
    <3> QED BY <3>1, <3>5 DEF SpeculativeIn
  <2> QED BY <1>1, <2>1, FewerIssued
<1>11. Queue(q2, iss2, n)
  <2>2. Cardinality(SpeculativeAt(q2)) <= Cardinality(SpeculativeAt(q2))
    BY <1>1, <1>2, SpeculativeFinite
  <2>3. \A c \in Members(q2) \cup iss2 : c.epoch <= n /\ (c.epoch # n => Earlier(c))
    BY <1>7
  <2>4. \A c \in Members(q2) : c.epoch # n /\ c.type = "enrich" => ~c.search
    BY <1>8
  <2> QED BY <1>2, <1>5, <1>6, <1>9, <1>10, <2>2, <2>3, <2>4, QueueFrom
<1>12. AllEarlier(q2, iss2, n)
  BY <1>7 DEF AllEarlier
<1> QED BY <1>11, <1>12

\* Another Session is published.
LEMMA Replaced ==
    ASSUME NEW s, J(s), NEW cursor \in Cursor, NEW old, old = DiscardSearch(s),
           NEW q, q = Kept(old.commands, {d \in Members(old.commands) : ~IsBuild(d)}),
           NEW iss, iss = {LeftOf(d) : d \in old.issued},
           NEW t, t = New(s.epoch + 1, cursor, q, iss)
    PROVE  J(t) /\ t.epoch # s.epoch
<1>1. Base(old) /\ Kin(s, old) /\ NoSearchWork(old.commands)
  BY DiscardSearchKeeps DEF J, Keeps
<1>2. old.epoch = s.epoch /\ s.epoch \in Nat
  BY <1>1, SessionIs DEF Kin, J, Base
<1>3. Queue(old.commands, old.issued, s.epoch)
  BY <1>1, <1>2 DEF Base
<1>4. PICK e : e = s.epoch + 1
  OBVIOUS
<1>5. e \in Nat /\ e # s.epoch
  BY <1>2, <1>4
<1>6. PICK oq : oq = old.commands
  OBVIOUS
<1>7. PICK oi : oi = old.issued
  OBVIOUS
<1>8. PICK se \in Nat : se = s.epoch
  BY <1>2
<1>9. Queue(oq, oi, se) /\ NoSearchWork(oq)
  BY <1>1, <1>3, <1>6, <1>7, <1>8
<1>10. q = Kept(oq, {d \in Members(oq) : ~IsBuild(d)}) /\ iss = {LeftOf(d) : d \in oi}
  BY <1>6, <1>7
<1>11. e = se + 1
  BY <1>4, <1>8
<1>12. Queue(q, iss, e) /\ AllEarlier(q, iss, e)
  BY <1>9, <1>10, <1>11, LeftQueue
<1>13. PICK w : w = New(e, cursor, q, iss)
  OBVIOUS
<1>14. J(w) /\ w.epoch = e
  BY <1>5, <1>12, <1>13, NewIs
<1>15. t = w
  BY <1>4, <1>13
<1> QED BY <1>5, <1>14, <1>15

\* The first Session.
LEMMA FirstSession ==
    ASSUME NEW cursor \in Cursor, NEW t, t = New(1, cursor, << >>, {})
    PROVE  J(t)
<1>1. PICK q : q = << >>
  OBVIOUS
<1>2. PICK iss : iss = {}
  OBVIOUS
<1>3. PICK e : e = 1
  OBVIOUS
<1>4. Members(q) = {} /\ q \in Seq(Command) /\ Len(q) = 0
  BY <1>1 DEF Members
<1>5. Queue(q, iss, e)
  <2>1. SpeculativeAt(q) = {} /\ SpeculativeIn(iss) = {}
    BY <1>2, <1>4 DEF SpeculativeAt, SpeculativeIn
  <2>2. IsFiniteSet({}) /\ Cardinality({}) = 0
    BY FS_EmptySet
  <2>3. Cardinality(SpeculativeAt(q)) + Cardinality(SpeculativeIn(iss)) <= MaxSpeculative
    BY <2>1, <2>2, BoundsAssumption
  <2> QED BY <1>2, <1>4, <2>2, <2>3 DEF Queue
<1>6. e \in Nat /\ AllEarlier(q, iss, e)
  BY <1>2, <1>3, <1>4 DEF AllEarlier
<1>7. PICK w : w = New(e, cursor, q, iss)
  OBVIOUS
<1>8. J(w)
  BY <1>5, <1>6, <1>7, NewIs
<1>9. t = w
  BY <1>1, <1>2, <1>3, <1>7
<1> QED BY <1>8, <1>9
-----------------------------------------------------------------------------
(* The actions.                                                            *)

\* What every step keeps, and whose text it may evict.
Steps(s, t) ==
    /\ J(t) /\ Focus(t)
    /\ s.epoch = t.epoch =>
          \A f \in Retained(s) : f \notin Retained(t) => f \notin t.focused \cup Leased(s)

\* A turn that begins with an event that is no admission.
LEMMA TurnSteps ==
    ASSUME NEW s, NEW u, J(u), Retained(u) = Retained(s), NEW t, t = Turn(u)
    PROVE  Steps(s, t)
<1>1. Settled(u, t)
  BY TurnSettles
<1> QED BY <1>1 DEF Settled, Steps

\* The same, for a handler that leaves the Storage alone.
LEMMA KinSteps ==
    ASSUME NEW s, NEW u, J(u), Kin(s, u), NEW t, t = Turn(u)
    PROVE  Steps(s, t)
<1>1. Retained(u) = Retained(s)
  BY DEF Kin
<1> QED BY <1>1, TurnSteps

\* A turn that begins with an admission.
LEMMA AdmissionSteps ==
    ASSUME NEW s, Focus(s), ~s.shutdown, NEW u, J(u), u.epoch = s.epoch, u.cursor = s.cursor,
           \/ u.focused = s.focused /\ (s.cacheUpdate # None => u.cacheUpdate # None)
           \/ u.focused = s.cacheUpdate /\ s.cacheUpdate # None,
           \A g \in Retained(s) : g \notin Retained(u) => g \notin u.focused \cup Leased(s),
           NEW t, t = Turn(u)
    PROVE  Steps(s, t)
<1>1. Settled(u, t)
  BY TurnSettles
<1>2. enrichmentRange(u) = enrichmentRange(s)
  BY enrichmentRangeIs
<1>3. t.focused = u.focused
  <2>1. t.focused = u.focused \/ (u.cacheUpdate = None /\ t.focused = enrichmentRange(u))
    BY <1>1 DEF Settled
  <2>2. CASE u.focused = s.focused /\ (s.cacheUpdate # None => u.cacheUpdate # None)
    BY <1>2, <2>1, <2>2 DEF Focus
  <2>3. CASE u.focused = s.cacheUpdate /\ s.cacheUpdate # None
    BY <1>2, <2>1, <2>3 DEF Focus
  <2> QED BY <2>2, <2>3
<1>4. J(t) /\ Focus(t) /\ Retained(t) = Retained(u)
  BY <1>1 DEF Settled
<1> QED BY <1>3, <1>4 DEF Steps

\* The cursor moves, or the view is isolated.
LEMMA MoveCursorSteps ==
    ASSUME IInv, MoveCursor
    PROVE  Steps(p, p')
<1>1. PICK c \in Cursor : p' = Turn(IF c.active # p.cursor.active \/ c.isolated # p.cursor.isolated
                                    THEN Revised([p EXCEPT !.cursor = c])
                                    ELSE [p EXCEPT !.cursor = c])
  BY DEF MoveCursor, Handle
<1>2. PICK u : u = [p EXCEPT !.cursor = c]
  OBVIOUS
<1>3. PICK t : t = IF c.active # p.cursor.active \/ c.isolated # p.cursor.isolated
                   THEN Revised(u) ELSE u
  OBVIOUS
<1>4. t = u \/ t = Revised(u)
  BY <1>3
<1>5. p' = Turn(t)
  BY <1>1, <1>2, <1>3
<1>6. J(p)
  BY DEF IInv
<1>7. J(t) /\ Retained(t) = Retained(p)
  BY <1>2, <1>4, <1>6, CursorMoved
<1> QED BY <1>5, <1>7, TurnSteps

\* The Review search is opened.
LEMMA OpenSearchSteps ==
    ASSUME IInv, OpenSearch
    PROVE  Steps(p, p')
<1>1. PICK u : u = openReviewSearch(p)
  OBVIOUS
<1>2. p' = Turn(u)
  BY <1>1 DEF OpenSearch, Handle
<1>3. J(p) /\ Base(p)
  BY DEF IInv, J
<1>4. Keeps(p, u)
  BY <1>1, <1>3, openReviewSearchKeeps
<1>5. J(u) /\ Kin(p, u)
  BY <1>3, <1>4, KeepsInvariant DEF Keeps
<1> QED BY <1>2, <1>5, KinSteps

\* The Review search is closed.
LEMMA CloseSearchSteps ==
    ASSUME IInv, CloseSearch
    PROVE  Steps(p, p')
<1>1. PICK u : u = closeReviewSearch(p)
  OBVIOUS
<1>2. p' = Turn(u)
  BY <1>1 DEF CloseSearch, Handle
<1>3. J(p) /\ Base(p)
  BY DEF IInv, J
<1>4. Keeps(p, u)
  BY <1>1, <1>3, closeReviewSearchKeeps
<1>5. J(u) /\ Kin(p, u)
  BY <1>3, <1>4, KeepsInvariant DEF Keeps
<1> QED BY <1>2, <1>5, KinSteps

\* acceptPreparedSession.
LEMMA ReplaceSessionSteps ==
    ASSUME IInv, ReplaceSession
    PROVE  Steps(p, p')
<1>1. PICK old : old = DiscardSearch(p)
  OBVIOUS
<1>2. PICK iss : iss = {LeftOf(d) : d \in old.issued}
  OBVIOUS
<1>3. PICK q : q = Kept(old.commands, {d \in Members(old.commands) : ~IsBuild(d)})
  OBVIOUS
<1>4. PICK c \in Cursor : p' = Turn(New(p.epoch + 1, c, q, iss))
  BY <1>1, <1>2, <1>3 DEF ReplaceSession, Handle, LeftOf
<1>5. PICK u : u = New(p.epoch + 1, c, q, iss)
  OBVIOUS
<1>6. J(p)
  BY DEF IInv
<1>7. J(u) /\ u.epoch # p.epoch
  BY <1>1, <1>2, <1>3, <1>5, <1>6, Replaced
<1>8. p' = Turn(u)
  BY <1>4, <1>5
<1>9. Settled(u, p')
  BY <1>7, <1>8, TurnSettles
<1>10. J(p') /\ Focus(p') /\ p'.epoch # p.epoch
  BY <1>7, <1>9 DEF Settled
<1> QED BY <1>10 DEF Steps

\* Shutting down, with or without a failed read.
LEMMA ShutdownSteps ==
    ASSUME NEW s, NEW v, J(v), Retained(v) = Retained(s), NEW u, u = requestShutdown(v),
           NEW t, t = Turn(u)
    PROVE  Steps(s, t)
<1>1. Base(v) /\ FrameTrue(v)
  BY DEF J
<1>2. /\ Base(u) /\ u.shutdown /\ Retained(u) = Retained(v)
      /\ FrameTrue(u)
  BY <1>1, requestShutdownEnds
<1>3. J(u)
  BY <1>2 DEF J
<1> QED BY <1>2, <1>3, TurnSteps

\* requestShutdown.
LEMMA QuitSteps ==
    ASSUME IInv, Quit
    PROVE  Steps(p, p')
<1>1. PICK u : u = requestShutdown(p)
  OBVIOUS
<1>2. p' = Turn(u)
  BY <1>1 DEF Quit, Handle
<1>3. J(p) /\ Retained(p) = Retained(p)
  BY DEF IInv
<1> QED BY <1>1, <1>2, <1>3, ShutdownSteps

\* Consumed is Without of the current Session.
LEMMA ConsumedIs ==
    ASSUME NEW c
    PROVE  Consumed(c) = Without(p, c)
  BY DEF Consumed, Without

\* A completion that no longer applies.
LEMMA DropSteps ==
    ASSUME IInv, Drop
    PROVE  Steps(p, p')
<1>1. PICK c \in p.issued : /\ ~Applies(c) \/ (c.type = "cache" /\ ~c.wanted)
                            /\ p' = Turn(Without(p, c))
  BY ConsumedIs DEF Drop, Handle
<1>2. PICK u : u = Without(p, c)
  OBVIOUS
<1>3. J(p)
  BY DEF IInv
<1>4. \/ p.shutdown \/ c.epoch # p.epoch
      \/ c.type = "cache" /\ c \notin WantedCaches(p.epoch)
  BY <1>1 DEF Applies, Ours, WantedCaches
<1>5. J(u) /\ Kin(p, u)
  BY <1>1, <1>2, <1>3, <1>4, DroppedCompletion
<1>6. p' = Turn(u)
  BY <1>1, <1>2
<1> QED BY <1>5, <1>6, KinSteps

\* A command the workers have issued for this Session.
LEMMA IssuedIs ==
    ASSUME IInv, NEW c \in p.issued
    PROVE  J(p) /\ Base(p) /\ c \in Command
<1>1. J(p) /\ Base(p)
  BY DEF IInv, J
<1>2. p.issued \in SUBSET Command
  BY <1>1, SessionIs DEF Base
<1> QED BY <1>1, <1>2

\* acceptFileEnrichment.
LEMMA FileFetchedSteps ==
    ASSUME IInv, FileFetched
    PROVE  Steps(p, p')
<1>1. PICK c \in p.issued, result \in {"ready", "failed"} :
         /\ c.type = "enrich" /\ Applies(c)
         /\ p' = Turn([Without(p, c) EXCEPT !.commands =
                          Append(@, EnrichmentBuild(Without(p, c), c.file, c.speculative, result))])
  BY ConsumedIs DEF FileFetched, Handle
<1>2. PICK u : u = Without(p, c)
  OBVIOUS
<1>3. J(p) /\ c \in Command
  BY IssuedIs
<1>4. PICK speculative \in BOOLEAN : speculative = c.speculative
  BY <1>1, <1>3, CommandIs
<1>5. PICK t : t = [u EXCEPT !.commands =
                       Append(@, EnrichmentBuild(u, c.file, speculative, result))]
  OBVIOUS
<1>6. ~p.shutdown /\ c.epoch = p.epoch /\ c.type \in {"enrich", "build"}
  BY <1>1 DEF Applies, Ours
<1>7. J(t) /\ Kin(p, t)
  BY <1>1, <1>2, <1>3, <1>5, <1>6, BuildQueued
<1>8. p' = Turn(t)
  BY <1>1, <1>2, <1>4, <1>5
<1> QED BY <1>7, <1>8, KinSteps
\* The state after the read or build of a File was given up.
LEMMA GivenUpIs ==
    ASSUME IInv, NEW c \in p.issued, c.type \in {"enrich", "build"}, Applies(c),
           NEW t, t = resetLoading(Consumed(c), {c.file})
    PROVE  J(t) /\ Kin(p, t) /\ c.file \in File
<1>1. J(p) /\ c \in Command
  BY IssuedIs
<1>2. ~p.shutdown /\ c.epoch = p.epoch
  BY DEF Applies, Ours
<1>3. PICK u : u = Without(p, c)
  OBVIOUS
<1>4. PICK fs : fs = {c.file}
  OBVIOUS
<1>5. PICK w : w = resetLoading(u, fs)
  OBVIOUS
<1>6. J(w) /\ Kin(p, w)
  BY <1>1, <1>2, <1>3, <1>4, <1>5, GivenUp
<1>7. t = w
  BY <1>3, <1>4, <1>5, ConsumedIs
<1>8. c.file \in File
  BY <1>1, CommandIs
<1> QED BY <1>6, <1>7, <1>8

\* A read that failed.
LEMMA FetchFailedSteps ==
    ASSUME IInv, FetchFailed
    PROVE  Steps(p, p')
<1>1. PICK c \in p.issued :
         /\ c.type = "enrich" /\ Applies(c)
         /\ LET s == resetLoading(Consumed(c), {c.file})
            IN  \/ p' = Turn(s)
                \/ p' = Turn(QueueScan(Pump(Acquired(s, c.file))))
                \/ p' = Turn(requestShutdown(s))
  BY DEF FetchFailed, Handle
<1>2. PICK s : s = resetLoading(Consumed(c), {c.file})
  OBVIOUS
<1>3. J(s) /\ Kin(p, s) /\ c.file \in File
  <2>1. c.type \in {"enrich", "build"}
    BY <1>1
  <2> QED BY <1>1, <1>2, <2>1, GivenUpIs
<1>4. CASE p' = Turn(s)
  BY <1>3, <1>4, KinSteps
<1>5. CASE p' = Turn(QueueScan(Pump(Acquired(s, c.file))))
  <2>1. PICK f \in File : f = c.file
    BY <1>3
  <2>2. PICK a : a = Acquired(s, f)
    OBVIOUS
  <2>3. PICK b : b = Pump(a)
    OBVIOUS
  <2>4. PICK d : d = QueueScan(b)
    OBVIOUS
  <2>5. Keeps(s, a)
    BY <1>3, <2>2, AcquiredKeeps DEF J
  <2>6. Keeps(a, b)
    BY <2>3, <2>5, PumpKeeps DEF Keeps
  <2>7. Keeps(b, d)
    BY <2>4, <2>6, QueueScanKeeps DEF Keeps
  <2>8. Keeps(s, d)
    BY <2>5, <2>6, <2>7, KeepsTransitive
  <2>9. J(d) /\ Kin(p, d)
    BY <1>3, <2>8, KeepsInvariant, KinTransitive DEF Keeps
  <2>10. p' = Turn(d)
    BY <1>5, <2>1, <2>2, <2>3, <2>4
  <2> QED BY <2>9, <2>10, KinSteps
<1>6. CASE p' = Turn(requestShutdown(s))
  <2>1. PICK d : d = requestShutdown(s)
    OBVIOUS
  <2>2. Retained(s) = Retained(p)
    BY <1>3 DEF Kin
  <2>3. p' = Turn(d)
    BY <1>6, <2>1
  <2> QED BY <1>3, <2>1, <2>2, <2>3, ShutdownSteps
<1> QED BY <1>1, <1>2, <1>4, <1>5, <1>6

\* A read whose build cannot be queued.
LEMMA BuildRefusedSteps ==
    ASSUME IInv, BuildRefused
    PROVE  Steps(p, p')
<1>1. PICK c \in p.issued :
         c.type = "enrich" /\ Applies(c) /\ p' = Turn(resetLoading(Consumed(c), {c.file}))
  BY DEF BuildRefused, Handle
<1>2. PICK s : s = resetLoading(Consumed(c), {c.file})
  OBVIOUS
<1>3. J(s) /\ Kin(p, s)
  <2>1. c.type \in {"enrich", "build"}
    BY <1>1
  <2> QED BY <1>1, <1>2, <2>1, GivenUpIs
<1>4. p' = Turn(s)
  BY <1>1, <1>2
<1> QED BY <1>3, <1>4, KinSteps

\* DisclosureBuild.run.
LEMMA RunBuildSteps ==
    ASSUME IInv, RunBuild
    PROVE  Steps(p, p')
<1>1. PICK c \in p.issued :
         /\ IsBuild(c)
         /\ p' = [p EXCEPT !.issued = (@ \ {c}) \union {[c EXCEPT !.view = Preview(p, c)]}]
  BY DEF RunBuild
<1>2. PICK d : d = [c EXCEPT !.view = Preview(p, c)]
  OBVIOUS
<1>3. p' = [p EXCEPT !.issued = (@ \ {c}) \cup {d}]
  BY <1>1, <1>2
<1>4. J(p) /\ Focus(p)
  BY DEF IInv
<1>5. J(p') /\ Kin(p, p') /\ p'.cacheUpdate = p.cacheUpdate
  BY <1>1, <1>2, <1>3, <1>4, BuildRun
<1>6. enrichmentRange(p') = enrichmentRange(p)
  BY <1>5 DEF enrichmentRange, Kin
<1>7. Focus(p')
  BY <1>4, <1>5, <1>6 DEF Focus, Kin
<1> QED BY <1>5, <1>7 DEF Steps, Kin

\* acceptViewBuild: the build is made again, or admitted.
LEMMA BuildDoneSteps ==
    ASSUME IInv, BuildDone
    PROVE  Steps(p, p')
<1>1. PICK c \in p.issued :
         /\ Wanted(c) /\ c.view # None
         /\ LET s == Consumed(c)
            IN  p' = Turn(IF ~IsFresh(c) THEN Retried(s, c)
                          ELSE IF c.type = "build" THEN AdmitFile(s, c) ELSE AdmitCache(s, c))
  BY DEF BuildDone, Handle
<1>2. J(p) /\ Focus(p) /\ c \in Command
  BY IssuedIs DEF IInv
<1>3. IsBuild(c) /\ ~p.shutdown /\ c.epoch = p.epoch /\ (c.type = "cache" => c.wanted)
  BY <1>1 DEF Wanted, Applies, Ours
<1>4. c.type # "build" => c.type = "cache" /\ c \in WantedCaches(p.epoch)
  BY <1>2, <1>3 DEF IsBuild, WantedCaches
<1>5. PICK s : s = Without(p, c)
  OBVIOUS
<1>6. s = Consumed(c)
  BY <1>5, ConsumedIs
<1>7. CASE c.fresh
  <2>1. CanAdmit(p, c)
    BY <1>1, <1>2, <1>3, <1>7 DEF CanAdmit
  <2>2. CASE c.type = "build"
    <3>1. PICK t : t = AdmitFile(Without(p, c), c)
      OBVIOUS
    <3>2. /\ J(t) /\ t.epoch = p.epoch /\ t.cursor = p.cursor /\ t.focused = p.focused
          /\ p.cacheUpdate # None => t.cacheUpdate # None
          /\ \A g \in Retained(p) : g \notin Retained(t) => g \notin p.focused \cup Leased(p)
      BY <2>1, <2>2, <3>1, FileAdmitted
    <3>3. p' = Turn(t)
      BY <1>1, <1>7, <2>2, <3>1, ConsumedIs DEF IsFresh
    <3>4. \A g \in Retained(p) : g \notin Retained(t) => g \notin t.focused \cup Leased(p)
      BY <3>2
    <3> QED BY <1>2, <1>3, <3>2, <3>3, <3>4, AdmissionSteps
  <2>3. CASE c.type # "build"
    <3>1. PICK t : t = AdmitCache(Without(p, c), c)
      OBVIOUS
    <3>2. c \in WantedCaches(p.epoch)
      BY <1>4, <2>3
    <3>3. /\ J(t) /\ t.epoch = p.epoch /\ t.cursor = p.cursor /\ t.focused = c.range
          /\ c.range = p.cacheUpdate /\ p.cacheUpdate # None
          /\ \A g \in Retained(p) : g \notin Retained(t) => g \notin c.range \cup Leased(p)
      BY <2>1, <3>1, <3>2, CacheAdmitted
    <3>4. p' = Turn(t)
      BY <1>1, <1>7, <2>3, <3>1, ConsumedIs DEF IsFresh
    <3>5. \A g \in Retained(p) : g \notin Retained(t) => g \notin t.focused \cup Leased(p)
      BY <3>3
    <3>6. t.focused = p.cacheUpdate
      BY <3>3
    <3> QED BY <1>2, <1>3, <3>3, <3>4, <3>5, <3>6, AdmissionSteps
  <2> QED BY <2>2, <2>3
<1>8. CASE ~c.fresh
  <2>1. p' = Turn(Retried(s, c))
    BY <1>1, <1>6, <1>8 DEF IsFresh
  <2>2. CASE c.type = "build"
    <3>1. PICK speculative \in BOOLEAN : speculative = c.speculative
      BY <1>2, <2>2, CommandIs
    <3>2. PICK result \in {"ready", "failed"} : result = c.result
      BY <1>2, <2>2, CommandIs
    <3>3. PICK t : t = [s EXCEPT !.commands =
                           Append(@, EnrichmentBuild(s, c.file, speculative, result))]
      OBVIOUS
    <3>4. c.type \in {"enrich", "build"}
      BY <2>2
    <3>5. J(t) /\ Kin(p, t)
      BY <1>2, <1>3, <1>5, <3>3, <3>4, BuildQueued
    <3>6. p' = Turn(t)
      BY <2>1, <2>2, <3>1, <3>2, <3>3 DEF Retried
    <3> QED BY <3>5, <3>6, KinSteps
  <2>3. CASE c.type # "build"
    <3>1. PICK range : range = s.cacheUpdate
      OBVIOUS
    <3>2. PICK t : t = queueCacheBuild(s, range)
      OBVIOUS
    <3>3. J(t) /\ Kin(p, t)
      BY <1>2, <1>3, <1>4, <1>5, <2>3, <3>1, <3>2, CacheRetried
    <3>4. p' = Turn(t)
      BY <2>1, <2>3, <3>1, <3>2 DEF Retried
    <3> QED BY <3>3, <3>4, KinSteps
  <2> QED BY <2>2, <2>3
<1> QED BY <1>7, <1>8

\* acceptViewBuild of a build that failed.
LEMMA BuildFailedSteps ==
    ASSUME IInv, BuildFailed
    PROVE  Steps(p, p')
<1>1. PICK c \in p.issued : Wanted(c) /\ p' = Turn(Abandoned(Consumed(c), c))
  BY DEF BuildFailed, Handle
<1>2. J(p) /\ c \in Command
  BY IssuedIs
<1>3. IsBuild(c) /\ ~p.shutdown /\ c.epoch = p.epoch /\ (c.type = "cache" => c.wanted) /\ Applies(c)
  BY <1>1 DEF Wanted, Applies, Ours
<1>4. CASE c.type = "build"
  <2>1. PICK t : t = resetLoading(Consumed(c), {c.file})
    OBVIOUS
  <2>2. J(t) /\ Kin(p, t)
    <3>1. c.type \in {"enrich", "build"}
      BY <1>4
    <3> QED BY <1>3, <2>1, <3>1, GivenUpIs
  <2>3. p' = Turn(t)
    BY <1>1, <1>4, <2>1 DEF Abandoned
  <2> QED BY <2>2, <2>3, KinSteps
<1>5. CASE c.type # "build"
  <2>1. c \in WantedCaches(p.epoch)
    BY <1>2, <1>3, <1>5 DEF IsBuild, WantedCaches
  <2>2. PICK u : u = Without(p, c)
    OBVIOUS
  <2>3. PICK t : t = [u EXCEPT !.cacheUpdate = None]
    OBVIOUS
  <2>4. J(t) /\ Kin(p, t)
    BY <1>2, <1>3, <2>1, <2>2, <2>3, CacheAbandoned
  <2>5. p' = Turn(t)
    BY <1>1, <1>5, <2>2, <2>3, ConsumedIs DEF Abandoned
  <2> QED BY <2>4, <2>5, KinSteps
<1> QED BY <1>4, <1>5

\* acceptReviewSourceScanned.
LEMMA ScanDoneSteps ==
    ASSUME IInv, ScanDone
    PROVE  Steps(p, p')
<1>1. PICK c \in p.issued :
         /\ c.type = "scan" /\ Applies(c)
         /\ LET released == stageReleasedSearchLeases(Revised(Consumed(c)))
                again == [released EXCEPT !.scanned = @ \ {c.file}]
            IN  p' = Turn(QueueScan(released)) \/ p' = Turn(QueueScan(again)) \/ p' = Turn(again)
  BY DEF ScanDone, Handle
<1>2. J(p) /\ ~p.shutdown
  BY <1>1, IssuedIs DEF Applies
<1>3. PICK u : u = Without(p, c)
  OBVIOUS
<1>4. PICK v : v = Revised(u)
  OBVIOUS
<1>5. PICK r : r = stageReleasedSearchLeases(v)
  OBVIOUS
<1>6. PICK a : a = [r EXCEPT !.scanned = @ \ {c.file}]
  OBVIOUS
<1>7. J(r) /\ Kin(p, r) /\ J(a) /\ Kin(p, a)
  BY <1>1, <1>2, <1>3, <1>4, <1>5, <1>6, ScanReleased
<1>8. p' = Turn(QueueScan(r)) \/ p' = Turn(QueueScan(a)) \/ p' = Turn(a)
  BY <1>1, <1>3, <1>4, <1>5, <1>6, ConsumedIs
<1>9. ASSUME NEW b, J(b), Kin(p, b), p' = Turn(QueueScan(b))
      PROVE  Steps(p, p')
  <2>1. PICK d : d = QueueScan(b)
    OBVIOUS
  <2>2. Keeps(b, d)
    BY <1>9, <2>1, QueueScanKeeps DEF J
  <2>3. J(d) /\ Kin(p, d)
    BY <1>9, <2>2, KeepsInvariant, KinTransitive DEF Keeps
  <2>4. p' = Turn(d)
    BY <1>9, <2>1
  <2> QED BY <2>3, <2>4, KinSteps
<1>10. CASE p' = Turn(a)
  BY <1>7, <1>10, KinSteps
<1> QED BY <1>7, <1>8, <1>9, <1>10
\* Every step keeps the invariant.
LEMMA NextSteps ==
    ASSUME IInv, [Next]_vars
    PROVE  IInv' /\ (UNCHANGED vars \/ Steps(p, p'))
<1>1. CASE Next
  <2>1. Steps(p, p')
    BY <1>1, MoveCursorSteps, OpenSearchSteps, CloseSearchSteps, ReplaceSessionSteps, QuitSteps,
       RunBuildSteps, DropSteps, FileFetchedSteps, BuildDoneSteps, ScanDoneSteps,
       FetchFailedSteps, BuildRefusedSteps, BuildFailedSteps
       DEF Next, Complete
  <2>2. J(p') /\ Focus(p')
    BY <2>1 DEF Steps
  <2> QED BY <2>1, <2>2 DEF IInv
<1>2. CASE UNCHANGED vars
  <2>1. p' = p
    BY <1>2 DEF vars
  <2> QED BY <1>2, <2>1 DEF IInv
<1> QED BY <1>1, <1>2

-----------------------------------------------------------------------------
(* The theorems.                                                           *)

\* The invariant the others rest on: the commands that are queued and issued
\* account for every File that is loading and for the cache update that is
\* pending; a build that would be admitted has seen the Frame, the range and the
\* Storage as they are; and after a turn the range of the cursor is the focused
\* one, or a cache update will make it so.
THEOREM Invariance == Spec => []IInv
<1>1. Init => IInv
  <2> SUFFICES ASSUME Init PROVE IInv
    OBVIOUS
  <2>1. PICK c \in Cursor : p = Turn(New(1, c, << >>, {}))
    BY DEF Init
  <2>2. PICK u : u = New(1, c, << >>, {})
    OBVIOUS
  <2>3. J(u)
    BY <2>2, FirstSession
  <2>4. Settled(u, p)
    BY <2>1, <2>2, <2>3, TurnSettles
  <2> QED BY <2>4 DEF Settled, IInv
<1>2. IInv /\ [Next]_vars => IInv'
  BY NextSteps
<1> QED BY <1>1, <1>2, PTL DEF Spec

\* The invariant implies the type invariant.
LEMMA TypeHolds ==
    ASSUME IInv
    PROVE  TypeOK
<1>1. J(p) /\ Base(p) /\ p \in Session /\ Queue(p.commands, p.issued, p.epoch)
  BY DEF IInv, J, Base
<1>2. /\ p.status \in [File -> {"pending", "loading", "ready", "failed"}]
      /\ p.cursor \in Cursor
      /\ {p.focused, p.held, p.frame, p.acquired, p.scanned} \subseteq SUBSET File
  BY <1>1, SessionIs DEF Text
<1>3. Cardinality({c \in p.issued : c.type # "enrich"}) <= 1
  <2>1. PICK S : S = {c \in p.issued : c.type # "enrich"}
    OBVIOUS
  <2>2. IsFiniteSet(p.issued)
    BY <1>1, QueueIs
  <2>3. IsFiniteSet(S)
    BY <2>1, <2>2, FS_Subset
  <2>4. \A c, d \in p.issued : c.type # "enrich" /\ d.type # "enrich" => c = d
    BY <1>1, QueueIs
  <2>5. \A x, y \in S : x = y
    BY <2>1, <2>4
  <2>6. Cardinality(S) <= 1
    BY <2>3, <2>5, CountOne
  <2> QED BY <2>1, <2>6
<1>4. ~p.shutdown => (p.cacheUpdate # None <=>
         \E c \in All(p) : c.type = "cache" /\ Ours(p, c) /\ c.wanted)
  <2> SUFFICES ASSUME ~p.shutdown
               PROVE  p.cacheUpdate # None <=>
                          \E c \in All(p) : c.type = "cache" /\ Ours(p, c) /\ c.wanted
    OBVIOUS
  <2>1. CachesOK(p)
    BY <1>1 DEF J
  <2>2. p.cacheUpdate # None <=> \E c \in All(p) : c \in WantedCaches(p.epoch)
    BY <2>1 DEF CachesOK, Caches, All
  <2>3. \A c \in All(p) : c \in Command
    BY <1>1, QueueIs DEF All
  <2>4. \A c \in All(p) : c \in WantedCaches(p.epoch)
                              <=> c.type = "cache" /\ Ours(p, c) /\ c.wanted
    BY <2>3 DEF WantedCaches, Ours
  <2> QED BY <2>2, <2>4
<1> QED BY <1>2, <1>3, <1>4 DEF TypeOK

\* The state is well-formed: takeCommand issues one build or scan at a time, and
\* pending_cache_focus is set exactly while a cache build that is still wanted is
\* queued or issued.
THEOREM TypeCorrect == Spec => []TypeOK
  BY Invariance, TypeHolds, PTL

\* queueFileEnrichment never exceeds max_speculative_enrichments, whatever reads
\* replaced Sessions have left in the queue and with the workers.
THEOREM SpeculationBounded == Spec => []SpeculativeBound
<1>1. IInv => SpeculativeBound
  BY DEF IInv, J, Base, Queue, SpeculativeBound, speculativeEnrichments, SpeculativeAt, SpeculativeIn
<1> QED BY <1>1, Invariance, PTL

\* The commands of a kind of which there is at most one, counted.
LEMMA CountKind ==
    ASSUME NEW q \in Seq(Command), NEW iss, IsFiniteSet(iss), NEW S, AtMostOne(q, iss, S),
           NEW A, A = {i \in 1..Len(q) : q[i] \in S}, NEW B, B = {c \in iss : c \in S}
    PROVE  Cardinality(A) + Cardinality(B) =
               IF \E c \in Members(q) \cup iss : c \in S THEN 1 ELSE 0
<1>1. IsFiniteSet(1..Len(q))
  BY FS_Interval
<1>2. IsFiniteSet(A) /\ IsFiniteSet(B)
  BY <1>1, FS_Subset
<1>3. Cardinality(A) \in Nat /\ Cardinality(B) \in Nat
  BY <1>2, FS_CardinalityType
<1>4. /\ \A i, j \in A : i = j
      /\ \A c, d \in B : c = d
      /\ A = {} \/ B = {}
  BY DEF AtMostOne
<1>5. Cardinality(A) <= 1 /\ Cardinality(B) <= 1
  BY <1>2, <1>4, CountOne
<1>6. (Cardinality(A) = 0 <=> A = {}) /\ (Cardinality(B) = 0 <=> B = {})
  BY <1>2, FS_EmptySet
<1>7. (\E c \in Members(q) \cup iss : c \in S) <=> ~(A = {} /\ B = {})
  BY DEF Members
<1> QED BY <1>3, <1>4, <1>5, <1>6, <1>7

\* The invariant implies that exactly the Files that load have work.
LEMMA LoadingHolds ==
    ASSUME IInv
    PROVE  LoadingIsUnderWay
<1>1. J(p) /\ Base(p) /\ Queue(p.commands, p.issued, p.epoch)
  BY DEF IInv, J, Base
<1>2. /\ p.commands \in Seq(Command) /\ IsFiniteSet(p.issued) /\ p.issued \in SUBSET Command
      /\ \A i \in 1..Len(p.commands) : p.commands[i] \in Command
  BY <1>1, QueueIs
<1> SUFFICES ASSUME ~p.shutdown, NEW f \in File
             PROVE  LET IsFor(c) == c.type \in {"enrich", "build"} /\ Ours(p, c) /\ c.file = f
                        n == Cardinality({i \in 1..Len(p.commands) : IsFor(p.commands[i])})
                                + Cardinality({c \in p.issued : IsFor(c)})
                    IN  n = IF p.status[f] = "loading" THEN 1 ELSE 0
  BY DEF LoadingIsUnderWay
<1> DEFINE IsFor(c) == c.type \in {"enrich", "build"} /\ Ours(p, c) /\ c.file = f
<1>3. Loads(p.commands, p.issued, p.epoch, Loading(p))
  BY <1>1 DEF J, LoadsOK
<1>4. PICK S : S = Fetching(p.epoch, f)
  OBVIOUS
<1>5. /\ AtMostOne(p.commands, p.issued, S)
      /\ f \in Loading(p) <=> \E c \in Members(p.commands) \cup p.issued : c \in S
  BY <1>3, <1>4 DEF Loads
<1>6. PICK A : A = {i \in 1..Len(p.commands) : p.commands[i] \in S}
  OBVIOUS
<1>7. PICK B : B = {c \in p.issued : c \in S}
  OBVIOUS
<1>8. \A c \in Command : c \in S <=> IsFor(c)
  BY <1>4 DEF Fetching, Ours
<1>9. A = {i \in 1..Len(p.commands) : IsFor(p.commands[i])}
  BY <1>2, <1>6, <1>8
<1>10. B = {c \in p.issued : IsFor(c)}
  BY <1>2, <1>7, <1>8
<1>11. Cardinality(A) + Cardinality(B) =
           IF \E c \in Members(p.commands) \cup p.issued : c \in S THEN 1 ELSE 0
  BY <1>2, <1>5, <1>6, <1>7, CountKind
<1>12. f \in Loading(p) <=> p.status[f] = "loading"
  BY DEF Loading
<1>13. Cardinality(A) + Cardinality(B) = IF p.status[f] = "loading" THEN 1 ELSE 0
  BY <1>5, <1>11, <1>12
<1> QED BY <1>9, <1>10, <1>13

\* markLoading and resetLoading keep step with the commands: a loading File has
\* exactly one read or build that will settle it, every other File has none.
THEOREM LoadingAccounted == Spec => []LoadingIsUnderWay
  BY Invariance, LoadingHolds, PTL

\* What acceptViewBuild admits is what the worker projected: unless a lease was
\* taken or given up in between, the Frame shows what the Storage retains.
THEOREM FrameTruthful == Spec => []FrameMatchesStorage
<1>1. IInv => FrameMatchesStorage
  BY DEF IInv, J, FrameTrue, FrameMatchesStorage
<1> QED BY <1>1, Invariance, PTL

\* stageCacheVictims spares the Files of the range that is focused and those the
\* Review search or one of its scans has leased, in whatever order the admission
\* of a build, the next range and the leases change.
THEOREM EvictionSpares == Spec => EvictsOnlyInactive
<1> DEFINE Spares == \A f \in File :
              (p.epoch = p'.epoch /\ p.status[f] = "ready" /\ p'.status[f] = "pending") =>
                  f \notin p'.focused \union Leased(p)
<1>1. IInv /\ [Next]_vars => [Spares]_vars
  <2> SUFFICES ASSUME IInv, [Next]_vars, ~UNCHANGED vars, NEW f \in File,
                      p.epoch = p'.epoch, p.status[f] = "ready", p'.status[f] = "pending"
               PROVE  f \notin p'.focused \union Leased(p)
    OBVIOUS
  <2>1. Steps(p, p')
    BY NextSteps
  <2>2. f \in Retained(p) /\ f \notin Retained(p')
    BY DEF Retained
  <2> QED BY <2>1, <2>2 DEF Steps
<1> QED BY <1>1, Invariance, PTL DEF Spec, EvictsOnlyInactive
=============================================================================
