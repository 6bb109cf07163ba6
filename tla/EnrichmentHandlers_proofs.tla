--------------------- MODULE EnrichmentHandlers_proofs ---------------------
(***************************************************************************)
(* The handlers of FileEnrichment and the turn of the main loop: every one *)
(* keeps the invariant J of a Session, whatever Session it is given.       *)
(*                                                                         *)
(* A handler is shown to keep each part of J on its own (Keeps), so that   *)
(* one that breaks a part and mends it later can be put together from the  *)
(* same lemmas; the last lemma, TurnSettles, is about a whole turn.        *)
(***************************************************************************)
EXTENDS EnrichmentQueue_proofs

\* The records New makes and the handlers change.
Session ==
    [epoch : Nat, cursor : Cursor,
     status : [File -> {"pending", "loading", "ready", "failed"}],
     lastUsed : [File -> Nat], recency : Nat, focused : Text, held : Text, frame : Text,
     cacheUpdate : Text \cup {None}, searching : BOOLEAN, acquired : Text, scanned : Text,
     commands : Seq(Command), issued : SUBSET Command, shutdown : BOOLEAN, raced : BOOLEAN]

Loading(s) == {f \in File : s.status[f] = "loading"}

\* A build that acceptViewBuild would admit has seen the Session as it is, and what
\* its worker has built is what the admission will do.
Admissible(s, c) == IsBuild(c) /\ Ours(s, c) /\ (c.type = "cache" => c.wanted) /\ c.fresh
UpToDate(s, c) ==
    /\ c.base = s.frame
    /\ c.type = "build" => c.range = s.focused
    /\ c.view # None => c.view = Preview(s, c)
Fresh(s) == \A c \in All(s) : Admissible(s, c) => UpToDate(s, c)

Base(s) == s \in Session /\ Queue(s.commands, s.issued, s.epoch)
LoadsOK(s) == Loads(s.commands, s.issued, s.epoch, Loading(s))
CachesOK(s) == Caches(s.commands, s.issued, s.epoch, s.cacheUpdate)
FrameTrue(s) == ~s.raced => s.frame = Retained(s)
\* The invariant, but for the focused range: once the shutdown has begun nobody
\* keeps account of the work any more.
J(s) ==
    /\ Base(s) /\ FrameTrue(s)
    /\ ~s.shutdown => LoadsOK(s) /\ CachesOK(s) /\ Fresh(s)

\* After a turn the range of the cursor is focused, or a cache update will focus it.
Focus(s) ==
    ~s.shutdown =>
        /\ s.cacheUpdate = None => s.focused = enrichmentRange(s)
        /\ s.cacheUpdate # None => s.cacheUpdate = enrichmentRange(s)

-----------------------------------------------------------------------------
(* Sessions.                                                               *)

\* What the fields of a Session are.
LEMMA SessionIs ==
    ASSUME NEW s \in Session
    PROVE  /\ s.epoch \in Nat /\ s.cursor \in Cursor
           /\ s.status \in [File -> {"pending", "loading", "ready", "failed"}]
           /\ s.lastUsed \in [File -> Nat] /\ s.recency \in Nat
           /\ s.focused \in Text /\ s.held \in Text /\ s.frame \in Text
           /\ s.cacheUpdate \in Text \cup {None} /\ s.searching \in BOOLEAN
           /\ s.acquired \in Text /\ s.scanned \in Text
           /\ s.commands \in Seq(Command) /\ s.issued \in SUBSET Command
           /\ s.shutdown \in BOOLEAN /\ s.raced \in BOOLEAN
  BY DEF Session

\* What only admissions, the focused range and a new Session change.
Kin(s, t) ==
    /\ t.epoch = s.epoch /\ t.cursor = s.cursor /\ t.focused = s.focused
    /\ t.frame = s.frame /\ t.shutdown = s.shutdown /\ t.raced = s.raced
    /\ t.lastUsed = s.lastUsed /\ Retained(t) = Retained(s)

\* One handler after the other.
LEMMA KinTransitive ==
    ASSUME NEW s, NEW t, NEW u, Kin(s, t), Kin(t, u)
    PROVE  Kin(s, u)
  BY DEF Kin

Outdated == [c \in Command |-> Outdate(c)]

\* What a revision makes of a command.
LEMMA OutdatedIs ==
    /\ Renames(Outdated) /\ RenamesCaches(Outdated)
    /\ \A c \in Command : /\ Outdated[c] = Outdate(c)
                          /\ ~IsBuild(c) => Outdated[c] = c
                          /\ IsBuild(c) => ~Outdated[c].fresh
<1>1. ASSUME NEW c \in Command, ~IsBuild(c) PROVE Outdate(c) = c
  BY <1>1 DEF Outdate
<1>2. ASSUME NEW c \in Command, IsBuild(c)
      PROVE  /\ Outdate(c) \in Command /\ ~Outdate(c).fresh
             /\ Outdate(c).type = c.type /\ Outdate(c).epoch = c.epoch
             /\ c.type = "build" => Outdate(c).file = c.file
             /\ c.type = "cache" => Outdate(c).wanted = c.wanted /\ Outdate(c).range = c.range
  BY <1>2 DEF Outdate, IsBuild, Command
<1>3. \A c \in Command : Outdate(c) \in Command
  BY <1>1, <1>2
<1>4. \A c \in Command : Outdated[c] = Outdate(c)
  BY DEF Outdated
<1>5. Outdated \in [Command -> Command]
  BY <1>3 DEF Outdated
<1>6. Renames(Outdated)
  <2> SUFFICES ASSUME NEW c \in Command
               PROVE  /\ Outdate(c).type = c.type /\ Outdate(c).epoch = c.epoch
                      /\ c.type \in {"enrich", "build", "scan"} => Outdate(c).file = c.file
                      /\ c.type = "enrich" => (Outdate(c).search => c.search)
                      /\ IsSpeculative(Outdate(c)) => Outdate(c) = c
    BY <1>4, <1>5 DEF Renames
  <2>1. CASE ~IsBuild(c)
    BY <1>1, <2>1
  <2>2. CASE IsBuild(c)
    BY <1>2, <2>2 DEF IsSpeculative, IsBuild
  <2> QED BY <2>1, <2>2
<1>7. RenamesCaches(Outdated)
  <2> SUFFICES ASSUME NEW c \in Command, c.type = "cache"
               PROVE  Outdate(c).wanted = c.wanted /\ Outdate(c).range = c.range
    BY <1>4 DEF RenamesCaches
  <2> QED BY <1>2 DEF IsBuild
<1> QED BY <1>1, <1>2, <1>4, <1>6, <1>7

\* What a revision makes of a Session.
LEMMA RevisedIs ==
    ASSUME NEW s \in Session, IsFiniteSet(s.issued), NEW t, t = Revised(s)
    PROVE  /\ t \in Session
           /\ t.commands = Mapped(s.commands, Outdated) /\ t.issued = Image(s.issued, Outdated)
           /\ t.status = s.status /\ t.held = s.held /\ t.cacheUpdate = s.cacheUpdate
           /\ t.searching = s.searching /\ t.acquired = s.acquired /\ t.scanned = s.scanned
           /\ t.recency = s.recency /\ Kin(s, t)
<1>1. s.commands \in Seq(Command) /\ s.issued \in SUBSET Command
  BY SessionIs
<1>2. Outdated \in [Command -> Command] /\ \A c \in Command : Outdated[c] = Outdate(c)
  BY OutdatedIs DEF Renames
<1>3. MapSeq(s.commands, Outdate) = Mapped(s.commands, Outdated)
  BY <1>1, <1>2 DEF MapSeq, Mapped
<1>4. {Outdate(c) : c \in s.issued} = Image(s.issued, Outdated)
  BY <1>1, <1>2 DEF Image
<1>5. PICK q : q = Mapped(s.commands, Outdated)
  OBVIOUS
<1>6. PICK iss : iss = Image(s.issued, Outdated)
  OBVIOUS
<1>7. q \in Seq(Command) /\ iss \in SUBSET Command
  BY <1>1, <1>2, <1>5, <1>6, MappedIs, ImageIs
<1>8. t = [s EXCEPT !.commands = q, !.issued = iss]
  BY <1>3, <1>4, <1>5, <1>6 DEF Revised
<1>9. t \in Session /\ t.commands = q /\ t.issued = iss
  BY <1>7, <1>8 DEF Session
<1>10. /\ t.status = s.status /\ t.held = s.held /\ t.cacheUpdate = s.cacheUpdate
       /\ t.searching = s.searching /\ t.acquired = s.acquired /\ t.scanned = s.scanned
       /\ t.recency = s.recency /\ t.epoch = s.epoch /\ t.cursor = s.cursor
       /\ t.focused = s.focused /\ t.frame = s.frame /\ t.shutdown = s.shutdown
       /\ t.raced = s.raced /\ t.lastUsed = s.lastUsed
  BY <1>8 DEF Session
<1>11. Retained(t) = Retained(s)
  BY <1>10 DEF Retained
<1> QED BY <1>5, <1>6, <1>9, <1>10, <1>11 DEF Kin

\* After a revision no build of the Session may be admitted.
LEMMA RevisedKeeps ==
    ASSUME NEW s, Base(s), NEW t, t = Revised(s)
    PROVE  /\ Base(t) /\ Kin(s, t) /\ Fresh(t) /\ Scans(t) = Scans(s) /\ Leased(t) = Leased(s)
           /\ LoadsOK(s) => LoadsOK(t)
           /\ CachesOK(s) => CachesOK(t)
           /\ All(t) = {Outdated[c] : c \in All(s)}
           /\ t.status = s.status /\ t.held = s.held /\ t.cacheUpdate = s.cacheUpdate
           /\ t.searching = s.searching /\ t.acquired = s.acquired /\ t.scanned = s.scanned
           /\ t.recency = s.recency
<1>1. /\ s \in Session /\ Queue(s.commands, s.issued, s.epoch) /\ s.epoch \in Nat
      /\ IsFiniteSet(s.issued)
  BY SessionIs, QueueIs DEF Base
<1>2. /\ t \in Session
      /\ t.commands = Mapped(s.commands, Outdated) /\ t.issued = Image(s.issued, Outdated)
      /\ t.status = s.status /\ t.held = s.held /\ t.cacheUpdate = s.cacheUpdate
      /\ t.searching = s.searching /\ t.acquired = s.acquired /\ t.scanned = s.scanned
      /\ t.recency = s.recency /\ Kin(s, t)
  BY <1>1, RevisedIs
<1>3. t.epoch = s.epoch
  BY <1>2 DEF Kin
<1>4. Renames(Outdated) /\ RenamesCaches(Outdated)
  BY OutdatedIs
<1>5. Queue(t.commands, t.issued, t.epoch)
  BY <1>1, <1>2, <1>3, <1>4, RemapQueue
<1>6. LoadsOK(s) => LoadsOK(t)
  <2>1. Loading(t) = Loading(s)
    BY <1>2 DEF Loading
  <2> QED BY <1>1, <1>2, <1>3, <1>4, <2>1, RemapLoads DEF LoadsOK
<1>7. CachesOK(s) => CachesOK(t)
  BY <1>1, <1>2, <1>3, <1>4, RemapCaches DEF CachesOK
<1>8. All(t) = {Outdated[c] : c \in All(s)}
  <2>1. Members(t.commands) = {Outdated[c] : c \in Members(s.commands)}
    <3>1. s.commands \in Seq(Command) /\ Outdated \in [Command -> Command]
      BY <1>1, <1>4, SessionIs DEF Renames
    <3> QED BY <1>2, <3>1, MappedIs
  <2> QED BY <1>2, <2>1 DEF All, Image
<1>9. All(s) \subseteq Command
  BY <1>1, SessionIs, QueueIs DEF All
<1>10. \A c \in All(t) : \E d \in All(s) : d \in Command /\ c = Outdated[d]
  BY <1>8, <1>9
<1>11. Fresh(t)
  <2> SUFFICES ASSUME NEW c \in All(t), IsBuild(c), c.fresh PROVE FALSE
    BY DEF Fresh, Admissible
  <2>1. PICK d \in All(s) : d \in Command /\ c = Outdated[d]
    BY <1>10
  <2>2. IsBuild(d)
    BY <2>1, OutdatedIs
  <2> QED BY <2>1, <2>2, OutdatedIs
<1>12. Scans(t) = Scans(s)
  <2>1. ASSUME NEW d \in All(s)
        PROVE  Outdated[d].type = d.type /\ Outdated[d].epoch = d.epoch
               /\ (d.type = "scan" => Outdated[d] = d)
    <3>1. d \in Command
      BY <1>9
    <3>2. d.type = "scan" => ~IsBuild(d)
      BY DEF IsBuild
    <3> QED BY <1>4, <3>1, <3>2, OutdatedIs DEF Renames
  <2>2. ASSUME NEW c \in Scans(t) PROVE c \in Scans(s)
    <3>1. PICK d \in All(s) : c = Outdated[d]
      BY <1>10 DEF Scans
    <3> QED BY <1>3, <2>1, <3>1 DEF Scans, Ours
  <2>3. ASSUME NEW c \in Scans(s) PROVE c \in Scans(t)
    <3>1. c \in All(s) /\ c.type = "scan" /\ c.epoch = t.epoch
      BY <1>3 DEF Scans, Ours
    <3>2. Outdated[c] = c
      BY <2>1, <3>1
    <3>3. c \in All(t)
      BY <1>8, <3>1, <3>2
    <3> QED BY <3>1, <3>3 DEF Scans, Ours
  <2> QED BY <2>2, <2>3
<1>13. Leased(t) = Leased(s)
  BY <1>2, <1>12 DEF Leased
<1> QED BY <1>2, <1>5, <1>6, <1>7, <1>8, <1>11, <1>12, <1>13 DEF Base

\* A change that leaves the commands alone.
LEMMA SameQueue ==
    ASSUME NEW s, Base(s), NEW t \in Session,
           t.commands = s.commands, t.issued = s.issued, t.epoch = s.epoch
    PROVE  /\ Base(t) /\ All(t) = All(s) /\ Scans(t) = Scans(s)
           /\ t.held = s.held => Leased(t) = Leased(s)
           /\ LoadsOK(s) /\ Loading(t) = Loading(s) => LoadsOK(t)
           /\ CachesOK(s) /\ t.cacheUpdate = s.cacheUpdate => CachesOK(t)
<1>1. Base(t)
  BY DEF Base
<1>2. All(t) = All(s)
  BY DEF All
<1>3. Scans(t) = Scans(s)
  BY <1>2 DEF Scans, Ours
<1> QED BY <1>1, <1>2, <1>3 DEF Leased, LoadsOK, CachesOK

\* What a worker would build depends on these.
LEMMA PreviewSame ==
    ASSUME NEW s, NEW t, t.lastUsed = s.lastUsed, Retained(t) = Retained(s),
           Leased(t) = Leased(s), NEW c
    PROVE  Preview(t, c) = Preview(s, c)
  BY DEF Preview

\* Builds stay up to date unless something they depend on changes, and a build that
\* is created now is.
LEMMA FreshKept ==
    ASSUME NEW s, NEW t, Fresh(s), Kin(s, t), Leased(t) = Leased(s),
           \A c \in All(t) : Admissible(t, c) =>
               \/ c \in All(s)
               \/ c.view = None /\ c.base = s.frame /\ (c.type = "build" => c.range = s.focused)
    PROVE  Fresh(t)
<1> SUFFICES ASSUME NEW c \in All(t), Admissible(t, c) PROVE UpToDate(t, c)
  BY DEF Fresh
<1>1. t.frame = s.frame /\ t.focused = s.focused /\ t.epoch = s.epoch
  BY DEF Kin
<1>2. Preview(t, c) = Preview(s, c)
  BY PreviewSame DEF Kin
<1>3. CASE c \in All(s)
  <2>1. Admissible(s, c)
    BY <1>1 DEF Admissible, Ours
  <2>2. UpToDate(s, c)
    BY <1>3, <2>1 DEF Fresh
  <2> QED BY <1>1, <1>2, <2>2 DEF UpToDate
<1>4. CASE c \notin All(s)
  BY <1>1, <1>4 DEF UpToDate
<1> QED BY <1>3, <1>4

\* What most handlers keep.
Keeps(s, t) ==
    /\ Base(t) /\ Kin(s, t)
    /\ LoadsOK(s) => LoadsOK(t)
    /\ CachesOK(s) => CachesOK(t)
    /\ Fresh(s) => Fresh(t)

\* One handler after the other.
LEMMA KeepsTransitive ==
    ASSUME NEW s, NEW t, NEW u, Keeps(s, t), Keeps(t, u)
    PROVE  Keeps(s, u)
  BY KinTransitive DEF Keeps

\* A handler that keeps the parts keeps the invariant.
LEMMA KeepsInvariant ==
    ASSUME NEW s, NEW t, J(s), Keeps(s, t)
    PROVE  J(t)
  BY DEF J, Keeps, Kin, FrameTrue

-----------------------------------------------------------------------------
(* The handlers, from the parts they are made of.                          *)

\* The search holds Files: they are leased.
LEMMA holdKeeps ==
    ASSUME NEW s, Base(s), NEW fs \in Text, NEW t, t = hold(s, fs)
    PROVE  /\ Keeps(s, t) /\ Leased(t) = Leased(s) \cup fs
           /\ t.status = s.status /\ t.searching = s.searching /\ t.cacheUpdate = s.cacheUpdate
           /\ t.acquired = s.acquired /\ t.scanned = s.scanned
<1>1. CASE fs = {}
  BY <1>1 DEF hold, Kin, Keeps
<1>2. CASE fs # {}
  <2>1. PICK u : u = [s EXCEPT !.held = @ \cup fs]
    OBVIOUS
  <2>2. s \in Session /\ s.held \in Text
    BY SessionIs DEF Base
  <2>3. s.held \cup fs \in Text
    BY <2>2 DEF Text
  <2>4. /\ u \in Session /\ u.held = s.held \cup fs
        /\ u.commands = s.commands /\ u.issued = s.issued /\ u.epoch = s.epoch
        /\ u.status = s.status /\ u.searching = s.searching /\ u.cacheUpdate = s.cacheUpdate
        /\ u.acquired = s.acquired /\ u.scanned = s.scanned
        /\ u.cursor = s.cursor /\ u.focused = s.focused /\ u.frame = s.frame
        /\ u.shutdown = s.shutdown /\ u.raced = s.raced /\ u.lastUsed = s.lastUsed
    BY <2>1, <2>2, <2>3 DEF Session
  <2>5. Kin(s, u)
    BY <2>4 DEF Kin, Retained
  <2>6. /\ Base(u) /\ Scans(u) = Scans(s)
        /\ LoadsOK(s) => LoadsOK(u)
        /\ CachesOK(s) => CachesOK(u)
    BY <2>4, SameQueue DEF Loading
  <2>7. t = Revised(u)
    BY <1>2, <2>1 DEF hold
  <2>8. /\ Base(t) /\ Kin(u, t) /\ Fresh(t) /\ Leased(t) = Leased(u)
        /\ LoadsOK(u) => LoadsOK(t)
        /\ CachesOK(u) => CachesOK(t)
        /\ t.status = u.status /\ t.searching = u.searching /\ t.cacheUpdate = u.cacheUpdate
        /\ t.acquired = u.acquired /\ t.scanned = u.scanned
    BY <2>6, <2>7, RevisedKeeps
  <2>9. Leased(u) = Leased(s) \cup fs
    BY <2>4, <2>6 DEF Leased
  <2>10. Kin(s, t)
    BY <2>5, <2>8, KinTransitive
  <2> QED BY <2>4, <2>6, <2>8, <2>9, <2>10 DEF Keeps
<1> QED BY <1>1, <1>2

\* The first speculative read, where demand work goes, exists.
LEMMA LeastExists ==
    ASSUME NEW S \in SUBSET Nat, S # {}
    PROVE  \E n \in S : \A m \in S : n <= m
<1> SUFFICES ASSUME \A n \in S : \E m \in S : m < n PROVE FALSE
  OBVIOUS
<1> DEFINE G == {n \in Nat : \A m \in S : n < m}
<1>1. 0 \in G
  <2> SUFFICES ASSUME NEW m \in S PROVE 0 < m
    OBVIOUS
  <2>1. PICK k \in S : k < m
    OBVIOUS
  <2> QED BY <2>1
<1>2. ASSUME NEW n \in Nat, n \in G PROVE n + 1 \in G
  <2> SUFFICES ASSUME NEW m \in S PROVE n + 1 < m
    OBVIOUS
  <2>1. PICK k \in S : k < m
    OBVIOUS
  <2>2. n < k
    BY <1>2
  <2> QED BY <2>1, <2>2
<1>3. \A n \in Nat : n \in G
  <2> HIDE DEF G
  <2> QED BY <1>1, <1>2, SetInduction
<1>4. PICK n : n \in S
  OBVIOUS
<1>5. n \in G
  BY <1>3, <1>4
<1> QED BY <1>4, <1>5

\* Marking Files loading or pending again leaves the rest alone.
LEMMA MarkedIs ==
    ASSUME NEW s \in Session, NEW fs, NEW from \in {"pending", "loading"},
           NEW to \in {"pending", "loading"}, NEW t, t = Marked(s, fs, from, to)
    PROVE  /\ t \in Session
           /\ t.commands = s.commands /\ t.issued = s.issued /\ t.held = s.held
           /\ t.cacheUpdate = s.cacheUpdate /\ t.searching = s.searching
           /\ t.acquired = s.acquired /\ t.scanned = s.scanned /\ t.recency = s.recency
           /\ Kin(s, t) /\ Terminal(t) = Terminal(s)
           /\ \A f \in File : t.status[f] = IF f \in fs /\ s.status[f] = from THEN to ELSE s.status[f]
<1>1. PICK status : status = [f \in File |-> IF f \in fs /\ s.status[f] = from THEN to ELSE s.status[f]]
  OBVIOUS
<1>2. s.status \in [File -> {"pending", "loading", "ready", "failed"}]
  BY SessionIs
<1>3. status \in [File -> {"pending", "loading", "ready", "failed"}]
  BY <1>1, <1>2
<1>4. t = [s EXCEPT !.status = status]
  BY <1>1 DEF Marked
<1>5. /\ t \in Session /\ t.status = status
      /\ t.commands = s.commands /\ t.issued = s.issued /\ t.held = s.held
      /\ t.cacheUpdate = s.cacheUpdate /\ t.searching = s.searching
      /\ t.acquired = s.acquired /\ t.scanned = s.scanned /\ t.recency = s.recency
      /\ t.epoch = s.epoch /\ t.cursor = s.cursor /\ t.focused = s.focused
      /\ t.frame = s.frame /\ t.shutdown = s.shutdown /\ t.raced = s.raced
      /\ t.lastUsed = s.lastUsed
  BY <1>3, <1>4 DEF Session
<1>6. \A f \in File : t.status[f] = IF f \in fs /\ s.status[f] = from THEN to ELSE s.status[f]
  BY <1>1, <1>5
<1>7. Retained(t) = Retained(s) /\ Terminal(t) = Terminal(s)
  BY <1>6 DEF Retained, Terminal
<1> QED BY <1>5, <1>6, <1>7 DEF Kin


\* The reads of the Files of fs.
Reads(s, fs, speculative) == [i \in 1..Len(fs) |-> EnrichFile(s, fs[i], speculative)]

\* A read that is queued.
LEMMA EnrichFileIs ==
    ASSUME NEW s, NEW f, NEW speculative
    PROVE  /\ EnrichFile(s, f, speculative).type = "enrich"
           /\ EnrichFile(s, f, speculative).epoch = s.epoch
           /\ EnrichFile(s, f, speculative).file = f
           /\ IsSpeculative(EnrichFile(s, f, speculative)) <=> speculative
  BY DEF EnrichFile, IsSpeculative

\* The reads that are queued for a list of Files.
LEMMA ReadsAre ==
    ASSUME NEW s \in Session, NEW fs \in Seq(File), NEW speculative \in BOOLEAN,
           NEW new, new = Reads(s, fs, speculative)
    PROVE  /\ new \in Seq(Command) /\ Len(new) = Len(fs)
           /\ \A i \in 1..Len(fs) : /\ new[i].type = "enrich" /\ new[i].epoch = s.epoch
                                    /\ new[i].file = fs[i]
                                    /\ IsSpeculative(new[i]) <=> speculative
<1>1. ASSUME NEW f \in File
      PROVE  EnrichFile(s, f, speculative) \in Command
  <2>1. s.epoch \in Nat /\ s.searching \in BOOLEAN
    BY SessionIs
  <2> QED BY <2>1 DEF EnrichFile, Command
<1>2. \A i \in 1..Len(fs) : new[i] = EnrichFile(s, fs[i], speculative) /\ fs[i] \in File
  BY DEF Reads
<1>3. new \in Seq(Command) /\ Len(new) = Len(fs)
  BY <1>1 DEF Reads
<1>4. \A i \in 1..Len(fs) : /\ new[i].type = "enrich" /\ new[i].epoch = s.epoch
                            /\ new[i].file = fs[i]
                            /\ IsSpeculative(new[i]) <=> speculative
  <2> TAKE i \in 1..Len(fs)
  <2>1. /\ new[i].type = "enrich" /\ new[i].epoch = s.epoch
        /\ new[i].file = fs[i]
    BY <1>2, EnrichFileIs
  <2>2. new[i] = EnrichFile(s, fs[i], speculative)
    BY <1>2
  <2>3. IsSpeculative(new[i]) <=> speculative
    <3>1. PICK f : f = fs[i]
      OBVIOUS
    <3>2. IsSpeculative(EnrichFile(s, f, speculative)) <=> speculative
      BY EnrichFileIs, Zenon
    <3>3. new[i] = EnrichFile(s, f, speculative)
      BY <2>2, <3>1, Zenon
    <3> QED BY <3>2, <3>3, Zenon
  <2> QED BY <2>1, <2>3, Zenon
<1> QED BY <1>3, <1>4

\* fs lists Files without repetition, all of them pending.
ListsPending(s, fs) ==
    /\ fs \in Seq(File)
    /\ \A i \in 1..Len(fs) : s.status[fs[i]] = "pending"
    /\ \A i, j \in 1..Len(fs) : fs[i] = fs[j] => i = j

\* Reads of pending Files are put into the queue, and the Files marked.
LEMMA ReadsAdded ==
    ASSUME NEW s, Base(s), NEW t \in Session, NEW at, NEW new,
           IsInsert(t.commands, s.commands, at, new), NEW fs, ListsPending(s, fs),
           NEW speculative \in BOOLEAN, new = Reads(s, fs, speculative),
           t.issued = s.issued, t.held = s.held, t.cacheUpdate = s.cacheUpdate, Kin(s, t),
           Loading(t) = Loading(s) \cup Members(fs),
           Queue(t.commands, t.issued, t.epoch)
    PROVE  Keeps(s, t) /\ Scans(t) = Scans(s) /\ Leased(t) = Leased(s)
<1>0. /\ fs \in Seq(File) /\ s \in Session
      /\ \A i \in 1..Len(fs) : s.status[fs[i]] = "pending"
      /\ \A i, j \in 1..Len(fs) : fs[i] = fs[j] => i = j
  BY DEF ListsPending, Base
<1>00. /\ Len(new) = Len(fs)
       /\ \A i \in 1..Len(fs) : /\ new[i].type = "enrich" /\ new[i].epoch = s.epoch
                                /\ new[i].file = fs[i]
  BY <1>0, ReadsAre
<1>1. t.epoch = s.epoch
  BY DEF Kin
<1>2. new \in Seq(Command) /\ Members(t.commands) = Members(s.commands) \cup Members(new)
  <2>1. new \in Seq(Command)
    BY DEF IsInsert
  <2> QED BY <2>1, InsertIs
<1>3. \A c \in Members(new) : c.type = "enrich"
  BY <1>00, <1>2 DEF Members
<1>4. \A i \in 1..Len(fs) : new[i] \in Fetching(s.epoch, fs[i]) /\ fs[i] \notin Loading(s)
  BY <1>0, <1>00, <1>2 DEF Fetching, Loading
<1>5. LoadsOK(s) => LoadsOK(t)
  BY <1>0, <1>00, <1>1, <1>4, InsertLoads DEF LoadsOK
<1>6. CachesOK(s) => CachesOK(t)
  <2>1. \A i \in 1..Len(new) : new[i].type # "cache"
    BY <1>00
  <2> QED BY <1>1, <2>1, InsertCaches DEF CachesOK
<1>7. All(t) = All(s) \cup Members(new)
  BY <1>2 DEF All
<1>8. Scans(t) = Scans(s)
  BY <1>1, <1>3, <1>7 DEF Scans, Ours
<1>9. Leased(t) = Leased(s)
  BY <1>8 DEF Leased
<1>10. Fresh(s) => Fresh(t)
  <2>1. \A c \in All(t) : Admissible(t, c) => c \in All(s)
    BY <1>3, <1>7 DEF Admissible, IsBuild
  <2> QED BY <1>9, <2>1, FreshKept
<1> QED BY <1>5, <1>6, <1>8, <1>9, <1>10 DEF Keeps, Base

\* The same, with the marking spelled out.
LEMMA ReadsMarked ==
    ASSUME NEW s, Base(s), NEW fs, ListsPending(s, fs), NEW speculative \in BOOLEAN,
           NEW at, NEW q2, IsInsert(q2, s.commands, at, Reads(s, fs, speculative)),
           Queue(q2, s.issued, s.epoch),
           NEW t, t = markLoading([s EXCEPT !.commands = q2], Members(fs))
    PROVE  /\ Keeps(s, t) /\ Scans(t) = Scans(s) /\ Leased(t) = Leased(s)
           /\ t.searching = s.searching /\ t.cacheUpdate = s.cacheUpdate
           /\ t.scanned = s.scanned /\ t.acquired = s.acquired
<1>1. s \in Session /\ fs \in Seq(File)
  BY DEF Base, ListsPending
<1>2. q2 \in Seq(Command)
  BY DEF IsInsert
<1>3. PICK u : u = [s EXCEPT !.commands = q2]
  OBVIOUS
<1>4. /\ u \in Session /\ u.commands = q2 /\ u.issued = s.issued /\ u.held = s.held
      /\ u.cacheUpdate = s.cacheUpdate /\ u.searching = s.searching
      /\ u.acquired = s.acquired /\ u.scanned = s.scanned /\ u.status = s.status
      /\ u.epoch = s.epoch /\ u.cursor = s.cursor /\ u.focused = s.focused
      /\ u.frame = s.frame /\ u.shutdown = s.shutdown /\ u.raced = s.raced
      /\ u.lastUsed = s.lastUsed
  BY <1>1, <1>2, <1>3 DEF Session
<1>5. t = Marked(u, Members(fs), "pending", "loading")
  BY <1>3 DEF markLoading
<1>6. /\ t \in Session
      /\ t.commands = u.commands /\ t.issued = u.issued /\ t.held = u.held
      /\ t.cacheUpdate = u.cacheUpdate /\ t.searching = u.searching
      /\ t.acquired = u.acquired /\ t.scanned = u.scanned
      /\ Kin(u, t)
      /\ \A f \in File : t.status[f] = IF f \in Members(fs) /\ u.status[f] = "pending"
                                       THEN "loading" ELSE u.status[f]
  <2>1. PICK from \in {"pending", "loading"} : from = "pending"
    OBVIOUS
  <2>2. PICK to \in {"pending", "loading"} : to = "loading"
    OBVIOUS
  <2>3. t = Marked(u, Members(fs), from, to)
    BY <1>5, <2>1, <2>2
  <2>4. PICK ms : ms = Members(fs)
    OBVIOUS
  <2>5. /\ t \in Session
        /\ t.commands = u.commands /\ t.issued = u.issued /\ t.held = u.held
        /\ t.cacheUpdate = u.cacheUpdate /\ t.searching = u.searching
        /\ t.acquired = u.acquired /\ t.scanned = u.scanned
        /\ Kin(u, t)
    BY <1>4, <2>3, <2>4, MarkedIs
  <2>6. \A f \in File : t.status[f] = IF f \in ms /\ u.status[f] = from
                                       THEN to ELSE u.status[f]
    BY <1>4, <2>3, <2>4, MarkedIs
  <2> QED BY <2>1, <2>2, <2>4, <2>5, <2>6
<1>7. Kin(s, t)
  BY <1>4, <1>6 DEF Kin, Retained
<1>8. Members(fs) \subseteq File /\ \A f \in Members(fs) : s.status[f] = "pending"
  BY <1>1 DEF Members, ListsPending
<1>9. Loading(t) = Loading(s) \cup Members(fs)
  BY <1>4, <1>6, <1>8 DEF Loading
<1>10. PICK new : new = Reads(s, fs, speculative)
  OBVIOUS
<1>13. Queue(t.commands, t.issued, t.epoch)
  BY <1>4, <1>6, <1>7 DEF Kin
<1>14. IsInsert(t.commands, s.commands, at, new)
  BY <1>4, <1>6, <1>10
<1>15. Keeps(s, t) /\ Scans(t) = Scans(s) /\ Leased(t) = Leased(s)
  <2>1. t.issued = s.issued /\ t.held = s.held /\ t.cacheUpdate = s.cacheUpdate
    BY <1>4, <1>6
  <2>2. t \in Session
    BY <1>6
  <2> QED BY <1>7, <1>9, <1>10, <1>13, <1>14, <2>1, <2>2, ReadsAdded
<1> QED BY <1>4, <1>6, <1>15

\* Demand reads go between the demand and the speculative work.
LEMMA InsertedIs ==
    ASSUME NEW q \in Seq(Command), NEW new \in Seq(Command), NEW at \in 0..Len(q)
    PROVE  IsInsert(SubSeq(q, 1, at) \o new \o SubSeq(q, at + 1, Len(q)), q, at, new)
<1>1. PICK a : a = SubSeq(q, 1, at)
  OBVIOUS
<1>2. PICK b : b = SubSeq(q, at + 1, Len(q))
  OBVIOUS
<1>3. a \in Seq(Command) /\ Len(a) = at /\ \A i \in 1..at : a[i] = q[i]
  BY <1>1
<1>4. b = Rest(q, at)
  BY <1>2 DEF Rest
<1>5. /\ b \in Seq(Command) /\ Len(b) = Len(q) - at
      /\ \A i \in 1..(Len(q) - at) : b[i] = q[i + at]
  BY <1>4, RestIs
<1>6. PICK c : c = a \o new
  OBVIOUS
<1>7. /\ c \in Seq(Command) /\ Len(c) = at + Len(new)
      /\ \A i \in 1..at : c[i] = q[i]
      /\ \A i \in 1..Len(new) : c[at + i] = new[i]
  <2>1. /\ c \in Seq(Command) /\ Len(c) = at + Len(new)
        /\ \A i \in 1..(at + Len(new)) : c[i] = IF i <= at THEN a[i] ELSE new[i - at]
    BY <1>3, <1>6, ConcatProperties
  <2>2. \A i \in 1..Len(new) : at + i \in 1..(at + Len(new)) /\ ~(at + i <= at) /\ (at + i) - at = i
    OBVIOUS
  <2>3. \A i \in 1..at : i \in 1..(at + Len(new)) /\ i <= at
    OBVIOUS
  <2> QED BY <1>3, <2>1, <2>2, <2>3
<1>8. PICK d : d = c \o b
  OBVIOUS
<1>9. /\ d \in Seq(Command) /\ Len(d) = Len(q) + Len(new)
      /\ \A i \in 1..(at + Len(new)) : d[i] = c[i]
      /\ \A i \in 1..(Len(q) - at) : d[at + Len(new) + i] = b[i]
  <2> DEFINE m == at + Len(new)
  <2> DEFINE n == Len(q) - at
  <2>1. m \in Nat /\ n \in Nat /\ m + n = Len(q) + Len(new)
    OBVIOUS
  <2>2. /\ d \in Seq(Command) /\ Len(d) = m + n
        /\ \A i \in 1..(m + n) : d[i] = IF i <= m THEN c[i] ELSE b[i - m]
    <3>1. Len(c) = m /\ Len(b) = n /\ b \in Seq(Command) /\ c \in Seq(Command)
      BY <1>5, <1>7
    <3> HIDE DEF m, n
    <3> QED BY <1>8, <3>1, ConcatProperties
  <2> HIDE DEF m, n
  <2>3. \A i \in 1..n : m + i \in 1..(m + n) /\ ~(m + i <= m) /\ (m + i) - m = i
    BY <2>1
  <2>4. \A i \in 1..m : i \in 1..(m + n) /\ i <= m
    BY <2>1
  <2>5. (\A i \in 1..m : d[i] = c[i]) /\ (\A i \in 1..n : d[m + i] = b[i])
    BY <2>2, <2>3, <2>4
  <2> QED BY <2>1, <2>2, <2>5 DEF m, n
<1>10. /\ \A i \in 1..at : d[i] = q[i]
       /\ \A i \in 1..Len(new) : d[at + i] = new[i]
  BY <1>7, <1>9
<1>11. ASSUME NEW i \in (at + 1)..Len(q) PROVE d[Len(new) + i] = q[i]
  <2>1. i - at \in 1..(Len(q) - at) /\ at + Len(new) + (i - at) = Len(new) + i /\ (i - at) + at = i
    OBVIOUS
  <2>2. d[at + Len(new) + (i - at)] = b[i - at] /\ b[i - at] = q[(i - at) + at]
    BY <1>5, <1>9, <2>1
  <2> QED BY <2>1, <2>2
<1>12. IsInsert(d, q, at, new)
  BY <1>9, <1>10, <1>11 DEF IsInsert
<1> QED BY <1>1, <1>2, <1>6, <1>8, <1>12

\* queueFileEnrichment of demand work.
LEMMA DemandKeeps ==
    ASSUME NEW s, Base(s), NEW fs, ListsPending(s, fs), NEW t, t = Demand(s, fs)
    PROVE  /\ Keeps(s, t) /\ Scans(t) = Scans(s) /\ Leased(t) = Leased(s)
           /\ t.searching = s.searching /\ t.cacheUpdate = s.cacheUpdate
           /\ t.scanned = s.scanned /\ t.acquired = s.acquired
<1> DEFINE q == s.commands
<1> DEFINE later == {i \in 1..Len(q) : IsSpeculative(q[i])}
<1> DEFINE at == IF later = {} THEN Len(q)
                 ELSE (CHOOSE i \in later : \A j \in later : i <= j) - 1
<1> DEFINE new == Reads(s, fs, FALSE)
<1> DEFINE q2 == SubSeq(q, 1, at) \o new \o SubSeq(q, at + 1, Len(q))
<1>1. s \in Session /\ q \in Seq(Command) /\ fs \in Seq(File)
  BY SessionIs DEF Base, ListsPending
<1>2. at \in 0..Len(q)
  <2>1. CASE later = {}
    BY <1>1, <2>1
  <2>2. CASE later # {}
    <3>1. later \in SUBSET Nat
      OBVIOUS
    <3>2. \E i \in later : \A j \in later : i <= j
      <4> HIDE DEF later
      <4> QED BY <2>2, <3>1, LeastExists
    <3>3. PICK i : i = CHOOSE k \in later : \A j \in later : k <= j
      OBVIOUS
    <3>4. i \in later
      BY <3>2, <3>3
    <3>5. i \in 1..Len(q) /\ at = i - 1
      BY <2>2, <3>3, <3>4
    <3> QED BY <1>1, <3>5
  <2> QED BY <2>1, <2>2
<1>3. t = markLoading([s EXCEPT !.commands = q2], Members(fs))
  BY DEF Demand, MapSeq, Reads
<1>4. /\ new \in Seq(Command) /\ Len(new) = Len(fs)
      /\ \A i \in 1..Len(new) : new[i].epoch = s.epoch /\ ~IsSpeculative(new[i])
  <2>1. PICK b \in BOOLEAN : b = FALSE
    OBVIOUS
  <2>2. new = Reads(s, fs, b)
    BY <2>1
  <2> HIDE DEF new
  <2> QED BY <1>1, <2>1, <2>2, ReadsAre
<1> HIDE DEF at, later
<1>5. IsInsert(q2, q, at, new)
  <2> HIDE DEF new
  <2> QED BY <1>1, <1>2, <1>4, InsertedIs
<1>6. Queue(q2, s.issued, s.epoch)
  <2>1. Queue(q, s.issued, s.epoch)
    BY DEF Base
  <2> HIDE DEF q2, new, q
  <2> QED BY <1>4, <1>5, <2>1, InsertQueue
<1> HIDE DEF q2
<1>7. PICK b \in BOOLEAN : b = FALSE
  OBVIOUS
<1>8. IsInsert(q2, s.commands, at, Reads(s, fs, b))
  BY <1>5, <1>7
<1> QED BY <1>3, <1>6, <1>8, ReadsMarked

-----------------------------------------------------------------------------
(* Lists of Files.                                                         *)

Distinct(fs) == \A i, j \in 1..Len(fs) : fs[i] = fs[j] => i = j

\* The first n Files of a list, or all.
LEMMA PrefixIs ==
    ASSUME NEW fs \in Seq(File), NEW n \in Int, NEW ps, ps = Prefix(fs, n)
    PROVE  /\ ps \in Seq(File) /\ Len(ps) <= Len(fs) /\ (Len(ps) <= n \/ Len(ps) = 0)
           /\ \A i \in 1..Len(ps) : ps[i] = fs[i]
<1>1. PICK m \in Nat : m = IF n < 0 THEN 0 ELSE IF n < Len(fs) THEN n ELSE Len(fs)
  OBVIOUS
<1>2. m <= Len(fs) /\ (m <= n \/ m = 0)
  BY <1>1
<1>3. ps = SubSeq(fs, 1, m)
  BY <1>1 DEF Prefix
<1>4. ps \in Seq(File) /\ Len(ps) = m /\ \A i \in 1..m : ps[i] = fs[i]
  BY <1>2, <1>3
<1> QED BY <1>2, <1>4

\* Selecting from a list repeats no File.
LEMMA KeptDistinct ==
    ASSUME NEW fs \in Seq(File), Distinct(fs), NEW P, NEW ks, ks = Kept(fs, P)
    PROVE  ks \in Seq(File) /\ Distinct(ks) /\ Members(ks) = Members(fs) \cap P
<1>1. ks \in Seq(File) /\ Members(ks) = Members(fs) \cap P
  BY KeptIs
<1>2. PICK g : Embeds(ks, fs, g)
  BY KeptEmbeds
<1>3. \A i, j \in 1..Len(ks) : ks[i] = ks[j] => i = j
  <2> SUFFICES ASSUME NEW i \in 1..Len(ks), NEW j \in 1..Len(ks), ks[i] = ks[j], i < j
               PROVE  FALSE
    BY <1>1
  <2>1. g[i] \in 1..Len(fs) /\ g[j] \in 1..Len(fs) /\ fs[g[i]] = fs[g[j]] /\ g[i] < g[j]
    BY <1>2 DEF Embeds
  <2> QED BY <2>1 DEF Distinct
<1> QED BY <1>1, <1>3 DEF Distinct

\* The pending Files chosen from a list, at most n.
LEMMA ChosenReads ==
    ASSUME NEW s, NEW fs \in Seq(File), Distinct(fs), NEW P, P \subseteq Pending(s), NEW n \in Int,
           NEW new, new = Prefix(Kept(fs, P), n)
    PROVE  ListsPending(s, new) /\ (Len(new) <= n \/ Len(new) = 0)
<1>1. PICK ks : ks = Kept(fs, P)
  OBVIOUS
<1>2. ks \in Seq(File) /\ Members(ks) \subseteq P /\ Distinct(ks)
  BY <1>1, KeptDistinct
<1>5. /\ new \in Seq(File) /\ Len(new) <= Len(ks) /\ (Len(new) <= n \/ Len(new) = 0)
      /\ \A i \in 1..Len(new) : new[i] = ks[i]
  BY <1>1, <1>2, PrefixIs
<1>6. \A i \in 1..Len(new) : i \in 1..Len(ks)
  BY <1>2, <1>5
<1>7. \A i \in 1..Len(new) : s.status[new[i]] = "pending"
  BY <1>2, <1>5, <1>6 DEF Members, Pending
<1>8. \A i, j \in 1..Len(new) : new[i] = new[j] => i = j
  BY <1>2, <1>5, <1>6 DEF Distinct
<1> QED BY <1>5, <1>7, <1>8 DEF ListsPending

\* Two lists without a File in common.
LEMMA ConcatDistinct ==
    ASSUME NEW fs \in Seq(File), NEW gs \in Seq(File), Distinct(fs), Distinct(gs),
           Members(fs) \cap Members(gs) = {}
    PROVE  /\ fs \o gs \in Seq(File) /\ Distinct(fs \o gs)
           /\ Members(fs \o gs) = Members(fs) \cup Members(gs)
<1>1. PICK d : d = fs \o gs
  OBVIOUS
<1>2. PICK m \in Nat : m = Len(fs)
  OBVIOUS
<1>3. PICK n \in Nat : n = Len(gs)
  OBVIOUS
<1>4. /\ d \in Seq(File) /\ Len(d) = m + n
      /\ \A i \in 1..(m + n) : d[i] = IF i <= m THEN fs[i] ELSE gs[i - m]
  BY <1>1, <1>2, <1>3, ConcatProperties
<1>5. \A i \in 1..(m + n) : IF i <= m THEN i \in 1..m ELSE i - m \in 1..n
  OBVIOUS
<1>6. \A i \in 1..(m + n) : IF i <= m THEN d[i] \in Members(fs) ELSE d[i] \in Members(gs)
  BY <1>2, <1>3, <1>4, <1>5 DEF Members
<1>7. ASSUME NEW i \in 1..(m + n), NEW j \in 1..(m + n), d[i] = d[j] PROVE i = j
  <2>1. CASE i <= m /\ j <= m
    <3>1. i \in 1..m /\ j \in 1..m /\ fs[i] = fs[j]
      BY <1>4, <1>5, <1>7, <2>1
    <3> QED BY <1>2, <3>1 DEF Distinct
  <2>2. CASE ~(i <= m) /\ ~(j <= m)
    <3>1. i - m \in 1..n /\ j - m \in 1..n /\ gs[i - m] = gs[j - m]
      BY <1>4, <1>5, <1>7, <2>2
    <3>2. i - m = j - m
      BY <1>3, <3>1 DEF Distinct
    <3> QED BY <3>2
  <2>3. CASE ~(i <= m <=> j <= m)
    BY <1>6, <1>7, <2>3
  <2> QED BY <2>1, <2>2, <2>3
<1>8. Members(d) \subseteq Members(fs) \cup Members(gs)
  BY <1>4, <1>6 DEF Members
<1>9. ASSUME NEW i \in 1..m PROVE fs[i] \in Members(d)
  <2>1. i \in 1..(m + n) /\ d[i] = fs[i]
    BY <1>4
  <2> QED BY <1>4, <2>1 DEF Members
<1>10. ASSUME NEW i \in 1..n PROVE gs[i] \in Members(d)
  <2>1. PICK k \in 1..(m + n) : k = m + i /\ ~(k <= m) /\ k - m = i
    OBVIOUS
  <2>2. d[k] = gs[i]
    BY <1>4, <2>1
  <2> QED BY <1>4, <2>2 DEF Members
<1>11. Members(fs) \cup Members(gs) \subseteq Members(d)
  BY <1>2, <1>3, <1>9, <1>10 DEF Members
<1>12. Distinct(d)
  BY <1>4, <1>7 DEF Distinct
<1> QED BY <1>1, <1>4, <1>8, <1>11, <1>12

\* The Files from a to b.
LEMMA AscendingIs ==
    ASSUME NEW a \in Nat \ {0}, NEW b \in Int, b <= NumFiles
    PROVE  Ascending(a, b) \in Seq(File) /\ Distinct(Ascending(a, b))
           /\ Members(Ascending(a, b)) = a..b
<1>1. NumFiles \in Nat
  BY BoundsAssumption
<1>2. PICK n \in Nat : n = IF b < a THEN 0 ELSE b - a + 1
  <2>1. CASE b < a
    <3>1. 0 \in Nat /\ 0 = IF b < a THEN 0 ELSE b - a + 1
      BY <2>1
    <3> QED BY <3>1
  <2>2. CASE ~(b < a)
    <3>1. b - a + 1 \in Nat /\ b - a + 1 = IF b < a THEN 0 ELSE b - a + 1
      BY <2>2
    <3> QED BY <3>1
  <2> QED BY <2>1, <2>2
<1>3. PICK fs : fs = Ascending(a, b)
  OBVIOUS
<1>4. fs = [i \in 1..n |-> a + i - 1]
  BY <1>2, <1>3 DEF Ascending
<1>5. \A i \in 1..n : a + i - 1 \in File /\ a + i - 1 \in a..b
  BY <1>1, <1>2 DEF File
<1>6. fs \in Seq(File) /\ Len(fs) = n
  <2>1. fs \in [1..n -> File]
    BY <1>4, <1>5
  <2>2. fs \in Seq(File)
    BY <2>1
  <2> QED BY <2>1, <2>2
<1>7. \A i \in 1..n : fs[i] = a + i - 1
  BY <1>4
<1>8. Distinct(fs)
  BY <1>6, <1>7 DEF Distinct
<1>9. Members(fs) = a..b
  <2>1. \A f \in a..b : f - a + 1 \in 1..n /\ a + (f - a + 1) - 1 = f
    BY <1>2
  <2>2. ASSUME NEW f \in Members(fs) PROVE f \in a..b
    <3>1. PICK i \in 1..n : f = fs[i]
      BY <1>6 DEF Members
    <3>2. f = a + i - 1
      BY <1>7, <3>1
    <3> QED BY <1>5, <3>2
  <2>3. ASSUME NEW f \in a..b PROVE f \in Members(fs)
    <3>1. PICK i \in 1..n : i = f - a + 1 /\ a + i - 1 = f
      BY <2>1
    <3>2. fs[i] = f
      BY <1>7, <3>1
    <3> QED BY <1>6, <3>2 DEF Members
  <2> QED BY <2>2, <2>3
<1> QED BY <1>3, <1>6, <1>8, <1>9

\* The Files from b down to a.
LEMMA DescendingIs ==
    ASSUME NEW a \in Nat \ {0}, NEW b \in Int, b <= NumFiles
    PROVE  Descending(b, a) \in Seq(File) /\ Distinct(Descending(b, a))
           /\ Members(Descending(b, a)) = a..b
<1>1. NumFiles \in Nat
  BY BoundsAssumption
<1>2. PICK n \in Nat : n = IF b < a THEN 0 ELSE b - a + 1
  <2>1. CASE b < a
    <3>1. 0 \in Nat /\ 0 = IF b < a THEN 0 ELSE b - a + 1
      BY <2>1
    <3> QED BY <3>1
  <2>2. CASE ~(b < a)
    <3>1. b - a + 1 \in Nat /\ b - a + 1 = IF b < a THEN 0 ELSE b - a + 1
      BY <2>2
    <3> QED BY <3>1
  <2> QED BY <2>1, <2>2
<1>3. PICK fs : fs = Descending(b, a)
  OBVIOUS
<1>4. fs = [i \in 1..n |-> b - i + 1]
  BY <1>2, <1>3 DEF Descending
<1>5. \A i \in 1..n : b - i + 1 \in File /\ b - i + 1 \in a..b
  BY <1>1, <1>2 DEF File
<1>6. fs \in Seq(File) /\ Len(fs) = n
  BY <1>4, <1>5
<1>7. \A i \in 1..n : fs[i] = b - i + 1
  BY <1>4
<1>8. Distinct(fs)
  BY <1>6, <1>7 DEF Distinct
<1>9. Members(fs) = a..b
  <2>1. \A f \in a..b : b - f + 1 \in 1..n /\ b - (b - f + 1) + 1 = f
    BY <1>2
  <2> QED BY <1>5, <1>6, <1>7, <2>1 DEF Members
<1> QED BY <1>3, <1>6, <1>8, <1>9

\* Speculative reads go behind the others.
LEMMA ExtendedIs ==
    ASSUME NEW q \in Seq(Command), NEW new \in Seq(Command)
    PROVE  IsInsert(q \o new, q, Len(q), new)
<1>1. PICK d : d = q \o new
  OBVIOUS
<1>3. PICK m \in Nat : m = Len(q)
  OBVIOUS
<1>4. PICK n \in Nat : n = Len(new)
  OBVIOUS
<1>2. /\ d \in Seq(Command) /\ Len(d) = m + n
      /\ \A i \in 1..(m + n) : d[i] = IF i <= m THEN q[i] ELSE new[i - m]
  BY <1>1, <1>3, <1>4, ConcatProperties
<1>5. /\ \A i \in 1..m : i \in 1..(m + n) /\ i <= m
      /\ \A i \in 1..n : m + i \in 1..(m + n) /\ ~(m + i <= m) /\ (m + i) - m = i
      /\ (m + 1)..m = {} /\ m \in 0..m
  OBVIOUS
<1>6. (\A i \in 1..m : d[i] = q[i]) /\ (\A i \in 1..n : d[m + i] = new[i])
  BY <1>2, <1>5
<1>7. IsInsert(d, q, m, new)
  BY <1>2, <1>3, <1>4, <1>5, <1>6 DEF IsInsert
<1> QED BY <1>1, <1>3, <1>7

\* queueFileEnrichment of speculative work stays within the bound.
LEMMA SpeculateKeeps ==
    ASSUME NEW s, Base(s), NEW fs \in Seq(File), Distinct(fs), NEW t, t = Speculate(s, fs)
    PROVE  /\ Keeps(s, t) /\ Scans(t) = Scans(s) /\ Leased(t) = Leased(s)
           /\ t.searching = s.searching /\ t.cacheUpdate = s.cacheUpdate
<1>1. s \in Session /\ s.commands \in Seq(Command) /\ IsFiniteSet(s.issued)
      /\ Queue(s.commands, s.issued, s.epoch)
  BY SessionIs, QueueIs DEF Base
<1>2. PICK k : k = speculativeEnrichments(s)
  OBVIOUS
<1>3. k = Cardinality(SpeculativeAt(s.commands)) + Cardinality(SpeculativeIn(s.issued))
  BY <1>2 DEF speculativeEnrichments, SpeculativeAt, SpeculativeIn
<1>4. /\ Cardinality(SpeculativeAt(s.commands)) \in Nat
      /\ Cardinality(SpeculativeIn(s.issued)) \in Nat
  BY <1>1, SpeculativeFinite
<1>5. MaxSpeculative \in Nat
  BY BoundsAssumption
<1>6. k \in Nat /\ k <= MaxSpeculative
  BY <1>1, <1>3, <1>4 DEF Queue
<1>7. PICK n \in Int : n = MaxSpeculative - k
  BY <1>5, <1>6
<1>8. PICK new : new = Prefix(Kept(fs, Pending(s)), n)
  OBVIOUS
<1>9. ListsPending(s, new) /\ (Len(new) <= n \/ Len(new) = 0)
  <2>1. PICK P : P = Pending(s)
    OBVIOUS
  <2> QED BY <1>8, <2>1, ChosenReads
<1>10. PICK b \in BOOLEAN : b = TRUE
  OBVIOUS
<1>11. PICK r : r = Reads(s, new, b)
  OBVIOUS
<1>12. new \in Seq(File)
  BY <1>9 DEF ListsPending
<1>13. /\ r \in Seq(Command) /\ Len(r) = Len(new)
       /\ \A i \in 1..Len(r) : r[i].epoch = s.epoch
  BY <1>1, <1>11, <1>12, ReadsAre
<1>14. PICK q2 : q2 = s.commands \o r
  OBVIOUS
<1>15. IsInsert(q2, s.commands, Len(s.commands), r)
  BY <1>1, <1>13, <1>14, ExtendedIs
<1>16. Queue(q2, s.issued, s.epoch)
  <2>1. Len(new) \in Nat
    BY <1>12
  <2>2. Len(r) + Cardinality(SpeculativeAt(s.commands)) + Cardinality(SpeculativeIn(s.issued))
            <= MaxSpeculative
    BY <1>3, <1>4, <1>5, <1>6, <1>7, <1>9, <1>13, <2>1
  <2> QED BY <1>1, <1>13, <1>15, <2>2, ExtendQueue
<1>17. t = markLoading([s EXCEPT !.commands = q2], Members(new))
  <2>1. r = [i \in 1..Len(new) |-> EnrichFile(s, new[i], TRUE)]
    BY <1>10, <1>11 DEF Reads
  <2> QED BY <1>2, <1>7, <1>8, <1>14, <2>1 DEF Speculate, MapSeq
<1>18. IsInsert(q2, s.commands, Len(s.commands), Reads(s, new, b))
  BY <1>11, <1>15
<1> QED BY <1>9, <1>16, <1>17, <1>18, ReadsMarked

\* The order of speculative work names no File twice.
LEMMA SpeculativeOrderIs ==
    ASSUME NEW s \in Session
    PROVE  SpeculativeOrder(s) \in Seq(File) /\ Distinct(SpeculativeOrder(s))
<1>1. NumFiles \in Nat
  BY BoundsAssumption
<1>2. s.cursor \in Cursor
  BY SessionIs
<1>3. PICK a \in File : a = s.cursor.first
  BY <1>2 DEF Cursor
<1>4. PICK b \in File : b = s.cursor.last
  BY <1>2 DEF Cursor
<1>5. PICK r : r = enrichmentRange(s)
  OBVIOUS
<1>6. PICK fs : fs = Ascending(a, b)
  OBVIOUS
<1>7. fs \in Seq(File) /\ Distinct(fs) /\ Members(fs) = a..b
  <2>1. a \in Nat \ {0} /\ b \in Int /\ b <= NumFiles
    BY <1>1 DEF File
  <2> QED BY <1>6, <2>1, AscendingIs
<1>8. PICK gs : gs = Kept(Descending(a - 1, 1), r)
  OBVIOUS
<1>9. gs \in Seq(File) /\ Distinct(gs) /\ Members(gs) \subseteq 1..(a - 1)
  <2>1. PICK z \in Int : z = a - 1
    BY <1>1 DEF File
  <2>2. PICK one \in Nat \ {0} : one = 1
    OBVIOUS
  <2>3. z <= NumFiles
    BY <1>1, <2>1 DEF File
  <2>4. PICK ds : ds = Descending(z, one)
    OBVIOUS
  <2>5. ds \in Seq(File) /\ Distinct(ds) /\ Members(ds) = one..z
    BY <2>3, <2>4, DescendingIs
  <2>6. gs = Kept(ds, r)
    BY <1>8, <2>1, <2>2, <2>4
  <2>7. gs \in Seq(File) /\ Distinct(gs) /\ Members(gs) = Members(ds) \cap r
    BY <2>5, <2>6, KeptDistinct
  <2> QED BY <2>1, <2>2, <2>5, <2>7
<1>10. PICK hs : hs = Kept(Ascending(b + 1, NumFiles), r)
  OBVIOUS
<1>11. hs \in Seq(File) /\ Distinct(hs) /\ Members(hs) \subseteq (b + 1)..NumFiles
  <2>1. PICK z \in Nat \ {0} : z = b + 1
    BY <1>1 DEF File
  <2>2. PICK m \in Int : m = NumFiles /\ m <= NumFiles
    BY <1>1
  <2>4. PICK ds : ds = Ascending(z, m)
    OBVIOUS
  <2>5. ds \in Seq(File) /\ Distinct(ds) /\ Members(ds) = z..m
    BY <2>2, <2>4, AscendingIs
  <2>6. hs = Kept(ds, r)
    BY <1>10, <2>1, <2>2, <2>4
  <2>7. hs \in Seq(File) /\ Distinct(hs) /\ Members(hs) = Members(ds) \cap r
    BY <2>5, <2>6, KeptDistinct
  <2> QED BY <2>1, <2>2, <2>5, <2>7
<1>12. a <= b
  BY <1>2, <1>3, <1>4, <1>1 DEF Cursor, File
<1>13. PICK is : is = fs \o gs
  OBVIOUS
<1>14. is \in Seq(File) /\ Distinct(is) /\ Members(is) = Members(fs) \cup Members(gs)
  <2>1. Members(fs) \cap Members(gs) = {}
    BY <1>1, <1>7, <1>9 DEF File
  <2> QED BY <1>7, <1>9, <1>13, <2>1, ConcatDistinct
<1>15. PICK js : js = is \o hs
  OBVIOUS
<1>16. js \in Seq(File) /\ Distinct(js)
  <2>1. Members(is) \cap Members(hs) = {}
    BY <1>1, <1>7, <1>9, <1>11, <1>12, <1>14 DEF File
  <2> QED BY <1>11, <1>14, <1>15, <2>1, ConcatDistinct
<1>17. SpeculativeOrder(s) = js
  BY <1>3, <1>4, <1>5, <1>6, <1>8, <1>10, <1>13, <1>15 DEF SpeculativeOrder
<1> QED BY <1>16, <1>17

-----------------------------------------------------------------------------
(* Cache updates.                                                          *)

Same == [c \in Command |-> c]

\* Renaming nothing.
LEMMA SameIs ==
    /\ Renames(Same) /\ RenamesCaches(Same)
    /\ \A q \in Seq(Command) : Mapped(q, Same) = q
    /\ \A iss \in SUBSET Command : Image(iss, Same) = iss
<1>1. Same \in [Command -> Command] /\ \A c \in Command : Same[c] = c
  BY DEF Same
<1>2. Renames(Same) /\ RenamesCaches(Same)
  BY <1>1 DEF Renames, RenamesCaches
<1>3. ASSUME NEW q \in Seq(Command) PROVE Mapped(q, Same) = q
  BY <1>1 DEF Mapped
<1>4. ASSUME NEW iss \in SUBSET Command PROVE Image(iss, Same) = iss
  BY <1>1 DEF Image
<1> QED BY <1>2, <1>3, <1>4

\* A range is not null.
LEMMA TextIsNotNone ==
    ASSUME NEW range \in Text
    PROVE  range # None
  BY NoneAssumption DEF Text, File

Unwanted == [c \in Command |-> IF c.type = "cache" THEN [c EXCEPT !.wanted = FALSE] ELSE c]

\* What a newer request makes of an issued cache update.
LEMMA UnwantedIs ==
    /\ Renames(Unwanted)
    /\ \A c \in Command :
          /\ Unwanted[c] = IF c.type = "cache" THEN [c EXCEPT !.wanted = FALSE] ELSE c
          /\ c.type # "cache" => Unwanted[c] = c
          /\ c.type = "cache" => Unwanted[c].type = "cache" /\ ~Unwanted[c].wanted
<1>1. \A c \in Command : Unwanted[c] = IF c.type = "cache" THEN [c EXCEPT !.wanted = FALSE] ELSE c
  BY DEF Unwanted
<1>2. ASSUME NEW c \in Command, c.type = "cache"
      PROVE  /\ Unwanted[c] \in Command /\ Unwanted[c].type = "cache" /\ ~Unwanted[c].wanted
             /\ Unwanted[c].epoch = c.epoch
  <2>1. PICK d : d = [c EXCEPT !.wanted = FALSE]
    OBVIOUS
  <2>2. d \in Command /\ d.type = "cache" /\ ~d.wanted /\ d.epoch = c.epoch
    BY <1>2, <2>1 DEF Command
  <2> QED BY <1>1, <1>2, <2>1, <2>2
<1>3. ASSUME NEW c \in Command, c.type # "cache" PROVE Unwanted[c] = c
  BY <1>1, <1>3
<1>4. Unwanted \in [Command -> Command]
  <2>1. \A c \in Command : Unwanted[c] \in Command
    BY <1>2, <1>3
  <2> QED BY <2>1 DEF Unwanted
<1>5. Renames(Unwanted)
  <2> SUFFICES ASSUME NEW c \in Command
               PROVE  /\ Unwanted[c].type = c.type /\ Unwanted[c].epoch = c.epoch
                      /\ c.type \in {"enrich", "build", "scan"} => Unwanted[c].file = c.file
                      /\ c.type = "enrich" => (Unwanted[c].search => c.search)
                      /\ IsSpeculative(Unwanted[c]) => Unwanted[c] = c
    BY <1>4 DEF Renames
  <2>1. CASE c.type = "cache"
    BY <1>2, <2>1 DEF IsSpeculative
  <2>2. CASE c.type # "cache"
    BY <1>3, <2>2
  <2> QED BY <2>1, <2>2
<1> QED BY <1>1, <1>2, <1>3, <1>5

\* The build of a cache update.
LEMMA CacheBuildIs ==
    ASSUME NEW s \in Session, NEW range \in Text, NEW c, c = CacheBuild(s, range)
    PROVE  /\ c \in Command /\ c.type = "cache" /\ c.epoch = s.epoch /\ c.base = s.frame
           /\ c.range = range /\ c.wanted /\ c.view = None
<1>1. s.epoch \in Nat /\ s.frame \in Text
  BY SessionIs
<1>2. c.type = "cache" /\ c.epoch = s.epoch /\ c.base = s.frame
      /\ c.range = range /\ c.wanted = TRUE /\ c.view = None
  BY DEF CacheBuild
<1>3. c \in Command
  BY <1>1 DEF CacheBuild, Command
<1> QED BY <1>2, <1>3

LoadsKept(q, iss, q2, iss2, e) ==
    \A loading : Loads(q, iss, e, loading) => Loads(q2, iss2, e, loading)
NotCaches(q) == {d \in Members(q) : d.type # "cache"}

Requested(q, c) == Append(Kept(q, NotCaches(q)), c)

\* The queue after a newer request for a cache update.
LEMMA RequestCaches ==
    ASSUME NEW q, NEW iss, NEW e \in Nat, Queue(q, iss, e), NEW c \in WantedCaches(e),
           c.range # None
    PROVE  /\ Queue(Requested(q, c), Image(iss, Unwanted), e)
           /\ Caches(Requested(q, c), Image(iss, Unwanted), e, c.range)
           /\ LoadsKept(q, iss, Requested(q, c), Image(iss, Unwanted), e)
           /\ Members(Requested(q, c)) = NotCaches(q) \cup {c}
<1>a. PICK W : W = NotCaches(q)
  OBVIOUS
<1>b. PICK q2 : q2 = Requested(q, c)
  OBVIOUS
<1>c. PICK iss2 : iss2 = Image(iss, Unwanted)
  OBVIOUS
<1>d. c \in Command /\ q2 = Append(Kept(q, W), c)
  BY <1>a, <1>b DEF WantedCaches, Requested
<1>0. c.type = "cache" /\ c.epoch = e /\ W = {d \in Members(q) : d.type # "cache"}
  BY <1>a DEF WantedCaches, NotCaches
<1>1. q \in Seq(Command) /\ iss \in SUBSET Command /\ IsFiniteSet(iss)
  BY QueueIs
<1>2. PICK k : k = Kept(q, W)
  OBVIOUS
<1>3. k \in Seq(Command) /\ Members(k) = W
  BY <1>0, <1>1, <1>2, KeptIs
<1>4. Queue(k, iss, e)
  BY <1>2, KeptQueue
<1>5. Renames(Same) /\ Renames(Unwanted) /\ Mapped(k, Same) = k
  BY <1>3, SameIs, UnwantedIs
<1>6. Queue(k, iss2, e)
  BY <1>4, <1>5, <1>c, RemapQueue
<1>7. ~IsSpeculative(c)
  BY <1>0 DEF IsSpeculative
<1>8. Queue(q2, iss2, e)
  BY <1>0, <1>2, <1>6, <1>7, <1>d, AppendQueue
<1>9. ASSUME NEW loading, Loads(q, iss, e, loading) PROVE Loads(q2, iss2, e, loading)
  <2>1. \A f \in File : f \in loading <=>
            f \in loading /\ ~\E d \in Members(q) : d \notin W /\ d \in Fetching(e, f)
    BY <1>0 DEF Fetching
  <2>2. Loads(k, iss, e, loading)
    BY <1>2, <1>9, <2>1, KeptLoads
  <2>3. Loads(k, iss2, e, loading)
    BY <1>4, <1>5, <1>c, <2>2, RemapLoads
  <2> QED BY <1>0, <1>2, <1>6, <1>d, <2>3, AppendOther
<1>10. \A d \in Members(k) \cup iss2 : d \notin WantedCaches(e)
  <2>1. \A d \in Members(k) : d \notin WantedCaches(e)
    BY <1>0, <1>3 DEF WantedCaches
  <2>2. ASSUME NEW d \in iss2 PROVE d \notin WantedCaches(e)
    <3>1. PICK b \in iss : d = Unwanted[b]
      BY <1>c DEF Image
    <3>2. b \in Command
      BY <1>1
    <3>3. CASE b.type = "cache"
      BY <3>1, <3>2, <3>3, UnwantedIs DEF WantedCaches
    <3>4. CASE b.type # "cache"
      BY <3>1, <3>2, <3>4, UnwantedIs DEF WantedCaches
    <3> QED BY <3>3, <3>4
  <2> QED BY <2>1, <2>2
<1>11. AtMostOne(k, iss2, WantedCaches(e))
  BY <1>10 DEF AtMostOne, Members
<1>12. AtMostOne(q2, iss2, WantedCaches(e))
  BY <1>2, <1>3, <1>10, <1>11, <1>d, AppendOne
<1>13. Members(q2) = Members(k) \cup {c}
  <2>1. q2 = Append(k, c)
    BY <1>2, <1>d
  <2>2. Members(Append(k, c)) = Members(k) \cup {c}
    BY <1>3, <1>d, AppendMembers
  <2> QED BY <2>1, <2>2
<1>15. Caches(q2, iss2, e, c.range)
  BY <1>10, <1>12, <1>13 DEF Caches
<1>16. LoadsKept(q, iss, q2, iss2, e)
  BY <1>9 DEF LoadsKept
<1> QED BY <1>16, <1>a, <1>b, <1>c, <1>3, <1>8, <1>9, <1>13, <1>15

\* After a newer request exactly its build is wanted.
LEMMA queueCacheBuildKeeps ==
    ASSUME NEW s, Base(s), NEW range \in Text, NEW t, t = queueCacheBuild(s, range)
    PROVE  /\ Keeps(s, t) /\ CachesOK(t) /\ Scans(t) = Scans(s) /\ Leased(t) = Leased(s)
           /\ t.cacheUpdate = range /\ t.status = s.status /\ t.held = s.held
           /\ t.searching = s.searching /\ t.scanned = s.scanned /\ t.acquired = s.acquired
<1>1. /\ s \in Session /\ s.epoch \in Nat /\ s.commands \in Seq(Command)
      /\ s.issued \in SUBSET Command /\ IsFiniteSet(s.issued)
      /\ Queue(s.commands, s.issued, s.epoch)
  BY SessionIs, QueueIs DEF Base
<1>2. PICK c : c = CacheBuild(s, range)
  OBVIOUS
<1>3. /\ c \in Command /\ c.type = "cache" /\ c.epoch = s.epoch /\ c.base = s.frame
      /\ c.range = range /\ c.wanted /\ c.view = None
  BY <1>1, <1>2, CacheBuildIs
<1>4. PICK W : W = {d \in Members(s.commands) : d.type # "cache"}
  OBVIOUS
<1>5. PICK q2 : q2 = Append(Kept(s.commands, W), c)
  OBVIOUS
<1>6. PICK iss2 : iss2 = Image(s.issued, Unwanted)
  OBVIOUS
<1>7. range # None
  BY TextIsNotNone
<1>8. /\ Queue(q2, iss2, s.epoch) /\ Caches(q2, iss2, s.epoch, c.range)
      /\ \A loading : Loads(s.commands, s.issued, s.epoch, loading) =>
                          Loads(q2, iss2, s.epoch, loading)
      /\ Members(q2) = {d \in Members(s.commands) : d.type # "cache"} \cup {c}
  <2>0. c \in WantedCaches(s.epoch)
    BY <1>3, Zenon DEF WantedCaches
  <2>1. q2 = Requested(s.commands, c)
    BY <1>4, <1>5 DEF Requested, NotCaches
  <2>2. c.range # None
    BY <1>3, <1>7
  <2>3. /\ Queue(q2, iss2, s.epoch) /\ Caches(q2, iss2, s.epoch, c.range)
        /\ LoadsKept(s.commands, s.issued, q2, iss2, s.epoch)
        /\ Members(q2) = NotCaches(s.commands) \cup {c}
    BY <1>1, <1>6, <2>0, <2>1, <2>2, RequestCaches
  <2> QED BY <2>3 DEF LoadsKept, NotCaches
<1>9. q2 \in Seq(Command) /\ iss2 \in SUBSET Command
  BY <1>8, QueueIs
<1>10. {IF d.type = "cache" THEN [d EXCEPT !.wanted = FALSE] ELSE d : d \in s.issued} = iss2
  <2>1. \A d \in s.issued :
            Unwanted[d] = IF d.type = "cache" THEN [d EXCEPT !.wanted = FALSE] ELSE d
    BY <1>1, UnwantedIs
  <2>2. iss2 = {Unwanted[d] : d \in s.issued}
    BY <1>6 DEF Image
  <2>3. PICK U : U = {IF d.type = "cache" THEN [d EXCEPT !.wanted = FALSE] ELSE d : d \in s.issued}
    OBVIOUS
  <2>4. ASSUME NEW x \in U PROVE x \in iss2
    BY <2>1, <2>2, <2>3
  <2>5. ASSUME NEW x \in iss2 PROVE x \in U
    <3>1. PICK d \in s.issued : x = Unwanted[d]
      BY <2>2
    <3>2. x = IF d.type = "cache" THEN [d EXCEPT !.wanted = FALSE] ELSE d
      BY <2>1, <3>1
    <3> QED BY <2>3, <3>2
  <2> QED BY <2>3, <2>4, <2>5
<1>11. t = [s EXCEPT !.commands = q2, !.issued = iss2, !.cacheUpdate = range]
  BY <1>2, <1>4, <1>5, <1>10 DEF queueCacheBuild
<1>12. /\ t \in Session /\ t.commands = q2 /\ t.issued = iss2 /\ t.cacheUpdate = range
       /\ t.status = s.status /\ t.held = s.held
       /\ t.searching = s.searching /\ t.scanned = s.scanned /\ t.acquired = s.acquired
       /\ t.epoch = s.epoch /\ t.cursor = s.cursor /\ t.focused = s.focused
       /\ t.frame = s.frame /\ t.shutdown = s.shutdown /\ t.raced = s.raced
       /\ t.lastUsed = s.lastUsed
  BY <1>1, <1>9, <1>11 DEF Session
<1>13. Base(t)
  BY <1>8, <1>12 DEF Base
<1>14. Kin(s, t) /\ Loading(t) = Loading(s)
  BY <1>12 DEF Kin, Retained, Loading
<1>15. CachesOK(t)
  BY <1>3, <1>8, <1>12 DEF CachesOK
<1>16. LoadsOK(s) => LoadsOK(t)
  BY <1>8, <1>12, <1>14 DEF LoadsOK
<1>17. \A d \in iss2 : \E b \in s.issued : b \in Command /\ d = Unwanted[b]
  BY <1>1, <1>6 DEF Image
<1>18. ASSUME NEW d \in All(t)
       PROVE  d \in All(s) \/ d = c \/ (d.type = "cache" /\ ~d.wanted)
  <2>1. CASE d \in Members(q2)
    BY <1>8, <2>1 DEF All
  <2>2. CASE d \in iss2
    <3>1. PICK b \in s.issued : b \in Command /\ d = Unwanted[b]
      BY <1>17, <2>2
    <3>2. CASE b.type = "cache"
      BY <3>1, <3>2, UnwantedIs
    <3>3. CASE b.type # "cache"
      BY <3>1, <3>3, UnwantedIs DEF All
    <3> QED BY <3>2, <3>3
  <2> QED BY <1>12, <2>1, <2>2 DEF All
<1>19. ASSUME NEW d \in All(s), d.type # "cache" PROVE d \in All(t)
  <2>1. CASE d \in Members(s.commands)
    BY <1>8, <1>12, <1>19, <2>1 DEF All
  <2>2. CASE d \in s.issued
    <3>1. d \in Command /\ Unwanted[d] = d
      BY <1>1, <1>19, <2>2, UnwantedIs
    <3>2. d \in iss2
      BY <1>6, <2>2, <3>1 DEF Image
    <3> QED BY <1>12, <3>2 DEF All
  <2> QED BY <2>1, <2>2 DEF All
<1>20. Scans(t) = Scans(s)
  <2>1. Scans(t) \subseteq Scans(s)
    BY <1>3, <1>12, <1>18 DEF Scans, Ours
  <2>2. Scans(s) \subseteq Scans(t)
    BY <1>12, <1>19 DEF Scans, Ours
  <2> QED BY <2>1, <2>2
<1>21. Leased(t) = Leased(s)
  BY <1>12, <1>20 DEF Leased
<1>22. Fresh(s) => Fresh(t)
  <2>1. \A d \in All(t) : Admissible(t, d) =>
               \/ d \in All(s)
               \/ d.view = None /\ d.base = s.frame /\ (d.type = "build" => d.range = s.focused)
    BY <1>3, <1>18 DEF Admissible
  <2> QED BY <1>14, <1>21, <2>1, FreshKept
<1> QED BY <1>12, <1>13, <1>14, <1>15, <1>16, <1>20, <1>21, <1>22 DEF Keeps

\* Releasing leases may request a cache update, and withdraws none.
LEMMA stageReleasedSearchLeasesKeeps ==
    ASSUME NEW s, Base(s), NEW t, t = stageReleasedSearchLeases(s)
    PROVE  /\ Keeps(s, t) /\ Scans(t) = Scans(s) /\ Leased(t) = Leased(s)
           /\ t.status = s.status /\ t.held = s.held
           /\ t.searching = s.searching /\ t.scanned = s.scanned /\ t.acquired = s.acquired
           /\ s.cacheUpdate # None => t.cacheUpdate # None
<1>1. PICK range : range = IF s.cacheUpdate # None THEN s.cacheUpdate ELSE s.focused
  OBVIOUS
<1>2. range \in Text
  BY <1>1, SessionIs DEF Base
<1>3. CASE t = queueCacheBuild(s, range)
  BY <1>2, <1>3, queueCacheBuildKeeps, TextIsNotNone
<1>4. CASE t = s
  BY <1>4 DEF Keeps, Kin
<1>5. t = queueCacheBuild(s, range) \/ t = s
  BY <1>1 DEF stageReleasedSearchLeases
<1> QED BY <1>3, <1>4, <1>5

-----------------------------------------------------------------------------
(* The Review search.                                                      *)

\* pumpReviewSearchAcquisition reads pending Files only.
LEMMA PumpKeeps ==
    ASSUME NEW s, Base(s), NEW t, t = Pump(s)
    PROVE  /\ Keeps(s, t) /\ Scans(t) = Scans(s) /\ Leased(t) = Leased(s)
           /\ t.searching = s.searching /\ t.cacheUpdate = s.cacheUpdate
<1> DEFINE active == Cardinality({i \in 1..Len(s.commands) :
                                  s.commands[i].type = "enrich" /\ Ours(s, s.commands[i])})
                    + Cardinality({c \in s.issued : c.type = "enrich" /\ Ours(s, c)})
<1>1. CASE t = s
  BY <1>1 DEF Keeps, Kin
<1>2. CASE ~(~s.searching \/ active >= MaxAcquisitions)
  <2>1. /\ s \in Session /\ s.acquired \in Text /\ s.commands \in Seq(Command)
        /\ IsFiniteSet(s.issued)
    BY SessionIs, QueueIs DEF Base
  <2>2. PICK n : n = MaxAcquisitions - active
    OBVIOUS
  <2>3. n \in Int
    <3>1. MaxAcquisitions \in Nat
      BY BoundsAssumption
    <3>2. /\ IsFiniteSet(1..Len(s.commands))
      BY <2>1, FS_Interval
    <3>3. IsFiniteSet({i \in 1..Len(s.commands) :
                          s.commands[i].type = "enrich" /\ Ours(s, s.commands[i])})
      BY <3>2, FS_Subset
    <3>4. IsFiniteSet({c \in s.issued : c.type = "enrich" /\ Ours(s, c)})
      BY <2>1, FS_Subset
    <3>5. active \in Nat
      BY <3>3, <3>4, FS_CardinalityType
    <3> QED BY <2>2, <3>1, <3>5
  <2>4. PICK u : u = [s EXCEPT !.acquired = @ \cup Terminal(s)]
    OBVIOUS
  <2>5. s.acquired \cup Terminal(s) \in Text
    BY <2>1 DEF Text, Terminal
  <2>6. /\ u \in Session /\ u.commands = s.commands /\ u.issued = s.issued
        /\ u.status = s.status /\ u.held = s.held /\ u.cacheUpdate = s.cacheUpdate
        /\ u.searching = s.searching /\ u.scanned = s.scanned
        /\ u.epoch = s.epoch /\ u.cursor = s.cursor /\ u.focused = s.focused
        /\ u.frame = s.frame /\ u.shutdown = s.shutdown /\ u.raced = s.raced
        /\ u.lastUsed = s.lastUsed
    BY <2>1, <2>4, <2>5 DEF Session
  <2>7. Kin(s, u) /\ Loading(u) = Loading(s)
    BY <2>6 DEF Kin, Retained, Loading
  <2>8. /\ Base(u) /\ All(u) = All(s) /\ Scans(u) = Scans(s) /\ Leased(u) = Leased(s)
        /\ LoadsOK(s) => LoadsOK(u)
        /\ CachesOK(s) => CachesOK(u)
    BY <2>6, <2>7, SameQueue
  <2>9. Fresh(s) => Fresh(u)
    BY <2>7, <2>8, FreshKept
  <2>10. PICK P : P = Pending(s) \ s.acquired
    OBVIOUS
  <2>11. PICK as : as = Ascending(1, NumFiles)
    OBVIOUS
  <2>12. as \in Seq(File) /\ Distinct(as)
    <3>1. PICK a \in Nat \ {0} : a = 1
      OBVIOUS
    <3>2. PICK b \in Int : b = NumFiles /\ b <= NumFiles
      BY BoundsAssumption
    <3>3. as = Ascending(a, b)
      BY <2>11, <3>1, <3>2
    <3> QED BY <3>2, <3>3, AscendingIs
  <2>13. PICK new : new = Prefix(Kept(as, P), n)
    OBVIOUS
  <2>14. P \subseteq Pending(u)
    BY <2>6, <2>10 DEF Pending
  <2>15. ListsPending(u, new)
    BY <2>3, <2>12, <2>13, <2>14, ChosenReads
  <2>16. t = Demand(u, new)
    BY <1>2, <2>2, <2>4, <2>10, <2>11, <2>13 DEF Pump
  <2>17. /\ Keeps(u, t) /\ Scans(t) = Scans(u) /\ Leased(t) = Leased(u)
         /\ t.searching = u.searching /\ t.cacheUpdate = u.cacheUpdate
    BY <2>8, <2>15, <2>16, DemandKeeps
  <2>18. Keeps(s, u)
    BY <2>7, <2>8, <2>9 DEF Keeps
  <2>19. Keeps(s, t)
    BY <2>17, <2>18, KeepsTransitive
  <2> QED BY <2>6, <2>8, <2>17, <2>19
<1>3. CASE ~s.searching \/ active >= MaxAcquisitions
  BY <1>1, <1>3 DEF Pump
<1> QED BY <1>2, <1>3

\* F leaves the builds alone.
RenamesNoBuild(F) == \A c \in Command : IsBuild(c) => F[c] = c

\* Commands are renamed, and nothing else that matters changes.
LEMMA RenamedKeeps ==
    ASSUME NEW s, Base(s), NEW F, NEW G, Renames(F), Renames(G),
           RenamesNoBuild(F), RenamesNoBuild(G), NEW t \in Session,
           t.commands = Mapped(s.commands, F), t.issued = Image(s.issued, G),
           t.status = s.status, t.held = s.held, t.cacheUpdate = s.cacheUpdate, Kin(s, t)
    PROVE  Keeps(s, t) /\ Leased(t) = Leased(s)
<1>1. /\ s \in Session /\ Queue(s.commands, s.issued, s.epoch) /\ s.epoch \in Nat
      /\ s.commands \in Seq(Command) /\ s.issued \in SUBSET Command
  BY SessionIs, QueueIs DEF Base
<1>2. t.epoch = s.epoch
  BY DEF Kin
<1>3. F \in [Command -> Command] /\ G \in [Command -> Command]
  BY DEF Renames
<1>4. RenamesCaches(F) /\ RenamesCaches(G)
  BY DEF RenamesCaches, RenamesNoBuild, IsBuild
<1>5. Queue(t.commands, t.issued, t.epoch)
  BY <1>1, <1>2, RemapQueue
<1>6. LoadsOK(s) => LoadsOK(t)
  <2>1. Loading(t) = Loading(s)
    BY DEF Loading
  <2> QED BY <1>1, <1>2, <2>1, RemapLoads DEF LoadsOK
<1>7. CachesOK(s) => CachesOK(t)
  BY <1>1, <1>2, <1>4, RemapCaches DEF CachesOK
<1>8. Members(t.commands) = {F[c] : c \in Members(s.commands)}
  BY <1>1, <1>3, MappedIs
<1>9. Members(s.commands) \in SUBSET Command
  BY <1>1, QueueIs
<1>10. ASSUME NEW c \in All(t)
       PROVE  \E d \in All(s) : d \in Command /\ (c = F[d] \/ c = G[d])
  BY <1>1, <1>8, <1>9 DEF All, Image
<1>11. ASSUME NEW d \in All(s) PROVE d \in Command /\ (F[d] \in All(t) \/ G[d] \in All(t))
  BY <1>1, <1>8, <1>9 DEF All, Image
<1>12. ASSUME NEW d \in Command
       PROVE  /\ F[d].type = d.type /\ F[d].epoch = d.epoch
              /\ G[d].type = d.type /\ G[d].epoch = d.epoch
              /\ d.type = "scan" => F[d].file = d.file /\ G[d].file = d.file
              /\ IsBuild(d) => F[d] = d /\ G[d] = d
  <2>1. F[d].type = d.type /\ F[d].epoch = d.epoch /\ (d.type = "scan" => F[d].file = d.file)
    BY DEF Renames
  <2>2. G[d].type = d.type /\ G[d].epoch = d.epoch /\ (d.type = "scan" => G[d].file = d.file)
    BY DEF Renames
  <2> QED BY <2>1, <2>2 DEF RenamesNoBuild
<1>13. {c.file : c \in Scans(t)} = {c.file : c \in Scans(s)}
  <2>1. ASSUME NEW c \in Scans(t) PROVE \E d \in Scans(s) : d.file = c.file
    <3>1. PICK d \in All(s) : d \in Command /\ (c = F[d] \/ c = G[d])
      BY <1>10 DEF Scans
    <3>2. d.type = "scan" /\ d.epoch = s.epoch /\ d.file = c.file
      BY <1>2, <1>12, <3>1 DEF Scans, Ours
    <3> QED BY <3>1, <3>2 DEF Scans, Ours
  <2>2. ASSUME NEW d \in Scans(s) PROVE \E c \in Scans(t) : c.file = d.file
    <3>1. d \in Command /\ (F[d] \in All(t) \/ G[d] \in All(t)) /\ d.type = "scan" /\ d.epoch = s.epoch
      BY <1>11 DEF Scans, Ours
    <3>2. PICK c \in All(t) : c = F[d] \/ c = G[d]
      BY <3>1
    <3>3. c.type = "scan" /\ c.epoch = t.epoch /\ c.file = d.file
      BY <1>2, <1>12, <3>1, <3>2
    <3> QED BY <3>3 DEF Scans, Ours
  <2> QED BY <2>1, <2>2
<1>14. Leased(t) = Leased(s)
  BY <1>13 DEF Leased
<1>15. Fresh(s) => Fresh(t)
  <2>1. ASSUME NEW c \in All(t), Admissible(t, c) PROVE c \in All(s)
    <3>1. PICK d \in All(s) : d \in Command /\ (c = F[d] \/ c = G[d])
      BY <1>10
    <3>2. c.type = d.type
      BY <1>12, <3>1
    <3>3. IsBuild(d)
      BY <2>1, <3>2 DEF Admissible, IsBuild
    <3> QED BY <1>12, <3>1, <3>3
  <2> QED BY <1>14, <2>1, FreshKept
<1> QED BY <1>5, <1>6, <1>7, <1>14, <1>15 DEF Keeps, Base

\* Scans, and reads of the current Session.
Droppable(s, D) ==
    /\ D \subseteq Members(s.commands)
    /\ \A c \in D : c.type = "scan" \/ (c.type = "enrich" /\ c.epoch = s.epoch)
DroppedReads(D) == {c.file : c \in {d \in D : d.type = "enrich"}}

\* Queued commands are dropped, and the Files of their reads are pending again.
LEMMA DroppedKeeps ==
    ASSUME NEW s, Base(s), NEW D, Droppable(s, D), NEW t \in Session,
           t.commands = Kept(s.commands, Members(s.commands) \ D), t.issued = s.issued,
           t.held = s.held, t.cacheUpdate = s.cacheUpdate, Kin(s, t),
           Loading(t) = Loading(s) \ DroppedReads(D)
    PROVE  /\ Base(t)
           /\ LoadsOK(s) => LoadsOK(t)
           /\ CachesOK(s) => CachesOK(t)
           /\ (\A c \in D : c.type # "scan") =>
                 Scans(t) = Scans(s) /\ Leased(t) = Leased(s) /\ (Fresh(s) => Fresh(t))
<1>1. /\ s \in Session /\ Queue(s.commands, s.issued, s.epoch)
      /\ s.commands \in Seq(Command) /\ s.issued \in SUBSET Command
      /\ Members(s.commands) \in SUBSET Command
  BY SessionIs, QueueIs DEF Base
<1>2. t.epoch = s.epoch
  BY DEF Kin
<1>3. /\ D \subseteq Members(s.commands)
      /\ \A c \in D : c.type = "scan" \/ (c.type = "enrich" /\ c.epoch = s.epoch)
  BY DEF Droppable
<1>4. PICK W : W = Members(s.commands) \ D
  OBVIOUS
<1>5. t.commands = Kept(s.commands, W)
  BY <1>4
<1>6. Members(t.commands) = Members(s.commands) \ D
  <2>1. Members(Kept(s.commands, W)) = Members(s.commands) \cap W
    BY <1>1, KeptIs
  <2> QED BY <1>4, <1>5, <2>1
<1>7. Queue(t.commands, t.issued, t.epoch)
  BY <1>1, <1>2, <1>5, KeptQueue
<1>8. LoadsOK(s) => LoadsOK(t)
  <2>1. ASSUME NEW f \in File
        PROVE  f \in Loading(t) <=> f \in Loading(s) /\
                   ~\E c \in Members(s.commands) : c \notin W /\ c \in Fetching(s.epoch, f)
    <3>1. f \in DroppedReads(D) <=> \E c \in D : c.type = "enrich" /\ c.file = f
      BY DEF DroppedReads
    <3>2. f \in DroppedReads(D) <=>
              \E c \in Members(s.commands) : c \notin W /\ c \in Fetching(s.epoch, f)
      BY <1>1, <1>3, <1>4, <3>1 DEF Fetching
    <3> QED BY <3>2
  <2>2. PICK left : left = Loading(t)
    OBVIOUS
  <2>3. \A f \in File : f \in left <=> f \in Loading(s) /\
                   ~\E c \in Members(s.commands) : c \notin W /\ c \in Fetching(s.epoch, f)
    BY <2>1, <2>2
  <2>4. LoadsOK(s) => Loads(Kept(s.commands, W), s.issued, s.epoch, left)
    BY <1>1, <2>3, KeptLoads DEF LoadsOK
  <2> QED BY <1>2, <1>5, <2>2, <2>4 DEF LoadsOK
<1>9. CachesOK(s) => CachesOK(t)
  <2>1. \A c \in Members(s.commands) : c \in WantedCaches(s.epoch) => c \in W
    BY <1>3, <1>4 DEF WantedCaches
  <2> QED BY <1>1, <1>2, <1>5, <2>1, KeptCaches DEF CachesOK
<1>10. ASSUME \A c \in D : c.type # "scan"
       PROVE  Scans(t) = Scans(s) /\ Leased(t) = Leased(s) /\ (Fresh(s) => Fresh(t))
  <2>1. All(t) \subseteq All(s)
    BY <1>6 DEF All
  <2>2. Scans(t) = Scans(s)
    BY <1>2, <1>6, <1>10 DEF Scans, All, Ours
  <2>3. Leased(t) = Leased(s)
    BY <2>2 DEF Leased
  <2> QED BY <2>1, <2>2, <2>3, FreshKept
<1> QED BY <1>7, <1>8, <1>9, <1>10 DEF Base

\* Files that were loading are pending again.
LEMMA resetLoadingIs ==
    ASSUME NEW s \in Session, NEW fs, NEW t, t = resetLoading(s, fs)
    PROVE  /\ t \in Session
           /\ t.commands = s.commands /\ t.issued = s.issued /\ t.held = s.held
           /\ t.cacheUpdate = s.cacheUpdate /\ t.searching = s.searching
           /\ t.acquired = s.acquired /\ t.scanned = s.scanned
           /\ Kin(s, t) /\ Terminal(t) = Terminal(s) /\ Loading(t) = Loading(s) \ fs
<1>1. PICK from \in {"pending", "loading"} : from = "loading"
  OBVIOUS
<1>2. PICK to \in {"pending", "loading"} : to = "pending"
  OBVIOUS
<1>3. t = Marked(s, fs, from, to)
  BY <1>1, <1>2 DEF resetLoading
<1>4. /\ t \in Session
      /\ t.commands = s.commands /\ t.issued = s.issued /\ t.held = s.held
      /\ t.cacheUpdate = s.cacheUpdate /\ t.searching = s.searching
      /\ t.acquired = s.acquired /\ t.scanned = s.scanned
      /\ Kin(s, t) /\ Terminal(t) = Terminal(s)
  BY <1>3, MarkedIs
<1>5. \A f \in File : t.status[f] = IF f \in fs /\ s.status[f] = from THEN to ELSE s.status[f]
  BY <1>3, MarkedIs
<1>6. Loading(t) = Loading(s) \ fs
  BY <1>1, <1>2, <1>5 DEF Loading
<1> QED BY <1>4, <1>6

\* A scan takes its lease, and the hold it replaces is released.
LEMMA QueueScanKeeps ==
    ASSUME NEW s, Base(s), NEW t, t = QueueScan(s)
    PROVE  /\ Keeps(s, t) /\ t.searching = s.searching
           /\ s.cacheUpdate # None => t.cacheUpdate # None
<1>0. CASE t = s
  BY <1>0 DEF Keeps, Kin
<1>1. CASE ~(~s.searching \/ Scans(s) # {} \/ Terminal(s) \ s.scanned = {})
  <2>1. PICK ready : ready = Terminal(s) \ s.scanned
    OBVIOUS
  <2>2. PICK f : f = CHOOSE g \in ready : \A h \in ready : g <= h
    OBVIOUS
  <2>3. f \in File
    <3>1. ready \in SUBSET Nat /\ ready # {} /\ ready \subseteq File
      BY <1>1, <2>1 DEF Terminal, File
    <3>2. \E g \in ready : \A h \in ready : g <= h
      BY <3>1, LeastExists
    <3>3. f \in ready
      BY <2>2, <3>2
    <3> QED BY <3>1, <3>3
  <2>4. /\ s \in Session /\ s.epoch \in Nat /\ s.scanned \in Text /\ s.held \in Text
        /\ s.commands \in Seq(Command)
        /\ Queue(s.commands, s.issued, s.epoch)
    BY SessionIs DEF Base
  <2>5. PICK c : c = ScanReviewSource(s, f)
    OBVIOUS
  <2>6. c \in Command /\ c.type = "scan" /\ c.epoch = s.epoch
    BY <2>3, <2>4, <2>5 DEF ScanReviewSource, Command
  <2>7. ~IsSpeculative(c)
    BY <2>6 DEF IsSpeculative
  <2>8. PICK q2 : q2 = Append(s.commands, c)
    OBVIOUS
  <2>9. PICK u : u = [s EXCEPT !.commands = q2, !.scanned = @ \cup {f}, !.held = @ \ {f}]
    OBVIOUS
  <2>10. s.scanned \cup {f} \in Text /\ s.held \ {f} \in Text /\ q2 \in Seq(Command)
    BY <2>3, <2>4, <2>6, <2>8 DEF Text
  <2>11. /\ u \in Session /\ u.commands = q2 /\ u.issued = s.issued
         /\ u.status = s.status /\ u.cacheUpdate = s.cacheUpdate
         /\ u.searching = s.searching
         /\ u.epoch = s.epoch /\ u.cursor = s.cursor /\ u.focused = s.focused
         /\ u.frame = s.frame /\ u.shutdown = s.shutdown /\ u.raced = s.raced
         /\ u.lastUsed = s.lastUsed
    BY <2>4, <2>9, <2>10 DEF Session
  <2>12. Kin(s, u) /\ Loading(u) = Loading(s)
    BY <2>11 DEF Kin, Retained, Loading
  <2>13. Base(u)
    <3>1. Queue(q2, s.issued, s.epoch)
      BY <2>4, <2>6, <2>7, <2>8, AppendQueue
    <3> QED BY <2>11, <3>1 DEF Base
  <2>14. LoadsOK(s) => LoadsOK(u)
    BY <2>4, <2>6, <2>8, <2>11, <2>12, AppendOther DEF LoadsOK
  <2>15. CachesOK(s) => CachesOK(u)
    BY <2>4, <2>6, <2>8, <2>11, AppendCaches DEF CachesOK
  <2>16. PICK v : v = Revised(u)
    OBVIOUS
  <2>17. /\ Base(v) /\ Kin(u, v) /\ Fresh(v) /\ v.searching = u.searching
         /\ v.cacheUpdate = u.cacheUpdate
         /\ LoadsOK(u) => LoadsOK(v)
         /\ CachesOK(u) => CachesOK(v)
    BY <2>13, <2>16, RevisedKeeps
  <2>18. Keeps(s, v) /\ v.searching = s.searching /\ v.cacheUpdate = s.cacheUpdate
    BY <2>11, <2>12, <2>14, <2>15, <2>17, KinTransitive DEF Keeps
  <2>19. CASE t = v
    BY <2>18, <2>19
  <2>20. CASE t = stageReleasedSearchLeases(v)
    <3>1. /\ Keeps(v, t) /\ t.searching = v.searching
          /\ v.cacheUpdate # None => t.cacheUpdate # None
      BY <2>17, <2>20, stageReleasedSearchLeasesKeeps
    <3> QED BY <2>18, <3>1, KeepsTransitive
  <2>21. t = v \/ t = stageReleasedSearchLeases(v)
    BY <1>1, <2>1, <2>2, <2>5, <2>8, <2>9, <2>16 DEF QueueScan
  <2> QED BY <2>19, <2>20, <2>21
<1>2. CASE ~s.searching \/ Scans(s) # {} \/ Terminal(s) \ s.scanned = {}
  BY <1>0, <1>2 DEF QueueScan
<1> QED BY <1>1, <1>2

\* No scan and no read of the Review search is queued.
NoSearchWork(q) ==
    \A c \in Members(q) : c.type # "scan" /\ (c.type = "enrich" => ~c.search)

\* The queued work of the search is dropped and its Files are pending again.
LEMMA DiscardSearchKeeps ==
    ASSUME NEW s, Base(s), NEW t, t = DiscardSearch(s)
    PROVE  /\ Keeps(s, t) /\ t.searching = s.searching /\ t.held = s.held
           /\ t.cacheUpdate = s.cacheUpdate /\ NoSearchWork(t.commands)
<1>1. PICK D : D = {c \in Members(s.commands) : c.type = "scan" \/ (c.type = "enrich" /\ c.search)}
  OBVIOUS
<1>2. PICK scans : scans = {c.file : c \in {d \in D : d.type = "scan"}}
  OBVIOUS
<1>3. PICK reads : reads = DroppedReads(D)
  OBVIOUS
<1>4. /\ s \in Session /\ Queue(s.commands, s.issued, s.epoch) /\ s.scanned \in Text
      /\ s.commands \in Seq(Command)
  BY SessionIs DEF Base
<1>5. Droppable(s, D)
  BY <1>1, <1>4, QueueIs DEF Droppable
<1>6. PICK W : W = Members(s.commands) \ D
  OBVIOUS
<1>7. PICK q2 : q2 = Kept(s.commands, W)
  OBVIOUS
<1>8. q2 \in Seq(Command)
  BY <1>4, <1>7, KeptIs
<1>9. PICK u : u = [s EXCEPT !.commands = q2, !.scanned = @ \ scans]
  OBVIOUS
<1>10. s.scanned \ scans \in Text
  BY <1>4 DEF Text
<1>11. /\ u \in Session /\ u.commands = q2 /\ u.issued = s.issued
       /\ u.status = s.status /\ u.cacheUpdate = s.cacheUpdate
       /\ u.searching = s.searching /\ u.held = s.held
       /\ u.epoch = s.epoch /\ u.cursor = s.cursor /\ u.focused = s.focused
       /\ u.frame = s.frame /\ u.shutdown = s.shutdown /\ u.raced = s.raced
       /\ u.lastUsed = s.lastUsed
  BY <1>4, <1>8, <1>9, <1>10 DEF Session
<1>12. PICK k : k = resetLoading(u, reads)
  OBVIOUS
<1>13. /\ k \in Session
       /\ k.commands = u.commands /\ k.issued = u.issued /\ k.held = u.held
       /\ k.cacheUpdate = u.cacheUpdate /\ k.searching = u.searching
       /\ Kin(u, k) /\ Loading(k) = Loading(u) \ reads
  BY <1>11, <1>12, resetLoadingIs
<1>14. Kin(s, k) /\ Loading(u) = Loading(s)
  <2>1. Kin(s, u) /\ Loading(u) = Loading(s)
    BY <1>11 DEF Kin, Retained, Loading
  <2> QED BY <1>13, <2>1, KinTransitive
<1>15. /\ k.commands = Kept(s.commands, Members(s.commands) \ D) /\ k.issued = s.issued
       /\ k.held = s.held /\ k.cacheUpdate = s.cacheUpdate /\ k.searching = s.searching
       /\ Loading(k) = Loading(s) \ DroppedReads(D)
  BY <1>3, <1>6, <1>7, <1>11, <1>13, <1>14
<1>16. /\ Base(k)
       /\ LoadsOK(s) => LoadsOK(k)
       /\ CachesOK(s) => CachesOK(k)
       /\ (\A c \in D : c.type # "scan") => (Fresh(s) => Fresh(k))
  BY <1>5, <1>13, <1>14, <1>15, DroppedKeeps
<1>17. t = IF scans = {} THEN k ELSE Revised(k)
  BY <1>1, <1>2, <1>3, <1>6, <1>7, <1>9, <1>12 DEF DiscardSearch, DroppedReads
<1>18. NoSearchWork(k.commands)
  <2>1. Members(q2) = Members(s.commands) \cap W
    BY <1>4, <1>7, KeptIs
  <2> QED BY <1>1, <1>6, <1>11, <1>13, <2>1 DEF NoSearchWork
<1>19. CASE scans = {}
  <2>1. \A c \in D : c.type # "scan"
    BY <1>2, <1>19
  <2> QED BY <1>14, <1>15, <1>16, <1>17, <1>19, <1>18, <2>1 DEF Keeps
<1>20. CASE scans # {}
  <2>1. t = Revised(k)
    BY <1>17, <1>20
  <2>2. /\ Base(t) /\ Kin(k, t) /\ Fresh(t) /\ t.searching = k.searching /\ t.held = k.held
        /\ t.cacheUpdate = k.cacheUpdate
        /\ LoadsOK(k) => LoadsOK(t)
        /\ CachesOK(k) => CachesOK(t)
    BY <1>16, <2>1, RevisedKeeps
  <2>3. k \in Session /\ IsFiniteSet(k.issued)
    BY <1>16, QueueIs DEF Base
  <2>4. t.commands = Mapped(k.commands, Outdated)
    BY <2>1, <2>3, RevisedIs
  <2>5. Members(t.commands) = {Outdated[c] : c \in Members(k.commands)}
    <3>1. k.commands \in Seq(Command)
      BY <2>3, SessionIs
    <3>2. PICK F : F = Outdated
      OBVIOUS
    <3>3. F \in [Command -> Command]
      BY <3>2, OutdatedIs DEF Renames
    <3>4. Members(Mapped(k.commands, F)) = {F[c] : c \in Members(k.commands)}
      BY <3>1, <3>3, MappedIs
    <3> QED BY <2>4, <3>2, <3>4
  <2>6. NoSearchWork(t.commands)
    <3> SUFFICES ASSUME NEW c \in Members(k.commands)
                 PROVE  /\ Outdated[c].type # "scan"
                        /\ Outdated[c].type = "enrich" => ~Outdated[c].search
      BY <2>5 DEF NoSearchWork
    <3>1. c \in Command
      BY <2>3, SessionIs DEF Members
    <3>2. c.type # "scan" /\ (c.type = "enrich" => ~c.search)
      BY <1>18 DEF NoSearchWork
    <3>3. Outdated[c].type = c.type
      BY <3>1, OutdatedIs DEF Renames
    <3>4. c.type = "enrich" => Outdated[c] = c
      BY <3>1, OutdatedIs DEF IsBuild
    <3> QED BY <3>2, <3>3, <3>4
  <2> QED BY <1>14, <1>15, <1>16, <2>2, <2>6, KinTransitive DEF Keeps
<1> QED BY <1>19, <1>20

\* The queued speculative reads are dropped and their Files are pending again.
LEMMA PauseSpeculativeKeeps ==
    ASSUME NEW s, Base(s), NEW t, t = PauseSpeculative(s)
    PROVE  Keeps(s, t) /\ Leased(t) = Leased(s) /\ t.searching = s.searching
<1>1. PICK D : D = {c \in Members(s.commands) : IsSpeculative(c) /\ Ours(s, c)}
  OBVIOUS
<1>2. \A c \in D : c.type = "enrich" /\ c.epoch = s.epoch /\ c \in Members(s.commands)
  BY <1>1 DEF IsSpeculative, Ours
<1>3. PICK reads : reads = {c.file : c \in D}
  OBVIOUS
<1>4. s \in Session /\ s.commands \in Seq(Command)
  BY SessionIs DEF Base
<1>5. Droppable(s, D) /\ reads = DroppedReads(D)
  BY <1>2, <1>3 DEF Droppable, DroppedReads
<1>6. PICK W : W = Members(s.commands) \ D
  OBVIOUS
<1>7. PICK q2 : q2 = Kept(s.commands, W)
  OBVIOUS
<1>8. q2 \in Seq(Command)
  BY <1>4, <1>7, KeptIs
<1>9. PICK u : u = [s EXCEPT !.commands = q2]
  OBVIOUS
<1>11. /\ u \in Session /\ u.commands = q2 /\ u.issued = s.issued
       /\ u.status = s.status /\ u.cacheUpdate = s.cacheUpdate
       /\ u.searching = s.searching /\ u.held = s.held
       /\ u.epoch = s.epoch /\ u.cursor = s.cursor /\ u.focused = s.focused
       /\ u.frame = s.frame /\ u.shutdown = s.shutdown /\ u.raced = s.raced
       /\ u.lastUsed = s.lastUsed
  BY <1>4, <1>8, <1>9 DEF Session
<1>12. t = resetLoading(u, reads)
  BY <1>1, <1>3, <1>6, <1>7, <1>9 DEF PauseSpeculative
<1>13. /\ t \in Session
       /\ t.commands = u.commands /\ t.issued = u.issued /\ t.held = u.held
       /\ t.cacheUpdate = u.cacheUpdate /\ t.searching = u.searching
       /\ Kin(u, t) /\ Loading(t) = Loading(u) \ reads
  BY <1>11, <1>12, resetLoadingIs
<1>14. Kin(s, t) /\ Loading(u) = Loading(s)
  <2>1. Kin(s, u) /\ Loading(u) = Loading(s)
    BY <1>11 DEF Kin, Retained, Loading
  <2> QED BY <1>13, <2>1, KinTransitive
<1>15. /\ t.commands = Kept(s.commands, Members(s.commands) \ D) /\ t.issued = s.issued
       /\ t.held = s.held /\ t.cacheUpdate = s.cacheUpdate /\ t.searching = s.searching
       /\ Loading(t) = Loading(s) \ DroppedReads(D)
  BY <1>5, <1>6, <1>7, <1>11, <1>13, <1>14
<1>16. \A c \in D : c.type # "scan"
  BY <1>2
<1>17. /\ Base(t)
       /\ LoadsOK(s) => LoadsOK(t)
       /\ CachesOK(s) => CachesOK(t)
       /\ Leased(t) = Leased(s)
       /\ Fresh(s) => Fresh(t)
  BY <1>5, <1>13, <1>14, <1>15, <1>16, DroppedKeeps
<1> QED BY <1>14, <1>15, <1>17 DEF Keeps

\* Something that builds depend on changes, and the commands do not.
LEMMA ReviseKeeps ==
    ASSUME NEW s, Base(s), NEW u \in Session, u.commands = s.commands, u.issued = s.issued,
           u.cacheUpdate = s.cacheUpdate, Kin(s, u), Loading(u) = Loading(s),
           NEW t, t = Revised(u)
    PROVE  /\ Keeps(s, t) /\ Fresh(t) /\ Leased(t) = Leased(u) /\ Scans(t) = Scans(s)
           /\ t.status = u.status /\ t.held = u.held /\ t.cacheUpdate = s.cacheUpdate
           /\ t.searching = u.searching /\ t.acquired = u.acquired /\ t.scanned = u.scanned
<1>1. u.epoch = s.epoch
  BY DEF Kin
<1>2. /\ Base(u) /\ Scans(u) = Scans(s)
      /\ LoadsOK(s) => LoadsOK(u)
      /\ CachesOK(s) => CachesOK(u)
  BY <1>1, SameQueue
<1>3. /\ Base(t) /\ Kin(u, t) /\ Fresh(t) /\ Scans(t) = Scans(u) /\ Leased(t) = Leased(u)
      /\ LoadsOK(u) => LoadsOK(t)
      /\ CachesOK(u) => CachesOK(t)
      /\ t.status = u.status /\ t.held = u.held /\ t.cacheUpdate = u.cacheUpdate
      /\ t.searching = u.searching /\ t.acquired = u.acquired /\ t.scanned = u.scanned
  BY <1>2, RevisedKeeps
<1>4. Kin(s, t)
  BY <1>3, KinTransitive
<1> QED BY <1>2, <1>3, <1>4 DEF Keeps

OldScans == [c \in Command |-> IF c.type = "scan" THEN [c EXCEPT !.current = FALSE] ELSE c]

\* What closing the search makes of an issued scan.
LEMMA OldScansIs ==
    /\ Renames(OldScans) /\ RenamesNoBuild(OldScans)
    /\ \A c \in Command : OldScans[c] = IF c.type = "scan" THEN [c EXCEPT !.current = FALSE] ELSE c
<1>1. \A c \in Command : OldScans[c] = IF c.type = "scan" THEN [c EXCEPT !.current = FALSE] ELSE c
  BY DEF OldScans
<1>2. ASSUME NEW c \in Command, c.type = "scan"
      PROVE  /\ OldScans[c] \in Command /\ OldScans[c].type = "scan"
             /\ OldScans[c].file = c.file /\ OldScans[c].epoch = c.epoch
  <2>1. PICK d : d = [c EXCEPT !.current = FALSE]
    OBVIOUS
  <2>2. d \in Command /\ d.type = "scan" /\ d.file = c.file /\ d.epoch = c.epoch
    BY <1>2, <2>1 DEF Command
  <2> QED BY <1>1, <1>2, <2>1, <2>2
<1>3. ASSUME NEW c \in Command, c.type # "scan" PROVE OldScans[c] = c
  BY <1>1, <1>3
<1>4. OldScans \in [Command -> Command]
  <2>1. \A c \in Command : OldScans[c] \in Command
    BY <1>2, <1>3
  <2> QED BY <2>1 DEF OldScans
<1>5. Renames(OldScans)
  <2> SUFFICES ASSUME NEW c \in Command
               PROVE  /\ OldScans[c].type = c.type /\ OldScans[c].epoch = c.epoch
                      /\ c.type \in {"enrich", "build", "scan"} => OldScans[c].file = c.file
                      /\ c.type = "enrich" => (OldScans[c].search => c.search)
                      /\ IsSpeculative(OldScans[c]) => OldScans[c] = c
    BY <1>4 DEF Renames
  <2>1. CASE c.type = "scan"
    BY <1>2, <2>1 DEF IsSpeculative
  <2>2. CASE c.type # "scan"
    BY <1>3, <2>2
  <2> QED BY <2>1, <2>2
<1>6. RenamesNoBuild(OldScans)
  BY <1>3 DEF RenamesNoBuild, IsBuild
<1> QED BY <1>1, <1>5, <1>6

\* Closing the search.
LEMMA closeReviewSearchKeeps ==
    ASSUME NEW s, Base(s), NEW t, t = closeReviewSearch(s)
    PROVE  Keeps(s, t)
<1>1. /\ s \in Session /\ s.commands \in Seq(Command) /\ s.issued \in SUBSET Command
      /\ IsFiniteSet(s.issued)
  BY SessionIs, QueueIs DEF Base
<1>2. PICK iss : iss = Image(s.issued, OldScans)
  OBVIOUS
<1>3. iss \in SUBSET Command
  BY <1>1, <1>2, OldScansIs, ImageIs DEF Renames
<1>4. {IF c.type = "scan" THEN [c EXCEPT !.current = FALSE] ELSE c : c \in s.issued} = iss
  <2>1. \A d \in s.issued :
            OldScans[d] = IF d.type = "scan" THEN [d EXCEPT !.current = FALSE] ELSE d
    BY <1>1, OldScansIs
  <2>2. iss = {OldScans[d] : d \in s.issued}
    BY <1>2 DEF Image
  <2>3. PICK U : U = {IF c.type = "scan" THEN [c EXCEPT !.current = FALSE] ELSE c : c \in s.issued}
    OBVIOUS
  <2>4. ASSUME NEW x \in U PROVE x \in iss
    BY <2>1, <2>2, <2>3
  <2>5. ASSUME NEW x \in iss PROVE x \in U
    <3>1. PICK d \in s.issued : x = OldScans[d]
      BY <2>2
    <3>2. x = IF d.type = "scan" THEN [d EXCEPT !.current = FALSE] ELSE d
      BY <2>1, <3>1
    <3> QED BY <2>3, <3>2
  <2> QED BY <2>3, <2>4, <2>5
<1>5. PICK u : u = [s EXCEPT !.searching = FALSE, !.acquired = {}, !.issued = iss]
  OBVIOUS
<1>6. /\ u \in Session /\ u.commands = s.commands /\ u.issued = iss
      /\ u.status = s.status /\ u.cacheUpdate = s.cacheUpdate /\ u.held = s.held
      /\ u.epoch = s.epoch /\ u.cursor = s.cursor /\ u.focused = s.focused
      /\ u.frame = s.frame /\ u.shutdown = s.shutdown /\ u.raced = s.raced
      /\ u.lastUsed = s.lastUsed
  <2>1. {} \in Text /\ FALSE \in BOOLEAN
    BY DEF Text
  <2> QED BY <1>1, <1>3, <1>5, <2>1 DEF Session
<1>7. Kin(s, u)
  BY <1>6 DEF Kin, Retained
<1>8. Keeps(s, u)
  <2>1. /\ Renames(Same) /\ RenamesNoBuild(Same) /\ Renames(OldScans) /\ RenamesNoBuild(OldScans)
        /\ u.commands = Mapped(s.commands, Same)
    BY <1>1, <1>6, SameIs, OldScansIs DEF RenamesNoBuild, Same
  <2> QED BY <1>2, <1>6, <1>7, <2>1, RenamedKeeps
<1>9. PICK d : d = DiscardSearch(u)
  OBVIOUS
<1>10. Keeps(u, d) /\ Base(d) /\ d \in Session
  BY <1>8, <1>9, DiscardSearchKeeps DEF Keeps, Base
<1>11. PICK v : v = [d EXCEPT !.held = {}]
  OBVIOUS
<1>12. PICK r : r = IF s.held = {} THEN d ELSE Revised(v)
  OBVIOUS
<1>13. Keeps(d, r)
  <2>1. CASE s.held = {}
    BY <1>10, <1>12, <2>1 DEF Keeps, Kin
  <2>2. CASE s.held # {}
    <3>1. /\ v \in Session /\ v.commands = d.commands /\ v.issued = d.issued
          /\ v.status = d.status /\ v.cacheUpdate = d.cacheUpdate
          /\ v.epoch = d.epoch /\ v.cursor = d.cursor /\ v.focused = d.focused
          /\ v.frame = d.frame /\ v.shutdown = d.shutdown /\ v.raced = d.raced
          /\ v.lastUsed = d.lastUsed
      BY <1>10, <1>11 DEF Session, Text
    <3>2. Kin(d, v) /\ Loading(v) = Loading(d)
      BY <3>1 DEF Kin, Retained, Loading
    <3>3. r = Revised(v)
      BY <1>12, <2>2
    <3> QED BY <1>10, <3>1, <3>2, <3>3, ReviseKeeps
  <2> QED BY <2>1, <2>2
<1>14. t = stageReleasedSearchLeases(r)
  BY <1>4, <1>5, <1>9, <1>11, <1>12 DEF closeReviewSearch
<1>15. Base(r)
  BY <1>13 DEF Keeps
<1>16. Keeps(r, t)
  BY <1>14, <1>15, stageReleasedSearchLeasesKeeps
<1> QED BY <1>8, <1>10, <1>13, <1>16, KeepsTransitive

\* Opening the search.
LEMMA openReviewSearchKeeps ==
    ASSUME NEW s, Base(s), NEW t, t = openReviewSearch(s)
    PROVE  Keeps(s, t)
<1>1. PICK fs : fs = Retained(s)
  OBVIOUS
<1>2. PICK h : h = hold(s, fs)
  OBVIOUS
<1>3. fs \in Text
  BY <1>1 DEF Retained, Text
<1>4. Keeps(s, h) /\ Base(h) /\ h \in Session
  BY <1>2, <1>3, holdKeeps DEF Keeps, Base
<1>5. PICK u : u = [h EXCEPT !.searching = TRUE, !.acquired = {}]
  OBVIOUS
<1>6. /\ u \in Session /\ u.commands = h.commands /\ u.issued = h.issued
      /\ u.status = h.status /\ u.cacheUpdate = h.cacheUpdate /\ u.held = h.held
      /\ u.epoch = h.epoch /\ u.cursor = h.cursor /\ u.focused = h.focused
      /\ u.frame = h.frame /\ u.shutdown = h.shutdown /\ u.raced = h.raced
      /\ u.lastUsed = h.lastUsed
  BY <1>4, <1>5 DEF Session, Text
<1>7. Kin(h, u) /\ Loading(u) = Loading(h)
  BY <1>6 DEF Kin, Retained, Loading
<1>8. /\ Base(u) /\ All(u) = All(h) /\ Leased(u) = Leased(h)
      /\ LoadsOK(h) => LoadsOK(u)
      /\ CachesOK(h) => CachesOK(u)
  BY <1>4, <1>6, <1>7, SameQueue
<1>9. Fresh(h) => Fresh(u)
  BY <1>7, <1>8, FreshKept
<1>10. Keeps(h, u)
  BY <1>7, <1>8, <1>9 DEF Keeps
<1>11. PICK v : v = PauseSpeculative(u)
  OBVIOUS
<1>12. Keeps(u, v) /\ Base(v)
  BY <1>8, <1>11, PauseSpeculativeKeeps DEF Keeps
<1>13. PICK w : w = Pump(v)
  OBVIOUS
<1>14. Keeps(v, w) /\ Base(w)
  BY <1>12, <1>13, PumpKeeps DEF Keeps
<1>15. t = QueueScan(w)
  BY <1>1, <1>2, <1>5, <1>11, <1>13 DEF openReviewSearch
<1>16. Keeps(w, t)
  BY <1>14, <1>15, QueueScanKeeps
<1> QED BY <1>4, <1>10, <1>12, <1>14, <1>16, KeepsTransitive

\* Shutting down empties the queue.
LEMMA requestShutdownEnds ==
    ASSUME NEW s, Base(s), NEW t, t = requestShutdown(s)
    PROVE  /\ Base(t) /\ t.shutdown /\ t.epoch = s.epoch /\ Retained(t) = Retained(s)
           /\ FrameTrue(s) => FrameTrue(t)
<1>1. s \in Session
  BY DEF Base
<1>2. PICK u : u = [s EXCEPT !.shutdown = TRUE]
  OBVIOUS
<1>3. /\ u \in Session /\ u.commands = s.commands /\ u.issued = s.issued
      /\ u.epoch = s.epoch /\ u.status = s.status
      /\ u.frame = s.frame /\ u.shutdown = TRUE /\ u.raced = s.raced
  BY <1>1, <1>2 DEF Session
<1>4. Base(u) /\ Retained(u) = Retained(s)
  BY <1>3, SameQueue DEF Retained
<1>5. PICK v : v = IF s.searching THEN closeReviewSearch(u) ELSE u
  OBVIOUS
<1>6. Base(v) /\ Kin(u, v)
  <2>1. CASE s.searching
    BY <1>4, <1>5, <2>1, closeReviewSearchKeeps DEF Keeps
  <2>2. CASE ~s.searching
    BY <1>4, <1>5, <2>2 DEF Kin
  <2> QED BY <2>1, <2>2
<1>7. t = [v EXCEPT !.commands = << >>]
  BY <1>2, <1>5 DEF requestShutdown
<1>8. << >> \in Seq(Command) /\ v \in Session
  BY <1>6 DEF Base
<1>9. /\ t \in Session /\ t.commands = << >> /\ t.issued = v.issued
      /\ t.epoch = v.epoch /\ t.status = v.status
      /\ t.frame = v.frame /\ t.shutdown = v.shutdown /\ t.raced = v.raced
  BY <1>7, <1>8 DEF Session
<1>10. Queue(t.commands, t.issued, t.epoch)
  <2>1. PICK q : q = << >>
    OBVIOUS
  <2>2. q \in Seq(Command) /\ Len(q) = 0 /\ Members(q) = {}
    BY <2>1 DEF Members
  <2>3. SpeculativeAt(q) = {}
    BY <2>2 DEF SpeculativeAt
  <2>4. Queue(v.commands, v.issued, v.epoch)
    BY <1>6 DEF Base
  <2>5. /\ v.commands \in Seq(Command) /\ v.issued \in SUBSET Command /\ IsFiniteSet(v.issued)
        /\ \A c \in v.issued : c.epoch <= v.epoch /\ (c.epoch # v.epoch => Earlier(c))
        /\ \A c, d \in v.issued : c.type # "enrich" /\ d.type # "enrich" => c = d
    BY <2>4, QueueIs
  <2>6. Cardinality(SpeculativeAt(q)) <= Cardinality(SpeculativeAt(v.commands))
    <3>1. Cardinality(SpeculativeAt(q)) = 0
      BY <2>3, FS_EmptySet
    <3>2. Cardinality(SpeculativeAt(v.commands)) \in Nat
      <4>1. PICK q1 : q1 = v.commands
        OBVIOUS
      <4>2. PICK iss : iss = v.issued
        OBVIOUS
      <4> QED BY <2>5, <4>1, <4>2, SpeculativeFinite
    <3> QED BY <3>1, <3>2
  <2>7. Cardinality(SpeculativeIn(v.issued)) <= Cardinality(SpeculativeIn(v.issued))
    BY <2>5, SpeculativeFinite
  <2>8. Queue(q, v.issued, v.epoch)
    BY <2>2, <2>4, <2>5, <2>6, <2>7, QueueFrom
  <2> QED BY <1>9, <2>1, <2>8
<1>11. Retained(t) = Retained(s)
  BY <1>4, <1>6, <1>9 DEF Kin, Retained
<1> QED BY <1>3, <1>6, <1>9, <1>10, <1>11 DEF Kin, Base, FrameTrue

-----------------------------------------------------------------------------
(* The main loop.                                                          *)

Promoting(s) ==
    [c \in Command |-> IF c.type = "enrich" /\ Ours(s, c) /\ c.file = s.cursor.active
                       THEN [c EXCEPT !.speculative = FALSE] ELSE c]

\* What promotion makes of a command.
LEMMA PromotingIs ==
    ASSUME NEW s
    PROVE  /\ Renames(Promoting(s)) /\ RenamesNoBuild(Promoting(s))
           /\ \A c \in Command : Promoting(s)[c] =
                 IF c.type = "enrich" /\ Ours(s, c) /\ c.file = s.cursor.active
                 THEN [c EXCEPT !.speculative = FALSE] ELSE c
<1>0. PICK F : F = Promoting(s)
  OBVIOUS
<1>1. \A c \in Command : F[c] = IF c.type = "enrich" /\ Ours(s, c) /\ c.file = s.cursor.active
                                THEN [c EXCEPT !.speculative = FALSE] ELSE c
  BY <1>0 DEF Promoting
<1>2. ASSUME NEW c \in Command, c.type = "enrich" /\ Ours(s, c) /\ c.file = s.cursor.active
      PROVE  /\ F[c] \in Command /\ F[c].type = c.type /\ ~IsSpeculative(F[c])
             /\ F[c].file = c.file /\ F[c].epoch = c.epoch /\ (F[c].search => c.search)
             /\ ~IsBuild(c)
  <2>1. PICK d : d = [c EXCEPT !.speculative = FALSE]
    OBVIOUS
  <2>2. d \in Command /\ d.type = c.type /\ d.file = c.file /\ d.epoch = c.epoch
    BY <1>2, <2>1 DEF Command
  <2>3. d.speculative = FALSE
    BY <1>2, <2>1 DEF Command
  <2>4. d.search = c.search
    BY <1>2, <2>1 DEF Command
  <2>5. F[c] = d
    BY <1>1, <1>2, <2>1
  <2>6. ~IsSpeculative(d)
    BY <2>3 DEF IsSpeculative
  <2>7. ~IsBuild(c)
    BY <1>2 DEF IsBuild
  <2> QED BY <2>2, <2>4, <2>5, <2>6, <2>7
<1>3. ASSUME NEW c \in Command, ~(c.type = "enrich" /\ Ours(s, c) /\ c.file = s.cursor.active)
      PROVE  F[c] = c
  BY <1>1, <1>3
<1>4. F \in [Command -> Command]
  <2>1. \A c \in Command : F[c] \in Command
    BY <1>2, <1>3
  <2> QED BY <1>0, <2>1 DEF Promoting
<1>5. Renames(F)
  <2> SUFFICES ASSUME NEW c \in Command
               PROVE  /\ F[c].type = c.type /\ F[c].epoch = c.epoch
                      /\ c.type \in {"enrich", "build", "scan"} => F[c].file = c.file
                      /\ c.type = "enrich" => (F[c].search => c.search)
                      /\ IsSpeculative(F[c]) => F[c] = c
    BY <1>4 DEF Renames
  <2>1. CASE c.type = "enrich" /\ Ours(s, c) /\ c.file = s.cursor.active
    BY <1>2, <2>1
  <2>2. CASE ~(c.type = "enrich" /\ Ours(s, c) /\ c.file = s.cursor.active)
    BY <1>3, <2>2
  <2> QED BY <2>1, <2>2
<1>6. RenamesNoBuild(F)
  BY <1>2, <1>3 DEF RenamesNoBuild
<1> QED BY <1>0, <1>1, <1>5, <1>6

\* The read of the active File becomes demand work.
LEMMA promoteKeeps ==
    ASSUME NEW s, Base(s), NEW t, t = promoteSpeculativeEnrichment(s)
    PROVE  /\ Keeps(s, t) /\ Leased(t) = Leased(s) /\ t.cacheUpdate = s.cacheUpdate
           /\ t.status = s.status /\ t.recency = s.recency
<1>1. /\ s \in Session /\ s.commands \in Seq(Command) /\ s.issued \in SUBSET Command
      /\ IsFiniteSet(s.issued)
  BY SessionIs, QueueIs DEF Base
<1>2. PICK F : F = Promoting(s)
  OBVIOUS
<1>3. Renames(F) /\ RenamesNoBuild(F) /\ F \in [Command -> Command]
  <2>1. Renames(F) /\ RenamesNoBuild(F)
    BY <1>2, PromotingIs
  <2> QED BY <2>1 DEF Renames
<1>4. \A c \in Command : F[c] = IF c.type = "enrich" /\ Ours(s, c) /\ c.file = s.cursor.active
                                THEN [c EXCEPT !.speculative = FALSE] ELSE c
  BY <1>2, PromotingIs
<1>5. PICK q2 : q2 = Mapped(s.commands, F)
  OBVIOUS
<1>6. PICK iss2 : iss2 = Image(s.issued, F)
  OBVIOUS
<1>7. q2 \in Seq(Command) /\ iss2 \in SUBSET Command
  BY <1>1, <1>3, <1>5, <1>6, MappedIs, ImageIs
<1>8. q2 = [i \in 1..Len(s.commands) |->
               IF s.commands[i].type = "enrich" /\ Ours(s, s.commands[i])
                      /\ s.commands[i].file = s.cursor.active
               THEN [s.commands[i] EXCEPT !.speculative = FALSE] ELSE s.commands[i]]
  <2>1. \A i \in 1..Len(s.commands) : s.commands[i] \in Command
    BY <1>1
  <2> QED BY <1>4, <1>5, <2>1 DEF Mapped
<1>9. iss2 = {IF c.type = "enrich" /\ Ours(s, c) /\ c.file = s.cursor.active
              THEN [c EXCEPT !.speculative = FALSE] ELSE c : c \in s.issued}
  <2>1. \A c \in s.issued : F[c] = IF c.type = "enrich" /\ Ours(s, c) /\ c.file = s.cursor.active
                                   THEN [c EXCEPT !.speculative = FALSE] ELSE c
    BY <1>1, <1>4
  <2>2. iss2 = {F[d] : d \in s.issued}
    BY <1>6 DEF Image
  <2>3. PICK U : U = {IF c.type = "enrich" /\ Ours(s, c) /\ c.file = s.cursor.active
                      THEN [c EXCEPT !.speculative = FALSE] ELSE c : c \in s.issued}
    OBVIOUS
  <2>4. ASSUME NEW x \in U PROVE x \in iss2
    <3>1. PICK d \in s.issued : x = IF d.type = "enrich" /\ Ours(s, d) /\ d.file = s.cursor.active
                                    THEN [d EXCEPT !.speculative = FALSE] ELSE d
      BY <2>3
    <3>2. x = F[d]
      BY <2>1, <3>1
    <3> QED BY <2>2, <3>2
  <2>5. ASSUME NEW x \in iss2 PROVE x \in U
    <3>1. PICK d \in s.issued : x = F[d]
      BY <2>2
    <3>2. x = IF d.type = "enrich" /\ Ours(s, d) /\ d.file = s.cursor.active
              THEN [d EXCEPT !.speculative = FALSE] ELSE d
      BY <2>1, <3>1
    <3> QED BY <2>3, <3>2
  <2> QED BY <2>3, <2>4, <2>5
<1>10. t = [s EXCEPT !.commands = q2, !.issued = iss2]
  BY <1>8, <1>9 DEF promoteSpeculativeEnrichment, MapSeq
<1>11. /\ t \in Session /\ t.commands = q2 /\ t.issued = iss2
       /\ t.status = s.status /\ t.cacheUpdate = s.cacheUpdate /\ t.held = s.held
       /\ t.epoch = s.epoch /\ t.cursor = s.cursor /\ t.focused = s.focused
       /\ t.frame = s.frame /\ t.shutdown = s.shutdown /\ t.raced = s.raced
       /\ t.lastUsed = s.lastUsed /\ t.recency = s.recency
  BY <1>1, <1>7, <1>10 DEF Session
<1>12. Kin(s, t)
  BY <1>11 DEF Kin, Retained
<1>13. Keeps(s, t) /\ Leased(t) = Leased(s)
  BY <1>3, <1>5, <1>6, <1>11, <1>12, RenamedKeeps
<1> QED BY <1>11, <1>13

Issuing == [c \in Command |-> IF c.type = "enrich" THEN [c EXCEPT !.search = FALSE] ELSE c]

\* What issuing makes of a command.
LEMMA IssuingIs ==
    /\ Issues(Issuing)
    /\ \A c \in Command : /\ Issuing[c] = IF c.type = "enrich" THEN [c EXCEPT !.search = FALSE] ELSE c
                          /\ Issuing[c].type = c.type
                          /\ c.type # "enrich" => Issuing[c] = c
<1>1. \A c \in Command : Issuing[c] = IF c.type = "enrich" THEN [c EXCEPT !.search = FALSE] ELSE c
  BY DEF Issuing
<1>2. ASSUME NEW c \in Command, c.type = "enrich"
      PROVE  /\ Issuing[c] \in Command /\ Issuing[c].type = c.type /\ Issuing[c].epoch = c.epoch
             /\ Issuing[c].file = c.file /\ Issuing[c].speculative = c.speculative
  <2>1. PICK d : d = [c EXCEPT !.search = FALSE]
    OBVIOUS
  <2>2. /\ d \in Command /\ d.type = c.type /\ d.epoch = c.epoch /\ d.file = c.file
        /\ d.speculative = c.speculative
    BY <1>2, <2>1 DEF Command
  <2> QED BY <1>1, <1>2, <2>1, <2>2
<1>3. ASSUME NEW c \in Command, c.type # "enrich" PROVE Issuing[c] = c
  BY <1>1, <1>3
<1>4. Issuing \in [Command -> Command]
  <2>1. \A c \in Command : Issuing[c] \in Command
    BY <1>2, <1>3
  <2> QED BY <2>1 DEF Issuing
<1>5. ASSUME NEW c \in Command
      PROVE  /\ Issuing[c].type = c.type /\ Issuing[c].epoch = c.epoch
             /\ c.type = "enrich" => Issuing[c].file = c.file /\ Issuing[c].speculative = c.speculative
             /\ c.type # "enrich" => Issuing[c] = c
  <2>1. CASE c.type = "enrich"
    BY <1>2, <2>1
  <2>2. CASE c.type # "enrich"
    BY <1>3, <2>2
  <2> QED BY <2>1, <2>2
<1>6. Issues(Issuing)
  BY <1>4, <1>5 DEF Issues
<1> QED BY <1>1, <1>5, <1>6

\* What issuing the first n commands of the queue does.
LEMMA IssuedKeeps ==
    ASSUME NEW s, Base(s), NEW n \in 0..Len(s.commands),
           \A i, j \in 1..n : s.commands[i].type # "enrich" /\ s.commands[j].type # "enrich" => i = j,
           \A i \in 1..n, c \in s.issued :
               ~(s.commands[i].type # "enrich" /\ c.type # "enrich"),
           NEW t \in Session, t.commands = Rest(s.commands, n),
           t.issued = s.issued \cup Taken(s.commands, n, Issuing),
           t.held = s.held, t.cacheUpdate = s.cacheUpdate, Kin(s, t), Loading(t) = Loading(s)
    PROVE  Keeps(s, t) /\ Leased(t) = Leased(s)
<1>1. /\ s \in Session /\ Queue(s.commands, s.issued, s.epoch)
      /\ s.commands \in Seq(Command) /\ s.issued \in SUBSET Command
  BY SessionIs DEF Base
<1>2. t.epoch = s.epoch
  BY DEF Kin
<1>3. Issues(Issuing)
  BY IssuingIs
<1>q. PICK q : q = s.commands
  OBVIOUS
<1>i. PICK iss : iss = s.issued
  OBVIOUS
<1>e. PICK e : e = s.epoch
  OBVIOUS
<1>4. Queue(t.commands, t.issued, t.epoch)
  <2>3. /\ n \in 0..Len(q) /\ Queue(q, iss, s.epoch)
        /\ \A i, j \in 1..n : q[i].type # "enrich" /\ q[j].type # "enrich" => i = j
        /\ \A i \in 1..n, c \in iss : ~(q[i].type # "enrich" /\ c.type # "enrich")
    BY <1>1, <1>q, <1>i
  <2>4. Queue(Rest(q, n), iss \cup Taken(q, n, Issuing), s.epoch)
    BY <1>3, <2>3, IssueQueue
  <2> QED BY <1>2, <1>q, <1>i, <2>4
<1>5. LoadsOK(s) => LoadsOK(t)
  <2>1. PICK l : l = Loading(s)
    OBVIOUS
  <2>2. LoadsOK(s) => Loads(q, iss, e, l)
    BY <1>q, <1>i, <1>e, <2>1 DEF LoadsOK
  <2>3. LoadsOK(s) => Loads(Rest(q, n), iss \cup Taken(q, n, Issuing), e, l)
    BY <1>1, <1>3, <1>q, <2>2, IssueLoads
  <2> QED BY <1>2, <1>q, <1>i, <1>e, <2>1, <2>3 DEF LoadsOK
<1>6. CachesOK(s) => CachesOK(t)
  <2>1. PICK l : l = s.cacheUpdate
    OBVIOUS
  <2>2. CachesOK(s) => Caches(q, iss, e, l)
    BY <1>q, <1>i, <1>e, <2>1 DEF CachesOK
  <2>3. CachesOK(s) => Caches(Rest(q, n), iss \cup Taken(q, n, Issuing), e, l)
    BY <1>1, <1>3, <1>q, <2>2, IssueCaches
  <2> QED BY <1>2, <1>q, <1>i, <1>e, <2>1, <2>3 DEF CachesOK
<1>7. Members(t.commands) = {s.commands[i] : i \in (n + 1)..Len(s.commands)}
  BY <1>1, RestIs
<1>8. \A i \in 1..Len(s.commands) : i \in 1..n \/ i \in (n + 1)..Len(s.commands)
  BY <1>1
<1>9. /\ \A i \in 1..n : i \in 1..Len(s.commands)
      /\ \A i \in (n + 1)..Len(s.commands) : i \in 1..Len(s.commands)
  BY <1>1
<1>10. \A i \in 1..Len(s.commands) : s.commands[i] \in Command
  BY <1>1
<1>11. ASSUME NEW c \in All(t)
       PROVE  c \in All(s) \/ \E d \in All(s) : d \in Command /\ c = Issuing[d]
  <2>1. CASE c \in Members(t.commands)
    <3>1. PICK i \in (n + 1)..Len(s.commands) : c = s.commands[i]
      BY <1>7, <2>1
    <3>2. i \in 1..Len(s.commands)
      BY <1>9, <3>1
    <3> QED BY <3>1, <3>2 DEF All, Members
  <2>2. CASE c \in s.issued
    BY <2>2 DEF All
  <2>3. CASE c \in Taken(s.commands, n, Issuing)
    <3>1. PICK i \in 1..n : c = Issuing[s.commands[i]]
      BY <2>3 DEF Taken
    <3>2. s.commands[i] \in Members(s.commands) /\ s.commands[i] \in Command
      BY <1>9, <1>10 DEF Members
    <3> QED BY <3>1, <3>2 DEF All
  <2> QED BY <2>1, <2>2, <2>3 DEF All
<1>12. ASSUME NEW d \in All(s) PROVE d \in All(t) \/ (d \in Command /\ Issuing[d] \in All(t))
  <2>1. CASE d \in s.issued
    BY <2>1 DEF All
  <2>2. CASE d \in Members(s.commands)
    <3>1. PICK i \in 1..Len(s.commands) : d = s.commands[i]
      BY <2>2 DEF Members
    <3>2. CASE i \in 1..n
      <4>1. Issuing[d] \in Taken(s.commands, n, Issuing)
        BY <3>1, <3>2 DEF Taken
      <4> QED BY <1>10, <3>1, <4>1 DEF All
    <3>3. CASE i \in (n + 1)..Len(s.commands)
      BY <1>7, <3>1, <3>3 DEF All
    <3> QED BY <1>8, <3>2, <3>3
  <2> QED BY <2>1, <2>2 DEF All
<1>13. Scans(t) = Scans(s)
  <2>1. ASSUME NEW c \in Scans(t) PROVE c \in Scans(s)
    <3>1. c \in All(t) /\ c.type = "scan" /\ c.epoch = s.epoch
      BY <1>2 DEF Scans, Ours
    <3>2. c \in All(s)
      <4>1. CASE \E d \in All(s) : d \in Command /\ c = Issuing[d]
        <5>1. PICK d \in All(s) : d \in Command /\ c = Issuing[d]
          BY <4>1
        <5>2. d.type = "scan"
          BY <3>1, <5>1, IssuingIs
        <5> QED BY <5>1, <5>2, IssuingIs
      <4> QED BY <1>11, <3>1, <4>1
    <3> QED BY <3>1, <3>2 DEF Scans, Ours
  <2>2. ASSUME NEW c \in Scans(s) PROVE c \in Scans(t)
    <3>1. c \in All(s) /\ c.type = "scan" /\ c.epoch = t.epoch
      BY <1>2 DEF Scans, Ours
    <3>2. c \in All(t)
      BY <1>12, <3>1, IssuingIs
    <3> QED BY <3>1, <3>2 DEF Scans, Ours
  <2> QED BY <2>1, <2>2
<1>14. Leased(t) = Leased(s)
  BY <1>13 DEF Leased
<1>15. Fresh(s) => Fresh(t)
  <2>1. ASSUME NEW c \in All(t), Admissible(t, c) PROVE c \in All(s)
    <3>1. c.type # "enrich"
      BY <2>1 DEF Admissible, IsBuild
    <3>2. CASE \E d \in All(s) : d \in Command /\ c = Issuing[d]
      <4>1. PICK d \in All(s) : d \in Command /\ c = Issuing[d]
        BY <3>2
      <4>2. d.type # "enrich"
        BY <3>1, <4>1, IssuingIs
      <4> QED BY <4>1, <4>2, IssuingIs
    <3> QED BY <1>11, <3>2
  <2> QED BY <1>14, <2>1, FreshKept
<1> QED BY <1>4, <1>5, <1>6, <1>14, <1>15 DEF Keeps, Base

\* A set with at most one element, counted.
LEMMA CountOne ==
    ASSUME NEW S, IsFiniteSet(S)
    PROVE  Cardinality(S) <= 1 <=> \A x, y \in S : x = y
<1>1. CASE S = {}
  BY <1>1, FS_EmptySet
<1>2. CASE S # {}
  <2>1. PICK x : x \in S
    BY <1>2
  <2>2. PICK R : R = S \ {x}
    OBVIOUS
  <2>3. /\ IsFiniteSet(R) /\ Cardinality(R) = Cardinality(S) - 1 /\ Cardinality(S) \in Nat
        /\ Cardinality(R) \in Nat
    BY <2>1, <2>2, FS_RemoveElement, FS_CardinalityType
  <2>4. Cardinality(R) = 0 <=> R = {}
    BY <2>3, FS_EmptySet
  <2>5. R = {} <=> \A y, z \in S : y = z
    BY <2>1, <2>2
  <2> QED BY <2>3, <2>4, <2>5
<1> QED BY <1>1, <1>2

\* Two sets with one element at most between them.
LEMMA CountBoth ==
    ASSUME NEW S, NEW T, IsFiniteSet(S), IsFiniteSet(T), Cardinality(S) + Cardinality(T) <= 1
    PROVE  (\A x, y \in S : x = y) /\ (S = {} \/ T = {})
<1>1. Cardinality(S) \in Nat /\ Cardinality(T) \in Nat
  BY FS_CardinalityType
<1>2. \A x, y \in S : x = y
  BY <1>1, CountOne
<1>3. (Cardinality(S) = 0 => S = {}) /\ (Cardinality(T) = 0 => T = {})
  BY FS_EmptySet
<1> QED BY <1>1, <1>2, <1>3

BusyAt(q, n) == {i \in 1..n : q[i].type # "enrich"}
BusyIn(iss) == {c \in iss : c.type # "enrich"}
Fit(q, iss, n) == Cardinality(BusyAt(q, n)) + Cardinality(BusyIn(iss)) <= 1

\* The commands that keep a worker busy can be counted.
LEMMA FitIs ==
    ASSUME NEW q, NEW iss, IsFiniteSet(iss), NEW n \in Nat
    PROVE  IsFiniteSet(BusyAt(q, n)) /\ IsFiniteSet(BusyIn(iss))
<1>1. IsFiniteSet(1..n)
  BY FS_Interval
<1>2. BusyAt(q, n) \subseteq 1..n /\ BusyIn(iss) \subseteq iss
  BY DEF BusyAt, BusyIn
<1> QED BY <1>1, <1>2, FS_Subset

\* Issuing nothing is always possible.
LEMMA NothingFits ==
    ASSUME NEW q, NEW iss, IsFiniteSet(iss),
           \A c, d \in iss : c.type # "enrich" /\ d.type # "enrich" => c = d
    PROVE  Fit(q, iss, 0)
<1>1. BusyAt(q, 0) = {}
  BY DEF BusyAt
<1>2. Cardinality(BusyAt(q, 0)) = 0
  BY <1>1, FS_EmptySet
<1>3. IsFiniteSet(BusyIn(iss))
  <2>1. 0 \in Nat
    OBVIOUS
  <2> QED BY <2>1, FitIs
<1>4. \A c, d \in BusyIn(iss) : c = d
  BY DEF BusyIn
<1>5. Cardinality(BusyIn(iss)) <= 1 /\ Cardinality(BusyIn(iss)) \in Nat
  BY <1>3, <1>4, CountOne, FS_CardinalityType
<1> QED BY <1>2, <1>5 DEF Fit

\* So there is a longest prefix of the queue that takeCommand issues.
LEMMA MostFits ==
    ASSUME NEW q \in Seq(Command), NEW iss, Fit(q, iss, 0)
    PROVE  \E m \in 0..Len(q) : Fit(q, iss, m) /\ (m < Len(q) => ~Fit(q, iss, m + 1))
<1>1. PICK S : S = {m \in 0..Len(q) : m = Len(q) \/ ~Fit(q, iss, m + 1)}
  OBVIOUS
<1>2. S \in SUBSET Nat /\ Len(q) \in S
  BY <1>1
<1>3. PICK m \in S : \A k \in S : m <= k
  BY <1>2, LeastExists
<1>4. m \in 0..Len(q) /\ (m < Len(q) => ~Fit(q, iss, m + 1))
  BY <1>1, <1>3
<1>5. Fit(q, iss, m)
  <2>1. CASE m = 0
    BY <2>1
  <2>2. CASE m # 0
    <3>1. m - 1 \in 0..Len(q) /\ m - 1 # Len(q) /\ ~(m <= m - 1) /\ (m - 1) + 1 = m
      BY <1>4, <2>2
    <3>2. m - 1 \notin S
      BY <1>3, <3>1
    <3>3. Fit(q, iss, (m - 1) + 1)
      BY <1>1, <3>1, <3>2
    <3> QED BY <3>1, <3>3
  <2> QED BY <2>1, <2>2
<1> QED BY <1>4, <1>5

\* Draining the queue gives the worker one command at most.
LEMMA DrainedKeeps ==
    ASSUME NEW s, Base(s), NEW t, t = Drained(s)
    PROVE  /\ Keeps(s, t) /\ Leased(t) = Leased(s) /\ t.cacheUpdate = s.cacheUpdate
           /\ t.status = s.status
<1>1. /\ s \in Session /\ Queue(s.commands, s.issued, s.epoch)
      /\ s.commands \in Seq(Command) /\ s.issued \in SUBSET Command /\ IsFiniteSet(s.issued)
      /\ \A c, d \in s.issued : c.type # "enrich" /\ d.type # "enrich" => c = d
  BY SessionIs, QueueIs DEF Base
<1>2. PICK q \in Seq(Command) : q = s.commands
  BY <1>1
<1>3. PICK iss \in SUBSET Command : iss = s.issued
  BY <1>1
<1>4. Fit(q, iss, 0)
  BY <1>1, <1>3, NothingFits
<1>5. \E m \in 0..Len(q) : Fit(q, iss, m) /\ (m < Len(q) => ~Fit(q, iss, m + 1))
  BY <1>4, MostFits
<1>6. PICK n : n = CHOOSE m \in 0..Len(q) : Fit(q, iss, m) /\ (m < Len(q) => ~Fit(q, iss, m + 1))
  OBVIOUS
<1>7. n \in 0..Len(q) /\ Fit(q, iss, n)
  BY <1>5, <1>6
<1>8. IsFiniteSet(BusyAt(q, n)) /\ IsFiniteSet(BusyIn(iss))
  BY <1>1, <1>3, <1>7, FitIs
<1>9. (\A i, j \in BusyAt(q, n) : i = j) /\ (BusyAt(q, n) = {} \/ BusyIn(iss) = {})
  BY <1>7, <1>8, CountBoth DEF Fit
<1>10. /\ \A i, j \in 1..n : q[i].type # "enrich" /\ q[j].type # "enrich" => i = j
       /\ \A i \in 1..n, c \in iss : ~(q[i].type # "enrich" /\ c.type # "enrich")
  BY <1>9 DEF BusyAt, BusyIn
<1>11. PICK q2 : q2 = Rest(q, n)
  OBVIOUS
<1>12. PICK iss2 : iss2 = iss \cup Taken(q, n, Issuing)
  OBVIOUS
<1>13. \A i \in 1..n : q[i] \in Command
  BY <1>7
<1>14. Taken(q, n, Issuing) =
           {IF q[i].type = "enrich" THEN [q[i] EXCEPT !.search = FALSE] ELSE q[i] : i \in 1..n}
  <2>1. \A i \in 1..n : Issuing[q[i]] =
            IF q[i].type = "enrich" THEN [q[i] EXCEPT !.search = FALSE] ELSE q[i]
    BY <1>13, IssuingIs
  <2>2. Taken(q, n, Issuing) = {Issuing[q[i]] : i \in 1..n}
    BY DEF Taken
  <2>3. PICK U : U = {IF q[i].type = "enrich" THEN [q[i] EXCEPT !.search = FALSE] ELSE q[i] : i \in 1..n}
    OBVIOUS
  <2>4. ASSUME NEW x \in U PROVE x \in Taken(q, n, Issuing)
    <3>1. PICK i \in 1..n : x = IF q[i].type = "enrich" THEN [q[i] EXCEPT !.search = FALSE] ELSE q[i]
      BY <2>3
    <3>2. x = Issuing[q[i]]
      BY <2>1, <3>1
    <3> QED BY <2>2, <3>2
  <2>5. ASSUME NEW x \in Taken(q, n, Issuing) PROVE x \in U
    <3>1. PICK i \in 1..n : x = Issuing[q[i]]
      BY <2>2
    <3>2. x = IF q[i].type = "enrich" THEN [q[i] EXCEPT !.search = FALSE] ELSE q[i]
      BY <2>1, <3>1
    <3> QED BY <2>3, <3>2
  <2> QED BY <2>3, <2>4, <2>5
<1>15. iss2 \in SUBSET Command /\ q2 \in Seq(Command)
  <2>1. \A i \in 1..n : Issuing[q[i]] \in Command
    BY <1>13, IssuingIs DEF Issues
  <2>2. Taken(q, n, Issuing) \subseteq Command
    BY <2>1 DEF Taken
  <2> QED BY <1>3, <1>7, <1>11, <1>12, <2>2, RestIs
<1>16. t = [s EXCEPT !.commands = q2, !.issued = iss2]
  <2>1. n = CHOOSE m \in 0..Len(s.commands) :
               /\ Cardinality({i \in 1..m : s.commands[i].type # "enrich"})
                       + Cardinality({c \in s.issued : c.type # "enrich"}) <= 1
               /\ m < Len(s.commands) =>
                    ~(Cardinality({i \in 1..(m + 1) : s.commands[i].type # "enrich"})
                       + Cardinality({c \in s.issued : c.type # "enrich"}) <= 1)
    BY <1>2, <1>3, <1>6 DEF Fit, BusyAt, BusyIn
  <2>2. q2 = SubSeq(s.commands, n + 1, Len(s.commands))
    BY <1>2, <1>11 DEF Rest
  <2>3. iss2 = s.issued \cup {IF s.commands[i].type = "enrich"
                              THEN [s.commands[i] EXCEPT !.search = FALSE]
                              ELSE s.commands[i] : i \in 1..n}
    BY <1>2, <1>3, <1>12, <1>14
  <2> QED BY <2>1, <2>2, <2>3 DEF Drained
<1>17. /\ t \in Session /\ t.commands = q2 /\ t.issued = iss2
       /\ t.status = s.status /\ t.cacheUpdate = s.cacheUpdate /\ t.held = s.held
       /\ t.epoch = s.epoch /\ t.cursor = s.cursor /\ t.focused = s.focused
       /\ t.frame = s.frame /\ t.shutdown = s.shutdown /\ t.raced = s.raced
       /\ t.lastUsed = s.lastUsed
  BY <1>1, <1>15, <1>16 DEF Session
<1>18. Kin(s, t) /\ Loading(t) = Loading(s)
  BY <1>17 DEF Kin, Retained, Loading
<1>19. Keeps(s, t) /\ Leased(t) = Leased(s)
  <2>1. /\ n \in 0..Len(s.commands)
        /\ \A i, j \in 1..n : s.commands[i].type # "enrich" /\ s.commands[j].type # "enrich" => i = j
        /\ \A i \in 1..n, c \in s.issued :
               ~(s.commands[i].type # "enrich" /\ c.type # "enrich")
    BY <1>2, <1>3, <1>7, <1>10
  <2>2. t.commands = Rest(s.commands, n) /\ t.issued = s.issued \cup Taken(s.commands, n, Issuing)
    BY <1>2, <1>3, <1>11, <1>12, <1>17
  <2>3. t \in Session /\ t.held = s.held /\ t.cacheUpdate = s.cacheUpdate
    BY <1>17
  <2> QED BY <1>18, <2>1, <2>2, <2>3, IssuedKeeps
<1> QED BY <1>17, <1>19

\* What every handler keeps but the admissions: Keeps, with the focused range and
\* the uses of the Files set apart.
Moved(s, t) ==
    /\ Base(t)
    /\ LoadsOK(s) => LoadsOK(t)
    /\ CachesOK(s) => CachesOK(t)
    /\ Fresh(s) => Fresh(t)
    /\ t.epoch = s.epoch /\ t.cursor = s.cursor /\ t.frame = s.frame
    /\ t.shutdown = s.shutdown /\ t.raced = s.raced /\ Retained(t) = Retained(s)

\* Moved is what Keeps gives, composes, and keeps the invariant.
LEMMA MovedIs ==
    /\ \A s, t : Keeps(s, t) => Moved(s, t)
    /\ \A s, t, u : Moved(s, t) /\ Moved(t, u) => Moved(s, u)
    /\ \A s, t : J(s) /\ Moved(s, t) => J(t)
<1>1. ASSUME NEW s, NEW t, Keeps(s, t) PROVE Moved(s, t)
  BY <1>1 DEF Keeps, Kin, Moved
<1>2. ASSUME NEW s, NEW t, NEW u, Moved(s, t), Moved(t, u) PROVE Moved(s, u)
  BY <1>2 DEF Moved
<1>3. ASSUME NEW s, NEW t, J(s), Moved(s, t) PROVE J(t)
  BY <1>3 DEF J, Moved, FrameTrue
<1> QED BY <1>1, <1>2, <1>3

\* The range is focused, and builds for another one are old.
LEMMA focusAdmittedMoves ==
    ASSUME NEW s, Base(s), NEW range \in Text, NEW t, t = focusAdmitted(s, range)
    PROVE  /\ Moved(s, t) /\ t.focused = range /\ Leased(t) = Leased(s)
           /\ t.status = s.status /\ t.searching = s.searching /\ t.cacheUpdate = s.cacheUpdate
<1>1. CASE s.focused = range
  BY <1>1 DEF focusAdmitted, Moved
<1>2. CASE s.focused # range
  <2>1. PICK used : used = [f \in File |-> IF f \in range THEN s.recency + 1 ELSE s.lastUsed[f]]
    OBVIOUS
  <2>2. s \in Session /\ s.recency \in Nat /\ s.lastUsed \in [File -> Nat]
    BY SessionIs DEF Base
  <2>3. PICK r \in Nat : r = s.recency + 1
    BY <2>2
  <2>4. used \in [File -> Nat]
    BY <2>1, <2>2
  <2>5. PICK u : u = [s EXCEPT !.focused = range, !.recency = r, !.lastUsed = used]
    OBVIOUS
  <2>6. /\ u \in Session /\ u.commands = s.commands /\ u.issued = s.issued
        /\ u.status = s.status /\ u.cacheUpdate = s.cacheUpdate /\ u.held = s.held
        /\ u.epoch = s.epoch /\ u.cursor = s.cursor /\ u.focused = range
        /\ u.frame = s.frame /\ u.shutdown = s.shutdown /\ u.raced = s.raced
        /\ u.searching = s.searching
    BY <2>2, <2>3, <2>4, <2>5 DEF Session
  <2>7. Loading(u) = Loading(s) /\ Retained(u) = Retained(s)
    BY <2>6 DEF Loading, Retained
  <2>8. /\ Base(u) /\ Leased(u) = Leased(s)
        /\ LoadsOK(s) => LoadsOK(u)
        /\ CachesOK(s) => CachesOK(u)
    BY <2>6, <2>7, SameQueue
  <2>9. t = Revised(u)
    BY <1>2, <2>1, <2>3, <2>5 DEF focusAdmitted
  <2>10. /\ Base(t) /\ Kin(u, t) /\ Fresh(t) /\ Leased(t) = Leased(u)
         /\ LoadsOK(u) => LoadsOK(t)
         /\ CachesOK(u) => CachesOK(t)
         /\ t.status = u.status /\ t.searching = u.searching /\ t.cacheUpdate = u.cacheUpdate
    BY <2>8, <2>9, RevisedKeeps
  <2>11. /\ t.epoch = u.epoch /\ t.cursor = u.cursor /\ t.focused = u.focused
         /\ t.frame = u.frame /\ t.shutdown = u.shutdown /\ t.raced = u.raced
         /\ Retained(t) = Retained(u)
    BY <2>10 DEF Kin
  <2> QED BY <2>6, <2>7, <2>8, <2>10, <2>11 DEF Moved
<1> QED BY <1>1, <1>2

\* The range depends on the cursor alone.
LEMMA enrichmentRangeIs ==
    ASSUME NEW s
    PROVE  /\ enrichmentRange(s) \in Text
           /\ \A t : t.cursor = s.cursor => enrichmentRange(t) = enrichmentRange(s)
  BY DEF enrichmentRange, Text

\* What ensuring the range gives: the range is focused, or a cache update will focus it.
Ensured(s, t) ==
    /\ Moved(s, t)
    /\ t.cacheUpdate = None => t.focused = enrichmentRange(s)
    /\ t.cacheUpdate # None => t.cacheUpdate = enrichmentRange(s)
    /\ t.focused = s.focused \/ (s.cacheUpdate = None /\ t.focused = enrichmentRange(s))

\* ensureFocusedEnrichment, after promotion.
LEMMA EnsureRangeIs ==
    ASSUME NEW s, Base(s), NEW t, t = EnsureRange(s)
    PROVE  Ensured(s, t)
<1>1. PICK range \in Text : range = enrichmentRange(s)
  BY enrichmentRangeIs
<1>2. range # None
  BY <1>1, TextIsNotNone
<1>3. PICK g : g = focusAdmitted(s, range)
  OBVIOUS
<1>4. PICK active : active = s.cursor.active
  OBVIOUS
<1>5. CASE s.cacheUpdate = range
  <2>1. t = s
    BY <1>1, <1>2, <1>5 DEF EnsureRange
  <2> QED BY <1>1, <1>2, <1>5, <2>1 DEF Ensured, Moved
<1>6. CASE s.cacheUpdate # range /\ (s.cacheUpdate # None \/ requiresCacheEnforcement(s, range))
  <2>1. t = queueCacheBuild(s, range)
    BY <1>1, <1>6 DEF EnsureRange
  <2>2. Keeps(s, t) /\ t.cacheUpdate = range
    BY <2>1, queueCacheBuildKeeps
  <2>3. Moved(s, t) /\ t.focused = s.focused
    BY <2>2, MovedIs DEF Keeps, Kin
  <2> QED BY <1>1, <1>2, <2>2, <2>3 DEF Ensured
<1>7. CASE s.cacheUpdate = None /\ ~requiresCacheEnforcement(s, range)
  <2>1. /\ Moved(s, g) /\ g.focused = range /\ g.status = s.status
        /\ g.cacheUpdate = None /\ Base(g)
    BY <1>1, <1>3, <1>7, focusAdmittedMoves DEF Moved
  <2>2. \/ t = g
        \/ active \in Pending(s) /\ t = Demand(g, <<active>>)
        \/ t = Speculate(g, SpeculativeOrder(s))
    BY <1>1, <1>2, <1>3, <1>4, <1>7 DEF EnsureRange
  <2>3. Keeps(g, t) /\ t.cacheUpdate = g.cacheUpdate
    <3>1. CASE t = g
      BY <2>1, <3>1 DEF Keeps, Kin
    <3>2. CASE active \in Pending(s) /\ t = Demand(g, <<active>>)
      <4>1. PICK fs : fs = <<active>>
        OBVIOUS
      <4>2. active \in File /\ g.status[active] = "pending"
        BY <2>1, <3>2 DEF Pending
      <4>3. fs \in Seq(File) /\ Len(fs) = 1 /\ fs[1] = active
        BY <4>1, <4>2
      <4>4. ListsPending(g, fs)
        BY <4>2, <4>3 DEF ListsPending
      <4> QED BY <2>1, <3>2, <4>1, <4>4, DemandKeeps
    <3>3. CASE t = Speculate(g, SpeculativeOrder(s))
      <4>1. PICK fs : fs = SpeculativeOrder(s)
        OBVIOUS
      <4>2. fs \in Seq(File) /\ Distinct(fs)
        BY <4>1, SpeculativeOrderIs DEF Base
      <4> QED BY <2>1, <3>3, <4>1, <4>2, SpeculateKeeps
    <3> QED BY <2>2, <3>1, <3>2, <3>3
  <2>4. Moved(g, t) /\ t.focused = g.focused
    BY <2>3, MovedIs DEF Keeps, Kin
  <2>5. Moved(s, t)
    BY <2>1, <2>4, MovedIs
  <2> QED BY <1>1, <1>7, <2>1, <2>3, <2>4, <2>5 DEF Ensured
<1> QED BY <1>5, <1>6, <1>7

Settled(s, t) ==
    /\ J(t) /\ Focus(t) /\ t.epoch = s.epoch /\ t.cursor = s.cursor /\ Retained(t) = Retained(s)
    /\ t.focused = s.focused \/ (s.cacheUpdate = None /\ t.focused = enrichmentRange(s))

\* A turn of the loop ends with the range focused, or a cache update for it.
LEMMA TurnSettles ==
    ASSUME NEW s, J(s), NEW t, t = Turn(s)
    PROVE  Settled(s, t)
<1>1. PICK u : u = Drained(s)
  OBVIOUS
<1>2. PICK v : v = ensureFocusedEnrichment(u)
  OBVIOUS
<1>3. t = Drained(v)
  BY <1>1, <1>2 DEF Turn
<1>4. Keeps(s, u) /\ u.cacheUpdate = s.cacheUpdate /\ Base(u)
  BY <1>1, DrainedKeeps DEF Keeps, J
<1>5. /\ J(u) /\ u.epoch = s.epoch /\ u.cursor = s.cursor /\ u.focused = s.focused
      /\ Retained(u) = Retained(s) /\ u.shutdown = s.shutdown
  BY <1>4, KeepsInvariant DEF Keeps, Kin
<1>6. CASE u.shutdown
  <2>1. v = u
    BY <1>2, <1>6 DEF ensureFocusedEnrichment
  <2>2. Keeps(u, t)
    BY <1>3, <1>4, <2>1, DrainedKeeps
  <2>3. J(t)
    BY <1>5, <2>2, KeepsInvariant
  <2>4. /\ t.epoch = u.epoch /\ t.cursor = u.cursor /\ Retained(t) = Retained(u)
        /\ t.shutdown = u.shutdown /\ t.focused = u.focused
    BY <2>2 DEF Keeps, Kin
  <2> QED BY <1>5, <1>6, <2>3, <2>4 DEF Settled, Focus
<1>7. CASE ~u.shutdown
  <2>1. PICK w : w = promoteSpeculativeEnrichment(u)
    OBVIOUS
  <2>2. v = EnsureRange(w)
    BY <1>2, <1>7, <2>1 DEF ensureFocusedEnrichment
  <2>3. Keeps(u, w) /\ w.cacheUpdate = u.cacheUpdate /\ Base(w)
    BY <1>4, <2>1, promoteKeeps DEF Keeps
  <2>4. Ensured(w, v)
    BY <2>2, <2>3, EnsureRangeIs
  <2>5. Base(v) /\ Moved(w, v)
    BY <2>4 DEF Ensured, Moved
  <2>6. Keeps(v, t) /\ t.cacheUpdate = v.cacheUpdate
    BY <1>3, <2>5, DrainedKeeps
  <2>7. J(t)
    BY <1>5, <2>3, <2>5, <2>6, MovedIs
  <2>8. w.cursor = s.cursor /\ w.focused = s.focused /\ w.epoch = s.epoch
        /\ Retained(w) = Retained(s) /\ w.cacheUpdate = s.cacheUpdate
    BY <1>4, <1>5, <2>3 DEF Keeps, Kin
  <2>9. v.cursor = s.cursor /\ v.epoch = s.epoch /\ Retained(v) = Retained(s)
    BY <2>5, <2>8 DEF Moved
  <2>10. t.cursor = s.cursor /\ t.epoch = s.epoch /\ Retained(t) = Retained(s) /\ t.focused = v.focused
    BY <2>6, <2>9 DEF Keeps, Kin
  <2>11. enrichmentRange(w) = enrichmentRange(s) /\ enrichmentRange(t) = enrichmentRange(s)
    BY <2>8, <2>10, enrichmentRangeIs
  <2>12. /\ v.cacheUpdate = None => v.focused = enrichmentRange(s)
         /\ v.cacheUpdate # None => v.cacheUpdate = enrichmentRange(s)
         /\ v.focused = s.focused \/ (s.cacheUpdate = None /\ v.focused = enrichmentRange(s))
    BY <2>4, <2>8, <2>11 DEF Ensured
  <2>13. Focus(t)
    BY <2>6, <2>10, <2>11, <2>12 DEF Focus
  <2> QED BY <2>7, <2>10, <2>12, <2>13 DEF Settled
<1> QED BY <1>6, <1>7
=============================================================================
