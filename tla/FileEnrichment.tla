----------------------------- MODULE FileEnrichment -----------------------------
(***************************************************************************)
(* How the text of the Files of a Review is fetched, built into the Frame  *)
(* and cached: the Storage of src/src/tui/file_enrichment.zig and the      *)
(* commands, completions and cache updates of src/src/tui/presentation.zig *)
(* around it.                                                              *)
(*                                                                         *)
(* The File under the cursor is demand work, the other Files of the        *)
(* Enrichment Range are speculative, and an open Review search acquires    *)
(* every File.  A fetched File goes through a second worker that builds    *)
(* the Frame with it; what that worker built is admitted only if nothing   *)
(* it depends on has changed since.  Files outside the range are evicted   *)
(* when the cache is over its budget, in a build of their own.             *)
(*                                                                         *)
(* A File has one side, its text one unit of the budget.  What the builds  *)
(* of a Session depend on (the revision of the Storage, the inputs of the  *)
(* Frame, the active File) is the flag fresh of a build, cleared when any  *)
(* of them changes.  The Review search has one query from the start, whose *)
(* scan of the Review's own text is left out.                              *)
(***************************************************************************)
EXTENDS Integers, Sequences, FiniteSets, Queues

CONSTANTS
    NumFiles,        \* the Files of the Review are 1..NumFiles, in path order
    MaxVisible,      \* Files the viewport can show at once
    MaxSpeculative,  \* max_speculative_enrichments (4 in the code)
    MaxAcquisitions, \* the reads of a Review search at once (8 in the code)
    Budget,          \* the units inactive Files may retain; 0 disables the cache
    None,            \* Zig's null
    MaxEpoch,        \* Sessions published
    MaxInputs,       \* moves of the cursor and openings of the search
    MaxFailures      \* reads, scans, builds and allocations that fail

ASSUME BoundsAssumption ==
    {NumFiles, MaxVisible, MaxSpeculative, MaxAcquisitions, Budget, MaxEpoch,
     MaxInputs, MaxFailures} \subseteq Nat /\ NumFiles > 0 /\ MaxVisible > 0

ASSUME NoneAssumption == \A range \in SUBSET (1..NumFiles) : range # None

Overscan == 1    \* enrichment_overscan_files
File == 1..NumFiles

\* The active File, the visible Files around it, and whether it is isolated.
Cursor == {c \in [active : File, first : File, last : File, isolated : BOOLEAN] :
              /\ c.active \in c.first..c.last
              /\ c.last - c.first < (IF c.isolated THEN 1 ELSE MaxVisible)}

VARIABLES
    p,          \* the Presentation and its published Session: see New
    inputs, failures

vars == <<p, inputs, failures>>

-----------------------------------------------------------------------------
(* The Session.                                                            *)

\* A Session as it is published.  raced is a history variable: a File was
\* admitted under another lease than the one its build was made for.
New(e, cursor, q, iss) ==
    [epoch |-> e, cursor |-> cursor,
     status |-> [f \in File |-> "pending"],    \* pending, loading, ready or failed
     lastUsed |-> [f \in File |-> IF f = cursor.active THEN 1 ELSE 0],
     recency |-> 1, focused |-> {cursor.active},
     held |-> {},                               \* review_search.held
     frame |-> {},                              \* Files whose text the Frame shows
     cacheUpdate |-> None,                      \* pending_cache_focus, if one is pending
     searching |-> FALSE, acquired |-> {}, scanned |-> {},
     commands |-> q, issued |-> iss, shutdown |-> FALSE, raced |-> FALSE]

MapSeq(q, F(_)) == [i \in 1..Len(q) |-> F(q[i])]
All(s) == Members(s.commands) \union s.issued
Ours(s, c) == c.epoch = s.epoch
Scans(s) == {c \in All(s) : c.type = "scan" /\ Ours(s, c)}

\* markLoading, resetLoading, needsEnrichment, isTerminal.
Marked(s, fs, from, to) ==
    [s EXCEPT !.status = [f \in File |-> IF f \in fs /\ @[f] = from THEN to ELSE @[f]]]
markLoading(s, fs) == Marked(s, fs, "pending", "loading")
resetLoading(s, fs) == Marked(s, fs, "loading", "pending")
Pending(s) == {f \in File : s.status[f] = "pending"}
Terminal(s) == {f \in File : s.status[f] \in {"ready", "failed"}}
Retained(s) == {f \in File : s.status[f] = "ready"}
Leased(s) == s.held \union {c.file : c \in Scans(s)}

\* Every change of what builds depend on.
IsBuild(c) == c.type \in {"build", "cache"}
Outdate(c) == IF IsBuild(c) THEN [c EXCEPT !.fresh = FALSE] ELSE c
Revised(s) == [s EXCEPT !.commands = MapSeq(@, Outdate), !.issued = {Outdate(c) : c \in @}]

\* Mutant: leases do not protect a File.
VictimsIgnoreLeases(lastUsed, retained, range, leased) == retained \ range

\* The least recently used of the retained Files that are neither in the range
\* nor leased, down to the budget.
Victims(lastUsed, retained, range, leased) ==
    LET inactive == retained \ (range \union leased)
        Older(f, g) == \/ lastUsed[f] < lastUsed[g]
                       \/ lastUsed[f] = lastUsed[g] /\ f < g
    IN  {f \in inactive :
            Cardinality({g \in inactive : Older(g, f)}) < Cardinality(inactive) - Budget}

\* Mutant: a cache exactly at its budget is over it.
EnforcedAtBudget(s, range) ==
    Cardinality(Retained(s) \ (range \union Leased(s))) >= Budget

requiresCacheEnforcement(s, range) ==
    Cardinality(Retained(s) \ (range \union Leased(s))) > Budget

focusAdmitted(s, range) ==
    IF s.focused = range THEN s
    ELSE Revised([s EXCEPT !.focused = range, !.recency = @ + 1,
                           !.lastUsed = [f \in File |-> IF f \in range THEN s.recency + 1 ELSE @[f]]])

stageCacheVictims(s, victims) ==
    IF victims = {} THEN s
    ELSE Revised([s EXCEPT !.status = [f \in File |-> IF f \in victims THEN "pending" ELSE @[f]]])

stageAdmission(s, f, result) ==
    LET admitted == Revised([s EXCEPT !.status[f] = result])
    IN  stageCacheVictims(admitted,
            Victims(s.lastUsed, Retained(admitted), s.focused, Leased(s)))

hold(s, fs) == IF fs = {} THEN s ELSE Revised([s EXCEPT !.held = @ \union fs])

-----------------------------------------------------------------------------
(* Commands.                                                               *)

EnrichFile(s, f, speculative) ==
    [type |-> "enrich", epoch |-> s.epoch, file |-> f, speculative |-> speculative,
     search |-> s.searching]

\* A build sees the Frame and the range as they are when it is created, and
\* leases its File if the search will hold it.  view is what its worker built.
HoldsOnAdmission(s, f) == s.searching /\ f \notin s.held
EnrichmentBuild(s, f, speculative, result) ==
    [type |-> "build", epoch |-> s.epoch, file |-> f, speculative |-> speculative,
     result |-> result, base |-> s.frame, range |-> s.focused,
     hold |-> HoldsOnAdmission(s, f), fresh |-> TRUE, view |-> None]
CacheBuild(s, range) ==
    [type |-> "cache", epoch |-> s.epoch, base |-> s.frame, range |-> range,
     wanted |-> TRUE, fresh |-> TRUE, view |-> None]
ScanReviewSource(s, f) == [type |-> "scan", epoch |-> s.epoch, file |-> f, current |-> TRUE]

IsSpeculative(c) == c.type = "enrich" /\ c.speculative
speculativeEnrichments(s) ==
    Cardinality({i \in 1..Len(s.commands) : IsSpeculative(s.commands[i])})
        + Cardinality({c \in s.issued : IsSpeculative(c)})

\* queueFileEnrichment: demand work goes before the first speculative read.
Demand(s, fs) ==
    LET q == s.commands
        later == {i \in 1..Len(q) : IsSpeculative(q[i])}
        at == IF later = {} THEN Len(q) ELSE (CHOOSE i \in later : \A j \in later : i <= j) - 1
        new == MapSeq(fs, LAMBDA f : EnrichFile(s, f, FALSE))
    IN  markLoading([s EXCEPT !.commands = SubSeq(q, 1, at) \o new \o SubSeq(q, at + 1, Len(q))],
                    Members(fs))

Prefix(fs, n) == SubSeq(fs, 1, IF n < 0 THEN 0 ELSE IF n < Len(fs) THEN n ELSE Len(fs))
\* Mutant: the reads of a replaced Session do not count.
SpeculateForSession(s, fs) ==
    LET ours == Cardinality({c \in All(s) : IsSpeculative(c) /\ Ours(s, c)})
        new == Prefix(Kept(fs, Pending(s)), MaxSpeculative - ours)
    IN  markLoading([s EXCEPT !.commands = @ \o MapSeq(new, LAMBDA f : EnrichFile(s, f, TRUE))],
                    Members(new))

Speculate(s, fs) ==
    LET new == Prefix(Kept(fs, Pending(s)),
                      MaxSpeculative - speculativeEnrichments(s))
    IN  markLoading([s EXCEPT !.commands = @ \o MapSeq(new, LAMBDA f : EnrichFile(s, f, TRUE))],
                    Members(new))

\* A newer request replaces the queued one and makes the issued one unwanted.
queueCacheBuild(s, range) ==
    LET Unwanted(c) == IF c.type = "cache" THEN [c EXCEPT !.wanted = FALSE] ELSE c
    IN  [s EXCEPT !.commands = Append(Kept(@, {c \in Members(@) : c.type # "cache"}),
                                      CacheBuild(s, range)),
                  !.issued = {Unwanted(c) : c \in @},
                  !.cacheUpdate = range]

\* After a lease is gone, the files it kept may be over the budget.
stageReleasedSearchLeases(s) ==
    LET range == IF s.cacheUpdate # None THEN s.cacheUpdate ELSE s.focused
    IN  IF ~s.shutdown /\ (s.cacheUpdate # None \/ requiresCacheEnforcement(s, range))
        THEN queueCacheBuild(s, range) ELSE s

-----------------------------------------------------------------------------
(* The Review search.                                                      *)

Ascending(a, b) == [i \in 1..(IF b < a THEN 0 ELSE b - a + 1) |-> a + i - 1]
Descending(b, a) == [i \in 1..(IF b < a THEN 0 ELSE b - a + 1) |-> b - i + 1]

\* pumpReviewSearchAcquisition: fill the free reads with the next Files.
Pump(s) ==
    LET active == Cardinality({i \in 1..Len(s.commands) :
                                  s.commands[i].type = "enrich" /\ Ours(s, s.commands[i])})
                    + Cardinality({c \in s.issued : c.type = "enrich" /\ Ours(s, c)})
        next == Kept(Ascending(1, NumFiles), Pending(s) \ s.acquired)
    IN  IF ~s.searching \/ active >= MaxAcquisitions THEN s
        ELSE Demand([s EXCEPT !.acquired = @ \union Terminal(s)],
                    Prefix(next, MaxAcquisitions - active))

\* maybeQueueReviewSourceScan: the scan takes a lease of its own, then the
\* search's hold is released.
QueueScan(s) ==
    LET ready == Terminal(s) \ s.scanned
        f == CHOOSE g \in ready : \A h \in ready : g <= h
        leased == Revised([s EXCEPT !.commands = Append(@, ScanReviewSource(s, f)),
                                    !.scanned = @ \union {f}, !.held = @ \ {f}])
    IN  IF ~s.searching \/ Scans(s) # {} \/ ready = {} THEN s
        ELSE IF f \in s.held THEN stageReleasedSearchLeases(leased) ELSE leased

\* Mutant: the File of a discarded read stays loading.
DiscardKeepsLoading(s) ==
    [s EXCEPT !.commands = Kept(@, {c \in Members(@) :
                                       c.type # "scan" /\ ~(c.type = "enrich" /\ c.search)})]

\* discardQueuedSearchEnrichments and discardQueuedReviewSourceScans.
DiscardSearch(s) ==
    LET Dropped(c) == c.type = "scan" \/ (c.type = "enrich" /\ c.search)
        dropped == {c \in Members(s.commands) : Dropped(c)}
        FilesOf(t) == {c.file : c \in {d \in dropped : d.type = t}}
        kept == resetLoading([s EXCEPT !.commands = Kept(@, Members(@) \ dropped),
                                       !.scanned = @ \ FilesOf("scan")],
                             FilesOf("enrich"))
    IN  IF FilesOf("scan") = {} THEN kept ELSE Revised(kept)

\* An issued scan of the closed search is no longer current.
closeReviewSearch(s) ==
    LET Left(c) == IF c.type = "scan" THEN [c EXCEPT !.current = FALSE] ELSE c
        closed == DiscardSearch([s EXCEPT !.searching = FALSE, !.acquired = {},
                                          !.issued = {Left(c) : c \in @}])
        released == IF s.held = {} THEN closed ELSE Revised([closed EXCEPT !.held = {}])
    IN  stageReleasedSearchLeases(released)

\* pauseQueuedSpeculativeEnrichment.
PauseSpeculative(s) ==
    LET paused == {c \in Members(s.commands) : IsSpeculative(c) /\ Ours(s, c)}
    IN  resetLoading([s EXCEPT !.commands = Kept(@, Members(@) \ paused)],
                     {c.file : c \in paused})

openReviewSearch(s) ==
    QueueScan(Pump(PauseSpeculative(
        [hold(s, Retained(s)) EXCEPT !.searching = TRUE, !.acquired = {}])))

requestShutdown(s) ==
    LET ending == [s EXCEPT !.shutdown = TRUE]
    IN  [(IF s.searching THEN closeReviewSearch(ending) ELSE ending) EXCEPT !.commands = << >>]

-----------------------------------------------------------------------------
(* The main loop.                                                          *)

\* Mutant: commands do not wait for the worker.
DrainedAll(s) == [s EXCEPT !.commands = << >>, !.issued = @ \union Members(s.commands)]

\* takeCommand until it returns null: one worker at a time builds or scans, and
\* such a command at the head of the queue waits for it.  An issued read no longer
\* says whether the search asked for it.
Drained(s) ==
    LET Busy(c) == c.type # "enrich"
        Fits(n) == Cardinality({i \in 1..n : Busy(s.commands[i])})
                       + Cardinality({c \in s.issued : Busy(c)}) <= 1
        n == CHOOSE m \in 0..Len(s.commands) :
                 /\ Fits(m)
                 /\ m < Len(s.commands) => ~Fits(m + 1)
        Issue(c) == IF c.type = "enrich" THEN [c EXCEPT !.search = FALSE] ELSE c
    IN  [s EXCEPT !.commands = SubSeq(@, n + 1, Len(@)),
                  !.issued = @ \union {Issue(s.commands[i]) : i \in 1..n}]

enrichmentRange(s) ==
    LET over == IF s.cursor.isolated THEN 0 ELSE Overscan
    IN  (s.cursor.first - over)..(s.cursor.last + over) \intersect File

promoteSpeculativeEnrichment(s) ==
    LET Promoted(c) == IF c.type = "enrich" /\ Ours(s, c) /\ c.file = s.cursor.active
                       THEN [c EXCEPT !.speculative = FALSE] ELSE c
    IN  [s EXCEPT !.commands = MapSeq(@, Promoted), !.issued = {Promoted(c) : c \in @}]

\* The visible Files, then the overscan above from below, then the one below.
SpeculativeOrder(s) ==
    LET InRange(fs) == Kept(fs, enrichmentRange(s))
    IN  Ascending(s.cursor.first, s.cursor.last)
            \o InRange(Descending(s.cursor.first - 1, 1))
            \o InRange(Ascending(s.cursor.last + 1, NumFiles))

EnsureRange(s) ==
    LET range == enrichmentRange(s)
        active == s.cursor.active
        focused == focusAdmitted(s, range)
    IN  CASE s.cacheUpdate = range -> s
          [] s.cacheUpdate \notin {None, range}
               \/ (s.cacheUpdate = None /\ requiresCacheEnforcement(s, range))
             -> queueCacheBuild(s, range)
          [] OTHER ->
               IF s.searching \/ s.status[active] = "loading" THEN focused
               ELSE IF active \in Pending(s) THEN Demand(focused, <<active>>)
               ELSE Speculate(focused, SpeculativeOrder(s))

ensureFocusedEnrichment(s) ==
    IF s.shutdown THEN s ELSE EnsureRange(promoteSpeculativeEnrichment(s))

\* One turn of the loop handles an event, drains the queue, ensures the range and
\* drains the queue again.  Presentation has one thread, so a turn is one step.
\* Workers run beside it; what a worker reads in the middle of a turn it could
\* have read before or after, or the turn makes its build old.
Turn(s) == Drained(ensureFocusedEnrichment(Drained(s)))
Handle(s) == p' = Turn(s)

Init ==
    /\ \E c \in Cursor : p = Turn(New(1, c, << >>, {}))
    /\ inputs = 0
    /\ failures = 0

Fails == failures < MaxFailures /\ failures' = failures + 1 /\ UNCHANGED inputs
Works == UNCHANGED <<inputs, failures>>
Input == inputs < MaxInputs /\ inputs' = inputs + 1 /\ UNCHANGED failures

-----------------------------------------------------------------------------
(* Inputs.                                                                 *)

\* The cursor moves, or the view is isolated: builds for the other view are old.
MoveCursor ==
    \E c \in Cursor \ {p.cursor} :
        /\ ~p.shutdown /\ ~p.searching
        /\ LET moved == [p EXCEPT !.cursor = c]
           IN  Handle(IF c.active # p.cursor.active \/ c.isolated # p.cursor.isolated
                      THEN Revised(moved) ELSE moved)
        /\ Input

OpenSearch == ~p.shutdown /\ ~p.searching /\ Handle(openReviewSearch(p)) /\ Input
CloseSearch == ~p.shutdown /\ p.searching /\ Handle(closeReviewSearch(p)) /\ Works

\* acceptPreparedSession publishes another Session.  What the old one has issued
\* runs on, a build or scan keeping its worker busy, and so do its queued reads.
ReplaceSession ==
    \E c \in Cursor :
        /\ ~p.shutdown /\ p.epoch < MaxEpoch
        /\ LET old == DiscardSearch(p)
               Left(d) == IF d.type = "enrich" THEN d ELSE [type |-> "left", epoch |-> d.epoch]
           IN  Handle(New(p.epoch + 1, c,
                          Kept(old.commands, {d \in Members(old.commands) : ~IsBuild(d)}),
                          {Left(d) : d \in old.issued}))
        /\ Works

Quit == ~p.shutdown /\ Handle(requestShutdown(p)) /\ Works

-----------------------------------------------------------------------------
(* Workers and their completions.                                          *)

Consumed(c) == [p EXCEPT !.issued = @ \ {c}]
Applies(c) == ~p.shutdown /\ Ours(p, c)

\* A completion that no longer applies is consumed and dropped.
Drop ==
    \E c \in p.issued :
        /\ ~Applies(c) \/ (c.type = "cache" /\ ~c.wanted)
        /\ IsBuild(c) => c.view # None
        /\ Handle(Consumed(c))
        /\ Works

Acquired(s, f) == IF s.searching THEN [s EXCEPT !.acquired = @ \union {f}] ELSE s

\* acceptFileEnrichment.
FileFetched ==
    \E c \in p.issued, result \in {"ready", "failed"} :
        /\ c.type = "enrich" /\ Applies(c)
        /\ LET s == Consumed(c)
           IN  Handle([s EXCEPT !.commands =
                          Append(@, EnrichmentBuild(s, c.file, c.speculative, result))])
        /\ Works

\* The read cannot be launched or runs out of memory.
FetchFailed ==
    \E c \in p.issued :
        /\ c.type = "enrich" /\ Applies(c)
        /\ LET s == resetLoading(Consumed(c), {c.file})
           IN  IF c.speculative THEN Handle(s)
               ELSE \/ Handle(QueueScan(Pump(Acquired(s, c.file))))
                    \/ ~s.searching /\ Handle(requestShutdown(s))
        /\ Fails

\* The completed read cannot be queued for its build.
BuildRefused ==
    \E c \in p.issued :
        /\ c.type = "enrich" /\ Applies(c)
        /\ Handle(resetLoading(Consumed(c), {c.file}))
        /\ Fails

\* DisclosureBuild.run: the worker projects the File and the victims from the
\* inputs of the build and the cache entries as they are now.
Preview(s, c) ==
    LET new == IF c.type = "build" /\ c.result = "ready" THEN {c.file} ELSE {}
        lease == IF c.type = "build" /\ c.hold THEN {c.file} ELSE {}
    IN  (c.base \union new)
            \ Victims(s.lastUsed, Retained(s) \union new, c.range, Leased(s) \union lease)

RunBuild ==
    /\ \E c \in p.issued :
          /\ IsBuild(c) /\ c.view = None
          /\ p' = [p EXCEPT !.issued = (@ \ {c}) \union
                      {[c EXCEPT !.view = Preview(p, c)]}]
    /\ UNCHANGED <<inputs, failures>>

\* retryContentBuild.
Retried(s, c) ==
    IF c.type = "build"
    THEN [s EXCEPT !.commands = Append(@, EnrichmentBuild(s, c.file, c.speculative, c.result))]
    ELSE queueCacheBuild(s, s.cacheUpdate)

\* Mutant: a failed build leaves its File loading.
AbandonedLoading(s, c) == IF c.type = "build" THEN s ELSE [s EXCEPT !.cacheUpdate = None]

\* What acceptViewBuild does with a build it cannot or need not use.
Abandoned(s, c) ==
    IF c.type = "build" THEN resetLoading(s, {c.file}) ELSE [s EXCEPT !.cacheUpdate = None]

Published(s, view) == Revised([s EXCEPT !.frame = view])

\* Mutant: the admission does not fill the read it freed.
AdmitWithoutPump(s, c) ==
    LET held == IF HoldsOnAdmission(s, c.file) THEN hold(s, {c.file}) ELSE s
    IN  QueueScan(Acquired(Published(stageAdmission(held, c.file, c.result), c.view), c.file))

AdmitFile(s, c) ==
    LET holding == HoldsOnAdmission(s, c.file)
        held == IF holding THEN hold(s, {c.file}) ELSE s
        admitted == Published(stageAdmission(held, c.file, c.result), c.view)
    IN  QueueScan(Pump(Acquired([admitted EXCEPT !.raced = @ \/ holding # c.hold], c.file)))

AdmitCache(s, c) ==
    LET focused == focusAdmitted(s, c.range)
        victims == c.base \ c.view
    IN  [Published(stageCacheVictims(focused, victims), c.view) EXCEPT !.cacheUpdate = None]

\* Mutant: the cache revision is not compared.
AlwaysFresh(c) == TRUE

\* Has nothing the build depends on changed since it was created?
IsFresh(c) == c.fresh

\* acceptViewBuild of a build that applies and is wanted.
Wanted(c) == IsBuild(c) /\ Applies(c) /\ (c.type = "cache" => c.wanted)

BuildDone ==
    \E c \in p.issued :
        /\ Wanted(c) /\ c.view # None
        /\ LET s == Consumed(c)
           IN  Handle(IF ~IsFresh(c) THEN Retried(s, c)
                      ELSE IF c.type = "build" THEN AdmitFile(s, c) ELSE AdmitCache(s, c))
        /\ Works

\* The worker fails, or the retry cannot be allocated.
BuildFailed ==
    \E c \in p.issued :
        /\ Wanted(c) /\ c.view # None
        /\ Handle(Abandoned(Consumed(c), c))
        /\ Fails

\* acceptReviewSourceScanned: a scan of a closed or failed search is repeated.
\* It releases its lease; only a failed one starts no other scan.
ScanDone ==
    \E c \in p.issued :
        /\ c.type = "scan" /\ Applies(c)
        /\ LET released == stageReleasedSearchLeases(Revised(Consumed(c)))
               again == [released EXCEPT !.scanned = @ \ {c.file}]
           IN  \/ Handle(QueueScan(IF p.searching /\ c.current THEN released ELSE again)) /\ Works
               \/ p.searching /\ c.current /\ Handle(again) /\ Fails

Complete == Drop \/ FileFetched \/ BuildDone \/ ScanDone

Next ==
    \/ MoveCursor \/ OpenSearch \/ CloseSearch \/ ReplaceSession \/ Quit
    \/ RunBuild \/ Complete \/ FetchFailed \/ BuildRefused \/ BuildFailed

\* Workers end and their completions are handled: weak fairness of RunBuild and
\* Complete together, one of which is enabled as long as a command is issued, with
\* ENABLED spelled out.  A step that is no input is a worker's.
WorkerStep ==
    /\ inputs' = inputs
    /\ p'.epoch = p.epoch
    /\ p.searching => p'.searching
Fairness == []<>(p.issued = {}) \/ []<><<WorkerStep>>_vars

Spec == Init /\ [][Next]_vars /\ Fairness

-----------------------------------------------------------------------------
(* Properties.                                                             *)

\* The state is well-formed: one worker at most builds or scans, and a pending
\* cache update has its build queued or issued.
TypeOK ==
    /\ p.status \in [File -> {"pending", "loading", "ready", "failed"}]
    /\ p.cursor \in Cursor
    /\ {p.focused, p.held, p.frame, p.acquired, p.scanned} \subseteq SUBSET File
    /\ Cardinality({c \in p.issued : c.type # "enrich"}) <= 1
    /\ ~p.shutdown => (p.cacheUpdate # None <=>
           \E c \in All(p) : c.type = "cache" /\ Ours(p, c) /\ c.wanted)

\* speculativeEnrichments counts the queued and the issued reads of every
\* Session: moving the cursor, opening the search and replacing the Session
\* never raise the speculative reads at once above max_speculative_enrichments.
SpeculativeBound == speculativeEnrichments(p) <= MaxSpeculative

\* A File is loading exactly when one read of it or one build with it is queued
\* or in flight: no File is fetched twice, and none stays loading with nobody
\* left to finish it (ensureFocusedEnrichment would then wait forever).
LoadingIsUnderWay ==
    ~p.shutdown =>
        \A f \in File :
            LET IsFor(c) == c.type \in {"enrich", "build"} /\ Ours(p, c) /\ c.file = f
                n == Cardinality({i \in 1..Len(p.commands) : IsFor(p.commands[i])})
                        + Cardinality({c \in p.issued : IsFor(c)})
            IN  n = IF p.status[f] = "loading" THEN 1 ELSE 0

\* The Frame shows the text the Storage retains, no less and no more: what the
\* worker projected is what the admission does.  The one exception is a build
\* made before the Review search opened or closed and admitted after it.
FrameMatchesStorage == ~p.raced => p.frame = Retained(p)

\* No File of the focused range, and none that the search or one of its scans
\* has leased, loses its text.
EvictsOnlyInactive ==
    [][\A f \in File :
          (p.epoch = p'.epoch /\ p.status[f] = "ready" /\ p'.status[f] = "pending") =>
              f \notin p'.focused \union Leased(p)]_vars

\* Work ends: retries, cache updates and evicted Files do not keep the workers
\* busy forever once the inputs stop.  This is without raced admissions: after one the
\* cache may stay over its budget and be rebuilt for ever.
Quiesces == []~p.raced => <>[](p.commands = << >> /\ p.issued = {})

\* The active File ends with its text or its failure on the screen, without raced
\* admissions: cache builds that repeat for ever keep it from being read.
ActiveShown ==
    []~p.raced => <>[](p.shutdown \/ p.searching \/ p.cursor.active \in Terminal(p))

\* An open Review search gets to every File, if no read or build fails and no
\* admission is raced.
SearchEnds ==
    [](~p.raced /\ failures = 0) => (p.searching ~> (~p.searching \/ p.acquired = File))
=============================================================================
