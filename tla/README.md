# bbr: a TLA+ model of Submission, Sessions and File enrichment

bbr is a terminal reviewer for Bitbucket pull requests.  A reviewer writes
Drafts; they are kept in a local SQLite database (the PendingReview) and are
published together, or thread by thread, by a *Submission*.  Publishing is the
part of the program that must not go wrong: a Draft must not be published
twice, published in the wrong thread, or lost, whatever is lost on the network,
whichever transaction fails, and whenever the process is killed.  Around it,
the terminal's single thread hands work to workers and applies what comes back
in any order: whole Sessions of a pull request, remote writes, the text of
single Files.  This project models these parts, checks them with TLC and proves
the invariants of all of them with TLAPS.

Paths below are relative to the repository's `src/`.

## 1. Inventory

| Component | State | Operations | Hard behaviour | What makes it correct |
|---|---|---|---|---|
| Drafts, `review/draft.zig` | rows: TempId, parent, state, body, Anchor | ordering, subtree, setState | order of Replies | parents before Replies |
| Store, `persist/sqlite_store.zig` behind `review/store.zig` | drafts, TempId counter, active run with items and retry point, carryovers, posted_drafts | reserve, put, edit, reanchor, delete subtree, resolve unknown, begin, checkpoint, retry checkpoint, complete, abandon | several processes; edits against an active run | frozen graph, no dangling Reply, ids never reused, publications never forgotten |
| Submission engine, `review/submission.zig` | order, index, attempts, checks, doubt, results | advance, report, reportCheck, completeWait, restoreRetry | lost responses, budgets | at most one Comment, true results, termination |
| Run lock, `review/submission_lock.zig` | OS lock per review | tryAcquire, probe, release | death of the owner | one driver per run |
| CommentPoster, `bitbucket/poster.zig`, `client.zig` | none | post, findExisting | ambiguous outcomes | classification |
| Durable driver, `tui/presentation.zig` (`DurableSubmission` and its handlers), `presentation_adapter.zig` | run copy, phase, parked completions, pending persistence, Stale repair gate, recovery Notice | start, recover, abandon, command completions, resume, unknown resolution | kills, failed transactions, stale completions, moved source | driver and run agree; never stranded; run ends |
| Session loading, `presentation.zig`, `session.zig` | published Session and Epoch, replacement with its intent, candidate revision | choose, refresh, reconcile, load, prepare, publish | superseded loads, Drafts that change under a candidate | the last choice wins; Drafts on the screen are the persisted ones |
| Remote mutations and verdict, `presentation.zig` | one lane: edit, delete, verdict or submission, with its outcome | start, complete, reconcile, release | late answers, switches, quit | one writer at a time; every write settles; the Reconciliation shows it |
| Runtime and shutdown, `presentation_runtime.zig`, `app.zig` | command queue, issued commands, shutdown flag | take, complete, request shutdown, exit | completions in any order, quit at any time | quit drains |
| File enrichment, `file_enrichment.zig` and `presentation.zig` | status, leases, recency of each File; focused range, pending cache update, Review search; the Frame | read, build, admit, evict, scan, speculate, open and close the search | builds on workers that are old when they return; cache and retry loops; Session replacement | Frame and Storage agree; nothing in use is evicted; the active File is shown; work ends |
| Auth profiles, `bitbucket/auth.zig` | files | login, logout, select | replacement | not modelled |
| Threads and Anchors, `review/thread.zig`, `anchor.zig`, `comment.zig` | none (pure) | projection | | not modelled |
| Diff, git, highlighting, rendering, CLI, tools | pure or I/O | | | not modelled |

Interaction: Presentation is one thread.  It emits *commands* (POST a Draft,
wait, read the source commit, look for a duplicate), worker threads carry them
out, and their completions come back as events.  Handlers call the store
synchronously; each store operation is one `BEGIN IMMEDIATE ... COMMIT`
transaction.  Processes share the database and an OS lock per review that the
kernel drops when its owner dies (ADR-0011).

Commands that rebuild the view or scan a File share one worker; reads of Files
and requests to Bitbucket run beside it.  Every completion names the command,
the intent or the Session Epoch it belongs to, and the handlers use that to drop
what no longer applies.

The hazards are listed, each at its line, in `PROJECT.json`.

## 2. Modules

| Module | Models |
|---|---|
| `Drafts` | rows, states, runs and retry points: the shared vocabulary |
| `PendingReviewStore` | the SQLite transactions, and the store under any caller |
| `PendingReviewStore_proofs` | its theorems |
| `Queues`, `Queues_proofs` | the scan that keeps some elements of a queue, shared by the components; lemmas about it and about recursive functions |
| `Bitbucket` | Comments (external) and the classification of answers by `post` and `findExisting` |
| `Submission` | the engine as operators on a machine record |
| `SubmissionMachine`, `SubmissionMachine_proofs` | the engine alone against Bitbucket; its theorems |
| `DurableSubmission`, `DurableSubmission_proofs` | processes, driver, engine, store, lock and Bitbucket composed; its theorems |
| `Sessions`, `Sessions_proofs` | the event loop seen from its Sessions: replacement, the write lane, quit; its theorems |
| `FileEnrichment` | reads, builds, cache and Review search of one Session, and its replacement |
| `EnrichmentQueue_proofs`, `EnrichmentHandlers_proofs`, `FileEnrichment_proofs` | its proofs: the commands, the handlers, the actions and the theorems |
| `MC*` | instances for TLC |

`PendingReviewStore` gives each transaction two operators: `XxxOk(s, ...)`, the
conditions under which it commits, and `Xxx(s, ...)`, the tables afterwards.
They take the tables `s` as a parameter, so the same operators are actions of the
store's own specification and steps of the driver's handlers.  Any error rolls
back, so a refused transaction is a step that is not taken.

`Submission` does the same for the engine: `advance`, `report`, `reportCheck`,
`completeWait` and `restoreRetry` map a machine record to the next one.  In
`SubmissionMachine` each iteration of `advance`'s loop is an action (`Skip`),
which keeps that specification free of loops.  In `advance` itself the loop is the
recursive function `Passed` over single iterations (`Turn`).

In `DurableSubmission` a handler is an operator from the process `x` and the
tables to the *set* of its results: one in which every transaction commits, and
one for each transaction that may fail, with the state the code leaves behind
then (phase paused, flags of what is already durable).  `Handled` takes one of
them in a single step, as Presentation is single-threaded.  A kill between two
transactions of a handler is the failed second transaction followed by `Crash`.
`ui[p]` holds the driver `d` (the `DurableSubmission` object), the command
`queue`, the commands `issued` to workers, the recovery `notice`, the Stale
repair `gate` and the `loaded` source commit.  Completions are delivered in any
order; the test of `command id, operation id, temp id, phase` that drops stale
ones is `Expected`.

In `Sessions` every handler is one action.  `published`, `replacement`, `lane`,
`commands` and `issued` are the fields of `Presentation` of those names (the lane
is the four `durable_*` pointers).  What a worker does at Bitbucket is a step of
its own (`AtBitbucket`) between `takeCommand` and the completion, so a load may
read the pull request before or after a write is applied.  A Session's data is
two numbers: `seen`, how many remote writes its load read, and `drafts`, the
version of the PendingReview its candidate was built from.  A submission is one
write here, from its start to its finish; `DurableSubmission` is its inside.

In `FileEnrichment` one turn of the loop in `app.zig` (event, drain the queue,
`ensureFocusedEnrichment`, drain again) is one action, and a build runs on a
worker in a step of its own (`RunBuild`) that reads the cache entries as they
are then.  What the freshness tests of `acceptViewBuild` compare (Storage
revision, geometry, inputs, Frame revision, generation, cursor) is the flag
`fresh` of a build, cleared by every change of one of them (`Revised`).

### Abstractions and assumptions

- One review.  Only Drafts with a Bitbucket target, with distinct bodies.
- The source check is always on, as `app.zig` sets it for an online session.
- A POST's effect on the server and the delivery of its answer are one step.  A
  POST the client has given up on is not delivered later; one under way when the
  process is killed may be.
- The server is `external`: it creates a Comment with a fresh id, or answers with
  an error and does nothing, or the answer is lost and either has happened.
- The reviewer's answer to an `outcome_unknown` Draft is true; the code cannot
  check it.
- In the composition nobody edits Drafts while a run is active.  That edits
  cannot reach the participants is what the store's specification shows
  (`FrozenGraph`), for any caller.
- Failed allocations are modelled where the code has a phase for them
  (`admission_paused`).
- Times are symbolic: a wait ends, and a `Retry-After` is a member of `Delay`.
- `Sessions`: a write is applied at most once and its answer may be lost (an
  unknown outcome); recovered submissions and paused phases are in
  `DurableSubmission`.  The refresh of the submission tree is left out,
  and so is the completion of a recovered run without a current item, the one change
  of the Drafts that `candidate_review_revision` does not count (`presentation.zig:6397`).
- `FileEnrichment`: a File has one side and its text is one unit of the budget;
  the Review search has its query from the start; builds for the view, Drafts and
  review destinations are left out, except that a Session which is replaced may
  leave a build behind that keeps the worker busy.

## 3. Runs

Passing runs:

| Run | Instance | States | Shows |
|---|---|---|---|
| `store` | 3 TempIds, 2 runs, 2 CommentIds, a legacy row without counter | 525,585 | the eight store properties |
| `engine` | every review of 2 Drafts, nested reviews of 3; four kinds of POST error, three of check error | 502,323 | publication at most once, true results, budgets, termination |
| `durable_one` | 1 Draft, 2 processes (symmetric), 1 kill, 1 failure, 2 runs, source moves once | 537,885 | driver and run agree; no second Comment; no blind repeat; the stale gate; only an auth abort strands a driver |
| `durable_thread` | root and Reply, 1 process, 1 failure, source moves | 5,125 | intent before POST across items, threading, rows, never stranded |
| `durable_live` | 1 Draft, 1 kill, 1 failure, fairness | 2,026 | every run ends |
| `sessions` | 2 pull requests, 3 intents; edit, verdict and submission; 1 remote write each, 2 changes of the Drafts; fairness | 514,660 | the last choice wins; Drafts and Reconciliation are current; one writer; replacements, writes and quit end |
| `enrichment` | 2 Files, 1 speculative and 1 search read at once, no cache, 2 Sessions, 2 inputs, 1 failure; fairness | 556,534 | Frame and Storage agree; no File lost or fetched twice; no eviction of what is in use; the work ends, the active File is shown, the search gets to every File |

Why the bounds are enough to be interesting: three TempIds give a chain of two
Replies (a cascade beyond direct Replies) and a fresh id after a deletion; two
runs give partial completion followed by another run, with a carried-over
Retry-After; two processes give a takeover; one kill can fall at any point of a
run; one failure can hit any one transaction, launch or allocation.  In
`sessions` three intents give a choice, a refresh or Reconciliation of it and a
switch in any order, each of which can overtake the others; delete is left out of
the instance because its handlers are those of edit, line for line.  In
`enrichment` two Files with a visible range of one or two give demand, speculative
and search reads of the same File, a budget of 0 (`[files.cache]` disabled) makes
every File outside the range a victim, and the second Session finds the worker
and the speculative slot taken by the first.  Budget 1 with three Files, one
Session and no failures (478,450 states) holds too and is not kept as a run.
Nor is `PostsAreIntended` on two root Drafts with two processes, lost answers, a
kill, a failure and a moving source (646,657 states, no violation): it is the theorem
`PostsIntended`, and in `durable_thread` `IntentBeforePost` says the same.
Symmetry is used only on processes, in a run without liveness.

Deadlock is checked in `engine` (a finished machine has an explicit stutter).  The
others say `CHECK_DEADLOCK FALSE`: when everything is published, the program has
quit or the bounds are used up, the system may rest.

Violation runs, one for each place where the code does not do what the
repository says (`findings` quotes the sentences):

| Run | What TLC shows |
|---|---|
| `intent_before_post` | after a publication check, the next Draft is POSTed before outcome and intent are durable |
| `blind_repeat` | a recovered run restores its retry point at the wrong item and re-POSTs the current one |
| `wrong_outcome` | a checked Draft is recorded with another Draft's CommentId |
| `quit_drains` | quitting while a settled edit, delete or verdict waits for its Reconciliation never ends the program |
| `one_lane` | linking a Draft of unknown outcome takes the lane from a write in flight, and a second one starts |

Others were met on the way and have no run of their own; the hazards name their
lines.

Submission:

- `completeWait` (`presentation.zig:5790`) materializes only a POST, so the wait
  of a rate-limited publication check cannot be completed, although
  `docs/m16-operations.md:47` says that exhausted checks settle as
  `outcome_unknown`.  `DriverEnds` fails as soon as checks may fail.
- `acceptPost` (`:5694`) restores the row of an aborted item only if it is draft,
  failed or unknown; from the second item on, and after recovery, a checkpoint
  has made it submitting, and the driver is stranded.  `StrandedOnlyByAbort` shows
  that this is the only way to strand one with one item.  With several,
  `advanceAfterPolicyCheck` strands it too: it POSTs an item that is not the
  current one, whose completion is dropped (`intent_before_post`), or, when the
  last item of the order was skipped, returns with nothing queued (`:11149`).
- An unparsable 2xx is a rejection to `postImpl` (`poster.zig:65`), although
  `poster.zig:7` takes a rejection as proof that nothing was created.
  `ResultsAreTrue` fails with `MalformedResponse` among the errors.
- A run killed during a wait and recovered after the source moved stays paused at
  the duplicate guard, which refuses a wait step (`:5807`), although ADR-0012 says
  that a changed SourceCommit "does not block read-only Duplicate-guard
  reconciliation"; only abandoning it helps.
- A Draft posted by a run that ended partial is not an item of the next one, so
  its posted row outlives the clean completion of the rest (`:5576`).

Sessions and the lane (`SPEC.md` is that of
`.scratch/m16-review-item-mutation-submission-hardening`):

- `failReplacement` (`:12718`) releases only the verdict: a Reconciliation whose
  candidate fails, or that is cancelled by choosing the pull request on the screen
  again (`:12582`), leaves the edit or delete it was for in the lane until
  another pull request is chosen (against `SPEC.md:157`).
- The required reload is asked for by edit and delete only (`:7223`, `:7299`), not
  by verdict and submission (against `SPEC.md:81`, `:157`).
- An edit, delete or submission that succeeds while a refresh is in flight starts
  no Reconciliation (`:10692`, `:10732`, `:10948`), against `SPEC.md:178`; a
  verdict does.
- `abandonRecoveredSubmission` (`:7820`) frees the lane while its POST may still
  be in flight; it is in `DurableSubmission`, not in `Sessions`.

File enrichment: whether the Review search will hold a File is decided when the
build is created (`:12050`, `:9876`), and the lease is taken when it is admitted
(`:9555`).  Opening or closing the search in between with nothing held changes no
revision, so the build is admitted with a preview made for the other case: the
Storage then retains a File that the Frame does not show, or has evicted one that
it shows.  In the first case, once that File is out of range, the cache is over
its budget while the victims of every cache build, computed from the Frame's
inputs (`:2953`), are empty: cache builds repeat for ever and the active File is
never read (`:11822` returns first).  `.scratch/m21-buffer-review-search/issues/
06-define-streaming-file-acquisition.md:18` says that normal enforcement resumes
after the scan.  The history variable `raced` marks these behaviours; the
properties of `enrichment` that would fail are stated for the others.

The passing runs therefore leave out the combinations that reach these: lost
responses with several items (`durable_thread`, `durable_live`), kills with
several items, `Unauthorized` on a second item, check errors or a moving source
in the liveness run, and `MalformedResponse`.  `durable_one` does include lost
responses, failing checks, kills, an auth rejection and a moving source, with
one item.  `PostsAreIntended` names the one way around the intent (`CheckInside`)
and holds everywhere.  `sessions` includes both of its findings: `LaneIsExclusive`
and `QuitDrains` say what holds outside them (`overlapped` records that a Draft was
linked while a write was under way).

### Fairness

`engine` assumes that the caller carries out each step and that every request
ends; the HTTP client's failures are answers.  `durable_live` assumes weak
fairness of starting a process, issuing a queued command, delivering a
completion, resuming what is paused and recovering what was interrupted, and
strong fairness of an *answered* read (a read that is repeated for ever is
answered at last).  Issuing and delivering are the event loop's own doing;
resuming and recovering are the reviewer's, for whom every paused phase shows a
retryable error.  Nothing is assumed about POSTs succeeding.  Liveness is checked
with one Draft: with more, TLC evaluates ENABLED of whole handlers in every state
of the tableau and does not finish in reasonable time.

`sessions` assumes weak fairness of taking a queued command, of handling a
completion and of leaving the loop: the loop drains its queue after every event,
requests have a timeout, and a launch that fails completes at once.  Which
completion comes first, and whether a write reaches Bitbucket, is left open.
`enrichment` assumes weak fairness of workers and completions together.  One of
them can happen exactly while a command is issued, so the formula says that
directly instead of through ENABLED, which TLC would evaluate by trying every
turn in every state of the tableau.  Nothing is assumed of the reviewer in either.

## 4. Proofs

`PendingReviewStore_proofs` proves, for every number of TempIds, runs and
CommentIds and every set of bodies, Anchors, sources and retry points, all eight
properties of the `store` run.  The assumptions are those named in the modules:
the bounds are naturals, `Body` is not empty, legacy ids are TempIds, retry
points have their type.

The inductive invariant `IInv` strengthens the listed invariants by two facts:

- `PostedHasComment`: a posted row carries a CommentId.  Without it the clean
  completion could record or remap to NULL.
- `TempIdBounds`: every id ever owned lies below the counter, or, as long as there
  is no counter row, the ids ever owned are exactly the rows.  `TempIdsFresh`
  alone is not inductive: it speaks of the next id only, and removing the highest
  row must be known to raise the counter first (`retainTempIdFloor`).

The argument: `NextAboveIsAbove` (the SQL `MAX(local_id)+1` exists and exceeds
every row, by a well-founded minimum), `SubtreeClosed` (the recursive CTE is
closed under Replies), then one lemma per transaction, each showing that it keeps
`IInv` and the two action properties (`History`).  The delicate ones are
`DeleteStep` (no participant and no parent of a survivor is in the cascade),
`CheckpointStep` (two rows change and `submitting` moves from one to the other)
and `CleanStep` (record, remap and delete at once: survivors that replied to a
removed row now reply to its Comment).

### The engine

`SubmissionMachine_proofs` proves the five invariants of the `engine` run for
every set of Reviews, that is for any number of Drafts and any nesting in which a
Reply is younger than its parent (`ReviewsAssumption`; TempIds are handed out in
order).  The inductive invariant:

- `CallIsStep`: the POST, check or wait under way is the step `advance` asks for;
- `Progress`: what lies before the index is decided, what lies behind is as it was
  brought, and a skipped Reply has an unpublished parent before it;
- `Budget`: an open item has a check left and, unless it is in doubt, a POST, and
  every send is counted;
- `OneEach`, `Recognised`, `OpenInDoubt`: a Draft has at most one Comment; the
  Comment of an open item is in doubt (so that the next step is a check and not a
  POST) and lies where the check will look for it.

`OpenInDoubt` is what makes `AtMostOneComment` inductive: a POST may only be the
next step of an item that has no Comment.  What `topologicalOrder` returns
(`TopologicalOrderOK`: each Draft once, a Reply behind its parent) is proved too.
Its recursion is a recursive function over an interval; `Queues_proofs` derives
what such a function is from a minimal-counterexample argument (`SetInduction`,
`RecursiveFunctionExists`), without the library's induction theorems.

Two theorems have hypotheses.  `RepliesPlaced` and `TellsTheTruth` assume that what
earlier runs recorded is true (`Consistent`) and that no two Drafts of a review
have the same body (`Distinguishable`): the duplicate guard compares bodies
(`poster.zig:88`) and would settle a Draft with its twin's Comment.
`TellsTheTruth` also assumes that no 2xx is malformed (`poster.zig:65`).  The
Reviews and errors of the `engine` run satisfy all three.  `NeverTwice` needs none.

### Sessions

`Sessions_proofs` proves the three invariants and the two action properties of the
`sessions` run, for any pull requests, intents, remote writes and changes.  The
inductive invariant ties each piece of work to what it is for: intents are never
handed out twice and the answer of the current intent is about its key
(`IntentsFresh`); a replacement is for what the reviewer chose last
(`ReplacementIsAsked`); a candidate no revision has overtaken holds the Drafts as
they are (`CandidatesCurrent`); a settled write is never behind a switch
(`SettledWaits`) and the load under way has read past it (`ReadAfterWrite`); and,
while no Draft was linked during a write, no command of a write is held twice
(`NoOverlap`).  Each handler is split into the parts it is made of, with one lemma
for each part and each conjunct it can disturb.

### The durable driver

`DurableSubmission_proofs` proves, for any Drafts, answers and number of processes,
kills and failures:

- `OwnerMatches`: the driver holds the lock and is at the operation and item of the
  run row;
- `SingleCommand`: over all processes at most one command of the active run is
  queued or under way, and its holder drives the run;
- `StaleGate`: once the driver of a recovered run has seen the source move, no POST
  of the run is queued or under way anywhere, until the run ends;
- `PolicyCheckNeverAborts`: the `.aborted => unreachable` of
  `advanceAfterPolicyCheck` (`presentation.zig:11164`) is unreachable.

The inductive invariant says of each process (`ProcessOK`) that it has no driver
and no command of the active run, or that its driver is `Sound`, is at the run row
(`AtRow`) and has `OneCommand`.  `Sound` is what the phase implies of the other
fields: a parked completion only in `admission_paused`, a pending persistence only
in `persistence_paused`, no aborted machine while the duplicate guard is asked, and
after a moved source only the phases of the guard.  `OneCommand` says where the
command is: in the queue in a queued phase, under way in a queued or awaiting one.
`StaleGate` needs both: the phases of the guard exclude a queued POST only because
the phase tells the kind of the one command there is.

The proof has one lemma per handler, about the *set* of its results (`Leaves`: the
run has ended with its driver, or the driver is sound, at its row, and has queued at
most one command), then one per action.  That other processes are not disturbed
(`Unaffected`) rests on the lock and on operation ids that are never handed out
twice: a process that lost the lock may still have commands of its old run, and
they are older than any new one.  The only assumption about constants is that the
mark of a free lock is not a process.

#### Intent before POST

ADR-0007 asks that a Draft's `submitting` intent is durable before its POST.  The
code does not keep this after a publication check (`intent_before_post`), so the
theorems say exactly when it does.  `CheckInside(p)` is the one way around it: the
driver of `p` has asked for a publication check of an item that is not the last,
and `advanceAfterPolicyCheck` may go on to one the run row does not name
(`presentation.zig:11108`) or return with nothing queued (`:11149`).

- `PostsIntended`: no step of any process queues a POST of a Draft the run row
  does not name, unless it is taken with a check inside the run.  This needs no
  hypothesis and covers what happens after such a check too: a recovery puts the
  driver back at the run row.
- `IntentWithoutCheckInside`: as long as nobody asks for a check inside a run,
  `IntentBeforePost` holds.
- `StrandedWithoutCheckInside`: under the same condition, `StrandedOnlyByAbort`
  holds: a driver whose machine was not aborted has queued or under way what its
  phase waits for.

The condition `NoCheckInside` is true of every run of one item (`durable_one`) and
of any run in which no response is ambiguous (`durable_thread`).  With lost responses
and several items it may fail, and then so do both invariants.

`IInv` knows nothing of the engine's machine.  `PInv` adds for each process
(`PoisedProcess`) that its driver is `Poised` and that its own commands are
`Meant`.  `Poised` says, phase by phase, where the machine stands: at an item that
`advance` would not pass (`Here`) and, except in `post_queued` after a check, the
one the driver calls current (`Aligned`); that an intent which
waits to be persisted is the machine's next item (`IsNextIntent`); that an answer
parked in `admission_paused` is about the current item; and that a publication
check is only asked while aligned.  `Meant` says that a queued POST is for the
item of the machine, and a wait or a check for the current one.

Every handler is then shown to leave its driver poised and either paused, aborted
or with one command that is meant (`Reaches`), and every action to leave its
process poised, to keep or queue only POSTs that are intended, and not to strand it
(`Intends`).  The base is the loop of `advance`: `PassedIs` and `advanceIs` show
that it ends, for any number of items, at an item it would not pass or behind the
last one, and does not move a machine that is there already.

#### A false start

An earlier form of `StaleGateBlocksPosts` spoke of the gate of the process and was
not inductive; TLC then showed it false with one more process.  A process whose own
run was aborted by a moved source keeps its gate closed and may still recover the
run of another (`:10976`), which POSTs if that run's source is the head.  The
property now speaks of the driver that has seen the source move, which is what
`docs/m16-operations.md` is about.

### File enrichment

`FileEnrichment_proofs` proves the type invariant, the three other invariants and
the action property of the `enrichment` run for any number of Files, visible Files,
reads at once, Sessions, inputs and failures and any budget.  The assumptions are
that the bounds are naturals, that there is a File and a visible one
(`BoundsAssumption`), and that null is not a set of Files (`NoneAssumption`).

The inductive invariant `IInv` says of the Session `p`:

- `Base`: the state has its types; of the issued commands one at most is no read;
  a command of an earlier Session is a read, or what keeps a worker busy; and the
  speculative reads of all Sessions are within their bound (`Queue`);
- `LoadsOK`: a File has exactly one queued or issued read or build if it is
  loading, and none otherwise;
- `CachesOK`: a pending cache update has exactly one wanted build, for its range;
- `Fresh`: a build that `acceptViewBuild` would admit was made for the Frame and
  the range as they are, and if its worker has run, what it built is what the
  worker would build now (`Preview`);
- `FrameTrue`: the Frame shows what the Storage retains;
- `Focus`: between turns the range of the cursor is focused, or a cache update for
  it is pending.

`Fresh` is what makes `FrameMatchesStorage` inductive.  The worker reads the cache
entries at some moment between the creation of its build and the completion; the
admission applies its result to the Storage of a third moment.  They agree because
every handler that changes a status, the Frame, the range, the recency or a lease
marks the builds as old (`Revised`), and the invariant has to say so of builds that
have not run yet too.  `Focus` is needed for `EvictsOnlyInactive`: the victims are
chosen against the range of the build, and `ensureFocusedEnrichment`, later in the
same turn, may focus another one; it does not, because the range was focused
already.  `LoadsOK`, `CachesOK` and `Fresh` are not claimed once the shutdown has
begun, when the queue is thrown away.

The proof is in three layers.  `EnrichmentQueue_proofs` is about a queue and a set
of issued commands alone: renaming commands (promotion, a newer cache request, a
revision), dropping, appending, inserting, issuing and completing them.
`EnrichmentHandlers_proofs` is about a Session record: each handler keeps each part
of the invariant on its own (`Keeps`), so that handlers compose, up to the whole
turn (`TurnSettles`); it uses no variable of the specification, as a turn passes
through states that are never the value of `p`.  `FileEnrichment_proofs` adds the
completions, which break a part and mend it (a consumed read leaves its File loading
until its build is queued), the admissions, one lemma for each action, and the
theorems.  That the order of speculative work names no File twice and that
`takeCommand` stops (`MostFits`) are lemmas on the way.

The model is as it was but for its form: the eviction takes the recency instead of
the whole Session, and lists are scanned with `Kept` of `Queues`.

### What is only model-checked

- Liveness under fairness, which is out of the prover's reach: `Terminates`,
  `DriverEnds`, `ReplacementEnds`, `QuitDrains`, `Quiesces`, `ActiveShown`,
  `SearchEnds`.
- `NoBlindRepeat`, `RowsAreTrue`, `AtMostOneComment` and `ReplyUnderItsParent` of
  the composition: the violation runs refute the first two for several items with
  lost answers and kills, and what they show can lead to second and misplaced
  Comments, so there is no general theorem; the runs show them where they hold.
- `NeverStranded`, which makes no exception of aborts, is checked in
  `durable_thread`, where no auth rejection occurs; `StrandedOnlyByAbort` is the
  general form.
- `IntentBeforePost` and `StrandedOnlyByAbort` are proved as long as `NoCheckInside`
  holds.  That `durable_one` and `durable_thread` satisfy it is seen from their
  instances: one item, and no ambiguous answer.
- That `raced` (an admission under another lease than its build was made for) is
  the only exception to `FrameMatchesStorage` is proved; that the liveness properties
  hold without it is only checked.

## 5. Not modelled

Several reviews in one database, the in-memory store of tests and the demo,
schema migration (only its result), local review targets, author matching of the
duplicate guard, the picker and its cache, builds for the view and for review
destinations, arena reuse, authentication, thread and Anchor projection, diff
parsing, highlighting, rendering, command line and tools.  `PROJECT.json` gives
the reason for each.

bbr's own code is written in Zig (`src/src/**.zig`).  Nearly all lines of C and
C++ in the repository are vendored: SQLite and the generated tree-sitter parsers
and scanners.  They are third-party code that the Zig code calls, SQLite appears
here as atomic transactions, and the parsers decide colours only.  A share of
modelled lines that counts them says nothing about bbr; the `map` names Zig lines.

## 6. Plan

1. (done) Store, engine, durable driver, runs; the store's theorems.
2. (done) Session loading and replacement, the remote write lane, quit; file
   enrichment with its cache and the Review search.
3. (done) Theorems of the engine, the Sessions, the driver and file enrichment.
4. An abstract specification of a PendingReview (each Draft unpublished, in doubt,
   or published once) that the engine and the driver implement.
5. Engine: `topologicalOrder` and `descendsFrom` against reference definitions,
   cycles included.  Thread and Anchor projection as operators checked against
   references.
6. Several reviews and the single active run of the database; Drafts authored in
   one process while another starts a run; auth profile replacement.
