------------------------------- MODULE Sessions -------------------------------
(***************************************************************************)
(* The Presentation's event loop seen from its Sessions: which PullRequest *)
(* is on the screen, how another view of it (or another PullRequest)       *)
(* replaces it, which remote write owns the one write lane, and how the    *)
(* program drains on quit (src/src/tui/presentation.zig, app.zig).         *)
(*                                                                         *)
(* One thread handles inputs, so every handler is one action.  Workers run *)
(* the commands it issues: what a worker does at Bitbucket is a step of    *)
(* its own between takeCommand and the completion that is handed back.     *)
(* Completions arrive in any order.                                        *)
(*                                                                         *)
(* A Session's data is abstracted to two numbers: seen, how many of the    *)
(* PullRequest's remote writes its load read, and drafts, which version of *)
(* the persisted PendingReview its candidate was built from.  The          *)
(* submission of DurableSubmission.tla is one write here, from its start   *)
(* to its finish.                                                          *)
(***************************************************************************)
EXTENDS Naturals, Sequences, FiniteSets, Queues

CONSTANTS
    Key,            \* the PullRequests
    Slot,           \* the kinds of remote write in play
    None,           \* Zig's null
    MaxIntent,      \* the reviewer asks for no more Sessions than this
    MaxVersion,     \* remote writes applied to one PullRequest
    MaxDrafts       \* changes of one PendingReview, and of the revision

AllSlots == {"edit", "delete", "verdict", "submission"}

Session == [key : Key, epoch : Nat, seen : Nat, drafts : Nat]
Replacement == [intent : Nat, key : Key, cause : {"picker", "refresh", "reconciliation"}]
Operation == [key : Key, epoch : Nat, settled : BOOLEAN, version : Nat]

ASSUME SlotAssumption == Slot \subseteq AllSlots
ASSUME NoneAssumption ==
    None \notin Nat \union Key \union Session \union Replacement \union Operation
ASSUME BoundsAssumption == {MaxIntent, MaxVersion, MaxDrafts} \subseteq Nat

VARIABLES
    published,      \* the Session on the screen
    replacement,    \* the intent that is replacing it
    nextIntent,     \* next_intent
    nextEpoch,      \* next_session_epoch
    commands,       \* the queue of commands no worker has
    issued,         \* the commands workers hold
    lane,           \* durable_comment_edit, _delete, _reviewer_verdict, _submission
    reloadRequired, \* reload_required_epoch
    revision,       \* candidate_review_revision
    drafts,         \* the version of each persisted PendingReview
    remote,         \* the writes applied to each PullRequest at Bitbucket
    shutdown,       \* shutdown_requested
    exited,         \* the loop of app.zig ended
    asked,          \* history: the PullRequest chosen last, unless that failed
    overlapped      \* history: a Draft was linked while a write was under way

vars == <<published, replacement, nextIntent, nextEpoch, commands, issued, lane,
          reloadRequired, revision, drafts, remote, shutdown, exited, asked,
          overlapped>>

-----------------------------------------------------------------------------
\* Commands.  A load reads the PullRequest once (seen is None until then); a
\* prepare builds the candidate of a loaded Session; a write is applied at most
\* once (version is 0 until then); started tells one write of a slot from the next.

Load(i, k) == [type |-> "load", intent |-> i, key |-> k, seen |-> None]
Prepare(i, k, n) == [type |-> "prepare", intent |-> i, key |-> k, seen |-> n,
                     drafts |-> drafts[k], revision |-> revision]
Write(s, k) == [type |-> "write", slot |-> s, key |-> k, version |-> 0,
                started |-> nextIntent]

IsWrite(c) == c.type = "write"

\* removeQueuedSessionLoads
WithoutSessionLoads(q) == Kept(q, {c \in Members(q) : IsWrite(c)})

\* The lane without the operations of the slots P holds of.
Release(P(_)) == [s \in Slot |-> IF lane[s] # None /\ P(s) THEN None ELSE lane[s]]

\* The writes that wait in the lane for their Reconciliation.
IsMutation(s) == s # "submission"
\* Mutant: a reviewer verdict does not count as a remote write.
BusyWithoutVerdict == \E s \in Slot \ {"verdict"} : lane[s] # None

remoteWriteBusy == \E s \in Slot : lane[s] # None

UnderWay(s) == lane[s] # None /\ ~lane[s].settled
AwaitsReconciliation == \E s \in Slot : lane[s] # None /\ lane[s].settled

\* A replacement for key k: the command that loads it supersedes every queued
\* load and candidate, and a new intent every one a worker holds.
Replace(k, cause) ==
    /\ nextIntent' = nextIntent + 1
    /\ replacement' = [intent |-> nextIntent + 1, key |-> k, cause |-> cause]
    /\ commands' = Append(WithoutSessionLoads(commands), Load(nextIntent + 1, k))

queueReconciliation(k) == Replace(k, "reconciliation")
queueRefresh(k) == Replace(k, "refresh")

Init ==
    /\ published = None /\ replacement = None
    /\ nextIntent = 0 /\ nextEpoch = 0
    /\ commands = <<>> /\ issued = {}
    /\ lane = [s \in Slot |-> None]
    /\ reloadRequired = None /\ revision = 0
    /\ drafts = [k \in Key |-> 0] /\ remote = [k \in Key |-> 0]
    /\ shutdown = FALSE /\ exited = FALSE /\ asked = None /\ overlapped = FALSE

Shown(k) == published # None /\ published.key = k

-----------------------------------------------------------------------------
(* What the reviewer asks for.                                             *)

\* Mutant: choosing the PullRequest on the screen only empties the queue.
KeepReplacing(k) ==
    /\ Shown(k)
    /\ nextIntent' = nextIntent + 1
    /\ commands' = WithoutSessionLoads(commands)
    /\ UNCHANGED <<replacement, lane>>

\* Choosing the PullRequest on the screen cancels what was replacing it.
KeepPublished(k) ==
    /\ Shown(k)
    /\ nextIntent' = nextIntent + 1
    /\ replacement' = None
    /\ commands' = WithoutSessionLoads(commands)
    /\ UNCHANGED lane

\* Mutant: a switch leaves the lane to the Reconciliation it superseded.
SwitchKeepsLane(k) ==
    /\ ~Shown(k)
    /\ Replace(k, "picker")
    /\ UNCHANGED lane

\* Choosing another one supersedes a Reconciliation too: the settled write it
\* was for releases the lane.
Switch(k) ==
    /\ ~Shown(k)
    /\ lane' = Release(LAMBDA s : IsMutation(s) /\ lane[s].settled)
    /\ Replace(k, "picker")

choosePullRequest(k) ==
    /\ ~shutdown /\ nextIntent < MaxIntent
    /\ KeepPublished(k) \/ Switch(k)
    /\ asked' = k
    /\ UNCHANGED <<published, nextEpoch, issued, reloadRequired, revision, drafts,
                   remote, shutdown, exited, overlapped>>

Refresh ==
    /\ ~shutdown /\ replacement = None /\ published # None /\ nextIntent < MaxIntent
    /\ queueRefresh(published.key)
    /\ UNCHANGED <<published, nextEpoch, issued, lane, reloadRequired, revision,
                   drafts, remote, shutdown, exited, asked, overlapped>>

\* Drafts of k change in the store, and in the published Session if it shows k.
ChangeDrafts(k) ==
    /\ drafts[k] < MaxDrafts
    /\ drafts' = [drafts EXCEPT ![k] = @ + 1]
    /\ published' = IF Shown(k) THEN [published EXCEPT !.drafts = drafts[k] + 1]
                    ELSE published

\* startCommentEdit, confirmCommentDelete, startReviewerVerdictChange and
\* startSubmissionSelection.  Only edit and delete ask whether the view must be
\* reloaded first.  A submission marks its first Draft submitting.
StartWrite(s) ==
    /\ ~shutdown /\ replacement = None /\ published # None /\ ~remoteWriteBusy
    /\ nextIntent < MaxIntent /\ remote[published.key] < MaxVersion
    /\ s \in {"edit", "delete"} => reloadRequired # published.epoch
    /\ lane' = [lane EXCEPT ![s] = [key |-> published.key, epoch |-> published.epoch,
                                    settled |-> FALSE, version |-> 0]]
    /\ commands' = Append(commands, Write(s, published.key))
    /\ IF IsMutation(s) THEN UNCHANGED <<published, drafts>> ELSE ChangeDrafts(published.key)
    /\ UNCHANGED <<replacement, nextIntent, nextEpoch, issued, reloadRequired,
                   revision, remote, shutdown, exited, asked, overlapped>>

\* The reviewer saves, edits or deletes a Draft of the PullRequest on the screen
\* (the build of the new view has completed), whatever is replacing it.
SaveDraft ==
    /\ ~shutdown /\ published # None
    /\ ChangeDrafts(published.key)
    /\ revision' = revision + 1
    /\ UNCHANGED <<replacement, nextIntent, nextEpoch, commands, issued, lane,
                   reloadRequired, remote, shutdown, exited, asked, overlapped>>

\* The reviewer links a Draft of unknown outcome to its Comment.  The editor is
\* closed by a switch; a Reconciliation may be under way behind it.  The
\* revision stays: the new intent supersedes every candidate.  Nothing asks
\* whether a write is under way: the Reconciliation will take the lane from it.
LinkUnknown ==
    /\ ~shutdown /\ published # None /\ nextIntent < MaxIntent
    /\ replacement # None => replacement.cause = "reconciliation"
    /\ overlapped' = (overlapped \/ \E s \in Slot : IsMutation(s) /\ UnderWay(s))
    /\ ChangeDrafts(published.key)
    /\ queueReconciliation(published.key)
    /\ UNCHANGED <<nextEpoch, issued, lane, reloadRequired, revision, remote,
                   shutdown, exited, asked>>

\* A key or an action while a submission is under way.
KeyDuringSubmission ==
    /\ "submission" \in Slot
    /\ lane["submission"] # None /\ revision < MaxDrafts
    /\ revision' = revision + 1
    /\ UNCHANGED <<published, replacement, nextIntent, nextEpoch, commands, issued,
                   lane, reloadRequired, drafts, remote, shutdown, exited, asked, overlapped>>

requestShutdown ==
    /\ ~shutdown
    /\ shutdown' = TRUE
    /\ replacement' = None
    /\ commands' = WithoutSessionLoads(commands)
    /\ UNCHANGED <<published, nextIntent, nextEpoch, issued, lane, reloadRequired,
                   revision, drafts, remote, exited, asked, overlapped>>

-----------------------------------------------------------------------------
(* Workers.                                                                *)

takeCommand ==
    /\ ~exited /\ commands # <<>>
    /\ issued' = issued \union {Head(commands)}
    /\ commands' = Tail(commands)
    /\ UNCHANGED <<published, replacement, nextIntent, nextEpoch, lane,
                   reloadRequired, revision, drafts, remote, shutdown, exited, asked,
                   overlapped>>

ReadPullRequest(c) ==
    /\ c.type = "load" /\ c.seen = None
    /\ issued' = (issued \ {c}) \union {[c EXCEPT !.seen = remote[c.key]]}
    /\ UNCHANGED remote

ApplyWrite(c) ==
    /\ IsWrite(c) /\ c.version = 0
    /\ remote' = [remote EXCEPT ![c.key] = @ + 1]
    /\ issued' = (issued \ {c}) \union {[c EXCEPT !.version = remote[c.key] + 1]}

AtBitbucket(c) ==
    /\ ReadPullRequest(c) \/ ApplyWrite(c)
    /\ UNCHANGED <<published, replacement, nextIntent, nextEpoch, commands, lane,
                   reloadRequired, revision, drafts, shutdown, exited, asked, overlapped>>

-----------------------------------------------------------------------------
(* Completions.  Each consumes its issued command; launchFailed completes  *)
(* a command that never reached a worker as a failed one.                  *)

consumeCommand(c) == issued' = issued \ {c}

\* Mutant: any answer will do while a Session is being loaded.
AnyAnswer(c) == replacement # None

\* Is the answer for the Session now being loaded?
Current(c) == replacement # None /\ replacement.intent = c.intent

Superseded(c) ==
    /\ ~Current(c)
    /\ UNCHANGED <<published, replacement, nextEpoch, commands, lane, reloadRequired,
                   asked>>

\* failReplacement, which of the lane releases the verdict only; released are
\* the operations its caller destroyed before.
failReplacement(released) ==
    /\ replacement' = None
    /\ lane' = Release(LAMBDA s :
                  /\ replacement.cause = "reconciliation"
                  /\ lane[s].key = replacement.key
                  /\ s \in released \union {"verdict"})
    /\ asked' = IF published = None THEN None ELSE published.key
    /\ UNCHANGED <<published, nextEpoch, commands>>

\* queueCandidateSession: the candidate is built from the Drafts as they are now.
queueCandidateSession(c) ==
    /\ commands' = Append(commands, Prepare(c.intent, replacement.key, c.seen))
    /\ UNCHANGED <<published, replacement, nextEpoch, lane, reloadRequired, asked>>

CandidateFailed ==
    /\ failReplacement({})
    /\ UNCHANGED reloadRequired

\* Mutant: a failed load leaves the replacement pending.
LoadFailureForgotten ==
    UNCHANGED <<published, replacement, nextEpoch, commands, lane, reloadRequired, asked>>

\* A Reconciliation whose load failed: edit and delete release the lane, and the
\* Session they were started from must be reloaded before the next one.
LoadFailed ==
    /\ failReplacement({"edit", "delete"})
    /\ reloadRequired' =
          IF /\ replacement.cause = "reconciliation" /\ Shown(replacement.key)
             /\ \E s \in Slot \intersect {"edit", "delete"} :
                   /\ lane[s] # None /\ lane[s].key = replacement.key
                   /\ lane[s].epoch = published.epoch
          THEN published.epoch ELSE reloadRequired

acceptLoadedSession(c) ==
    /\ c.type = "load"
    /\ consumeCommand(c)
    /\ \/ Superseded(c)
       \/ Current(c) /\ LoadFailed
       \/ Current(c) /\ c.seen # None /\ (queueCandidateSession(c) \/ CandidateFailed)
    /\ UNCHANGED <<nextIntent, revision, drafts, remote, shutdown, exited, overlapped>>

\* Mutant: a candidate is never checked again.
NeverStale(c) == FALSE

\* Was the candidate built from Drafts that changed since?
Stale(c) == c.revision # revision

Publish(c) ==
    /\ published' = [key |-> replacement.key, epoch |-> nextEpoch + 1,
                     seen |-> c.seen, drafts |-> c.drafts]
    /\ nextEpoch' = nextEpoch + 1
    /\ reloadRequired' = None
    /\ replacement' = None
    /\ lane' = Release(LAMBDA s :
                  /\ replacement.cause = "reconciliation"
                  /\ lane[s].key = replacement.key /\ IsMutation(s))
    /\ UNCHANGED <<commands, asked>>

acceptPreparedSession(c) ==
    /\ c.type = "prepare"
    /\ consumeCommand(c)
    /\ \/ Superseded(c)
       \/ /\ Current(c) /\ ~shutdown
          /\ \/ CandidateFailed
             \/ Stale(c) /\ queueCandidateSession(c)
             \/ ~Stale(c) /\ Publish(c)
    /\ UNCHANGED <<nextIntent, revision, drafts, remote, shutdown, exited, overlapped>>

\* Mutant: the screen, the replacement under way and quit do not matter.
SettleAnywhere(c, visible) ==
    /\ lane' = [lane EXCEPT ![c.slot].settled = TRUE, ![c.slot].version = c.version]
    /\ queueReconciliation(c.key)

\* A write settled, and its PullRequest is still on the screen: it keeps the
\* lane until the Reconciliation.  Otherwise it releases the lane.
Settle(c, visible) ==
    IF visible
    THEN /\ lane' = [lane EXCEPT ![c.slot].settled = TRUE, ![c.slot].version = c.version]
         /\ queueReconciliation(c.key)
    ELSE /\ lane' = [lane EXCEPT ![c.slot] = None]
         /\ UNCHANGED <<replacement, nextIntent, commands>>

\* Does the lane hold an operation this completion answers?
Owned(c) == lane[c.slot] # None /\ lane[c.slot].key = c.key

WriteFailed(c) ==
    /\ lane' = [lane EXCEPT ![c.slot] = None]
    /\ UNCHANGED <<replacement, nextIntent, commands>>

\* acceptCommentEdit and acceptCommentDelete: an unknown outcome reconciles as a
\* success does.
acceptCommentWrite(c) ==
    /\ c.slot \in {"edit", "delete"} /\ Owned(c)
    /\ \/ c.version = 0 /\ WriteFailed(c)
       \/ Settle(c, ~shutdown /\ Shown(c.key) /\ replacement = None)

\* acceptReviewerVerdict: every result but a success releases the lane, the
\* unresolved one too.  A load of the same PullRequest under way is superseded.
acceptReviewerVerdict(c) ==
    /\ c.slot = "verdict" /\ Owned(c)
    /\ \/ WriteFailed(c)
       \/ /\ c.version # 0
          /\ Settle(c, /\ ~shutdown /\ Shown(c.key)
                       /\ replacement # None => replacement.key = c.key)

\* The completion of a write that lost the lane is ignored.  That of a verdict is
\* not even consumed: nobody takes it out of issued_commands any more.
IgnoreWrite(c) ==
    /\ IsMutation(c.slot) /\ ~Owned(c)
    /\ issued' = (issued \ {c}) \union
                    (IF c.slot = "verdict" THEN {[c EXCEPT !.type = "unconsumed"]} ELSE {})
    /\ UNCHANGED <<replacement, nextIntent, commands, lane>>

AcceptWrite(c) ==
    /\ IsWrite(c)
    /\ \/ (acceptCommentWrite(c) \/ acceptReviewerVerdict(c)) /\ consumeCommand(c)
       \/ IgnoreWrite(c)
    /\ UNCHANGED <<published, nextEpoch, reloadRequired, revision, drafts, remote,
                   shutdown, exited, asked, overlapped>>

\* A completion of the submission that does not finish it: a Draft's state was
\* persisted and the next command of the run is queued (here: the same one).
SubmissionProgress(c) ==
    /\ IsWrite(c) /\ c.slot = "submission"
    /\ ChangeDrafts(c.key)
    /\ revision' = revision + 1
    /\ UNCHANGED <<replacement, nextIntent, nextEpoch, commands, issued, lane,
                   reloadRequired, remote, shutdown, exited, asked, overlapped>>

\* The run finished: it leaves the lane before the Reconciliation that shows
\* what it posted.
SubmissionFinished(c) ==
    /\ IsWrite(c) /\ c.slot = "submission"
    /\ consumeCommand(c)
    /\ lane' = [lane EXCEPT !["submission"] = None]
    /\ revision' = revision + 1
    /\ IF c.version # 0 /\ ~shutdown /\ replacement = None /\ Shown(c.key)
       THEN queueReconciliation(c.key)
       ELSE UNCHANGED <<replacement, nextIntent, commands>>
    /\ drafts' = [drafts EXCEPT ![c.key] = @ + 1]
    /\ published' = IF Shown(c.key) THEN [published EXCEPT !.drafts = drafts[c.key] + 1]
                    ELSE published
    /\ UNCHANGED <<nextEpoch, reloadRequired, remote, shutdown, exited, asked, overlapped>>

readyToExit ==
    /\ shutdown /\ ~remoteWriteBusy
    /\ commands = <<>> /\ issued = {}

Exit ==
    /\ readyToExit /\ ~exited
    /\ exited' = TRUE
    /\ UNCHANGED <<published, replacement, nextIntent, nextEpoch, commands, issued,
                   lane, reloadRequired, revision, drafts, remote, shutdown, asked,
                   overlapped>>

Complete ==
    \E c \in issued :
        \/ acceptLoadedSession(c) \/ acceptPreparedSession(c)
        \/ AcceptWrite(c) \/ SubmissionFinished(c)

Next ==
    \/ \E k \in Key : choosePullRequest(k)
    \/ Refresh
    \/ \E s \in Slot : StartWrite(s)
    \/ SaveDraft \/ LinkUnknown \/ KeyDuringSubmission
    \/ requestShutdown
    \/ takeCommand
    \/ \E c \in issued : AtBitbucket(c)
    \/ \E c \in issued : SubmissionProgress(c)
    \/ Complete
    \/ Exit

\* The loop drains its queue after every input, and every worker answers:
\* requests have a timeout, and a launch that fails is answered at once.
Fairness == WF_vars(takeCommand) /\ WF_vars(Complete) /\ WF_vars(Exit)

Spec == Init /\ [][Next]_vars /\ Fairness

-----------------------------------------------------------------------------
(* Properties.                                                             *)

InFlight == issued \union Members(commands)
WriteFor(s) == {c \in InFlight : IsWrite(c) /\ c.slot = s}

\* One remote write at a time over edit, delete, verdict and submission, across
\* switches of the PullRequest and quit: no two of them own the lane, and no two
\* requests that write are queued or with a worker.
OneRemoteWriter ==
    /\ \A s, t \in Slot : lane[s] # None /\ lane[t] # None => s = t
    /\ \A c, d \in InFlight : IsWrite(c) /\ IsWrite(d) => c = d

\* While no Draft was linked during a write, refreshes, switches, failures, late
\* answers and the Reconciliations of the writes themselves never let a second
\* write in, and the commands that write are exactly those of the owner that has
\* no outcome yet: a lost command would refuse every later write and keep quit
\* from ending.
LaneIsExclusive ==
    ~overlapped =>
        /\ OneRemoteWriter
        /\ \A s \in Slot :
            /\ UnderWay(s) <=> WriteFor(s) # {}
            /\ \A c \in WriteFor(s) : c.key = lane[s].key

\* A write that waits for its Reconciliation is about the PullRequest on the
\* screen: switching away never leaves the lane waiting for a Session nobody
\* will load.
SettledIsShown ==
    \A s \in Slot : lane[s] # None /\ lane[s].settled => Shown(lane[s].key)

\* The Session on the screen shows the Drafts as they are persisted, although a
\* candidate is built from a snapshot while submissions, saves and links go on
\* changing them.  Left out is the one change that candidate_review_revision does not
\* count: recoverSubmission completes a run without a current item with no driver.
ShownDraftsCurrent == published # None => published.drafts = drafts[published.key]

\* What is published is what the reviewer chose last, whatever the order in
\* which loads, candidates and writes complete; a choice whose load failed counts
\* for nothing.
LastChoiceWins == [][nextEpoch' # nextEpoch => published'.key = asked]_vars

\* A publication that releases a settled write from the lane shows that write:
\* its load read the PullRequest after Bitbucket applied the write.
ReconciliationShowsTheWrite ==
    [][nextEpoch' # nextEpoch =>
          \A s \in Slot : lane[s] # None /\ lane[s].settled /\ lane'[s] = None
                              => published'.seen >= lane[s].version]_vars

\* A replacement ends: published, failed or given up.
ReplacementEnds == (replacement # None) ~> (replacement = None)

\* Quit ends the program once the writes under way have settled, if none of them
\* was waiting for its Reconciliation when the reviewer quit, and none had lost
\* the lane.
QuitDrains == (shutdown /\ ~AwaitsReconciliation /\ ~overlapped) ~> exited

\* Quit always ends the program, as the contract of the remote mutations says
\* ("ordinary quit drains it").
ShutdownDrains == shutdown ~> exited
=============================================================================
