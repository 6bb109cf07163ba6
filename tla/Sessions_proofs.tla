--------------------------- MODULE Sessions_proofs ---------------------------
(* Proofs about Sessions, for every value of its constants. *)
EXTENDS Sessions, Queues_proofs

-----------------------------------------------------------------------------
(* The queue of commands *)

\* At most one position of the queue holds a write.
OneWrite(q) == \A i, j \in 1..Len(q) : IsWrite(q[i]) /\ IsWrite(q[j]) => i = j

\* A worker takes the first command.
LEMMA TailMembers ==
    ASSUME NEW S, NEW q \in Seq(S), q # <<>>
    PROVE  /\ Tail(q) \in Seq(S) /\ Head(q) \in S
           /\ Members(q) = {Head(q)} \cup Members(Tail(q))
           /\ OneWrite(q) => /\ OneWrite(Tail(q))
                             /\ IsWrite(Head(q)) => \A c \in Members(Tail(q)) : ~IsWrite(c)
<1>1. /\ Tail(q) \in Seq(S) /\ Head(q) \in S /\ Len(q) \in Nat /\ Len(q) # 0
      /\ Len(Tail(q)) = Len(q) - 1 /\ Head(q) = q[1]
      /\ \A i \in 1..Len(Tail(q)) : Tail(q)[i] = q[i + 1]
  OBVIOUS
<1>2. Members(q) = {Head(q)} \cup Members(Tail(q))
  <2>1. ASSUME NEW i \in 1..Len(q) PROVE q[i] \in {Head(q)} \cup Members(Tail(q))
    <3>1. CASE i = 1
      BY <1>1, <3>1
    <3>2. CASE i # 1
      <4>1. i - 1 \in 1..Len(Tail(q)) /\ Tail(q)[i - 1] = q[i]
        BY <1>1, <3>2
      <4> QED BY <4>1 DEF Members
    <3> QED BY <3>1, <3>2
  <2>2. ASSUME NEW i \in 1..Len(Tail(q)) PROVE Tail(q)[i] \in Members(q)
    <3>1. i + 1 \in 1..Len(q)
      BY <1>1
    <3> QED BY <1>1, <3>1 DEF Members
  <2>3. Head(q) \in Members(q)
    BY <1>1 DEF Members
  <2> QED BY <2>1, <2>2, <2>3 DEF Members
<1>3. ASSUME OneWrite(q)
      PROVE  /\ OneWrite(Tail(q))
             /\ IsWrite(Head(q)) => \A c \in Members(Tail(q)) : ~IsWrite(c)
  <2>1. \A i \in 1..Len(Tail(q)) : i + 1 \in 1..Len(q) /\ i + 1 # 1
    BY <1>1
  <2>2. 1 \in 1..Len(q)
    BY <1>1
  <2> QED BY <1>1, <1>3, <2>1, <2>2 DEF OneWrite, Members
<1> QED BY <1>1, <1>2, <1>3

\* removeQueuedSessionLoads keeps exactly the writes.
LEMMA WritesStay ==
    ASSUME NEW S, NEW q \in Seq(S)
    PROVE  /\ WithoutSessionLoads(q) \in Seq(S)
           /\ Members(WithoutSessionLoads(q)) = {c \in Members(q) : IsWrite(c)}
           /\ OneWrite(q) => OneWrite(WithoutSessionLoads(q))
<1> DEFINE W == {c \in Members(q) : IsWrite(c)}
<1> DEFINE w == Kept(q, W)
<1>1. /\ w \in Seq(S) /\ Members(w) = Members(q) \cap W
      /\ \A i1, i2 \in 1..Len(w) : i1 < i2 =>
            \E j1, j2 \in 1..Len(q) : j1 < j2 /\ w[i1] = q[j1] /\ w[i2] = q[j2]
  <2> HIDE DEF W
  <2> QED BY KeptIs
<1>2. WithoutSessionLoads(q) = w
  BY DEF WithoutSessionLoads
<1> HIDE DEF w
<1>3. \A i \in 1..Len(w) : IsWrite(w[i])
  BY <1>1 DEF Members
<1>4. ASSUME OneWrite(q), NEW i1 \in 1..Len(w), NEW i2 \in 1..Len(w), i1 < i2
      PROVE  FALSE
  <2>1. PICK j1 \in 1..Len(q), j2 \in 1..Len(q) : j1 < j2 /\ w[i1] = q[j1] /\ w[i2] = q[j2]
    BY <1>1, <1>4
  <2> QED BY <1>3, <1>4, <2>1 DEF OneWrite
<1>5. \A i, j \in 1..Len(w) : i = j \/ i < j \/ j < i
  BY <1>1
<1>6. OneWrite(q) => OneWrite(w)
  BY <1>4, <1>5 DEF OneWrite
<1>7. Members(w) = {c \in Members(q) : IsWrite(c)}
  BY <1>1
<1> QED BY <1>1, <1>2, <1>6, <1>7

-----------------------------------------------------------------------------
(* The inductive invariant *)

SessionCommand ==
    [type : {"load"}, intent : Nat, key : Key, seen : Nat \cup {None}] \cup
    [type : {"prepare"}, intent : Nat, key : Key, seen : Nat, drafts : Nat, revision : Nat]
WriteCommand ==
    [type : {"write", "unconsumed"}, slot : Slot, key : Key, version : Nat, started : Nat]
Command == SessionCommand \cup WriteCommand

TypeOK ==
    /\ published \in Session \cup {None}
    /\ replacement \in Replacement \cup {None}
    /\ nextIntent \in Nat /\ nextEpoch \in Nat
    /\ commands \in Seq(Command) /\ issued \in SUBSET Command
    /\ lane \in [Slot -> Operation \cup {None}]
    /\ reloadRequired \in Nat \cup {None} /\ revision \in Nat
    /\ drafts \in [Key -> Nat] /\ remote \in [Key -> Nat]
    /\ shutdown \in BOOLEAN /\ exited \in BOOLEAN /\ overlapped \in BOOLEAN
    /\ asked \in Key \cup {None}

Settled(s) == lane[s] # None /\ lane[s].settled

\* The loads and candidates queued or with a worker.
SessionLoads == {c \in InFlight : c.type \in {"load", "prepare"}}

\* An intent is never handed out twice, so that an old answer is not taken for
\* that of a newer choice; the answer of the current intent is about its key.
IntentsFresh ==
    /\ replacement # None => replacement.intent <= nextIntent
    /\ \A c \in SessionLoads :
          /\ c.intent <= nextIntent
          /\ Current(c) => c.key = replacement.key

\* What replaces the Session on the screen is what was chosen last: another
\* PullRequest for the picker, the one shown otherwise; quit gave it up.
ReplacementIsAsked ==
    /\ replacement # None =>
          /\ ~shutdown /\ asked = replacement.key
          /\ replacement.cause = "picker" <=> ~Shown(replacement.key)
    /\ replacement = None /\ published # None /\ ~shutdown => asked = published.key

\* A candidate no revision has overtaken holds the Drafts as they are.
CandidatesCurrent ==
    \A c \in SessionLoads : c.type = "prepare" =>
        /\ c.revision <= revision
        /\ Current(c) /\ c.revision = revision => c.drafts = drafts[c.key]

\* What waits for a Reconciliation: never a submission, never behind a switch.
SettledWaits ==
    \A s \in Slot : Settled(s) =>
        /\ IsMutation(s)
        /\ replacement # None => replacement.cause # "picker"

\* The versions a write carries are of the past, and the load under way has read
\* past those that settled.
ReadAfterWrite ==
    /\ \A c \in InFlight : IsWrite(c) => c.version <= remote[c.key]
    /\ \A s \in Slot : Settled(s) =>
          /\ lane[s].version <= remote[lane[s].key]
          /\ \A c \in SessionLoads : Current(c) /\ c.seen # None => lane[s].version <= c.seen

\* No command of a write is held twice, and the Reconciliation of one write takes
\* the lane from no other.
NoOverlap ==
    ~overlapped =>
        /\ OneWrite(commands)
        /\ \A c \in issued, d \in Members(commands) : ~(IsWrite(c) /\ IsWrite(d))
        /\ replacement # None /\ replacement.cause = "reconciliation" =>
              \A s \in Slot : IsMutation(s) => ~UnderWay(s)

IInv ==
    /\ TypeOK /\ IntentsFresh /\ ReplacementIsAsked /\ CandidatesCurrent
    /\ SettledWaits /\ SettledIsShown /\ ShownDraftsCurrent /\ ReadAfterWrite
    /\ NoOverlap /\ LaneIsExclusive

-----------------------------------------------------------------------------
(* What the parts of a step keep *)

\* The commands that write, queued or with a worker.
Writes == {c \in InFlight : IsWrite(c)}

LEMMA InFlightIs ==
    /\ InFlight = issued \cup Members(commands)
    /\ InFlight' = issued' \cup Members(commands')
  BY DEF InFlight, Members

LEMMA InFlightTyped == TypeOK => InFlight \subseteq Command
  BY DEF TypeOK, InFlight, Members

\* Null is none of the records.
LEMMA NoneIsNoRecord ==
    None \notin Nat /\ None \notin Key /\ None \notin Session /\ None \notin Replacement
    /\ None \notin Operation
  BY NoneAssumption

LEMMA CommandShape ==
    ASSUME NEW c \in Command
    PROVE  /\ c.key \in Key
           /\ c.type \in {"load", "prepare", "write", "unconsumed"}
           /\ c.type = "load" => c.intent \in Nat /\ c.seen \in Nat \cup {None}
           /\ c.type = "prepare" => /\ c.intent \in Nat /\ c.seen \in Nat
                                    /\ c.drafts \in Nat /\ c.revision \in Nat
           /\ IsWrite(c) => c.slot \in Slot /\ c.version \in Nat /\ c.started \in Nat
  BY DEF Command, SessionCommand, WriteCommand, IsWrite

LEMMA SessionLoadShape ==
    ASSUME TypeOK, NEW c \in SessionLoads
    PROVE  /\ c \in Command /\ c.key \in Key /\ c.intent \in Nat
           /\ c.type \in {"load", "prepare"} /\ ~IsWrite(c)
           /\ c.type = "prepare" => c.revision \in Nat /\ c.drafts \in Nat /\ c.seen \in Nat
<1>1. c \in Command /\ c.type \in {"load", "prepare"}
  BY InFlightTyped DEF SessionLoads
<1> QED BY <1>1, CommandShape DEF IsWrite

\* A new intent: no answer queued or with a worker is for it, except the load
\* that is queued with it.
LEMMA NewIntent ==
    ASSUME IInv, TypeOK', nextIntent' = nextIntent + 1,
           replacement' # None => replacement'.intent = nextIntent + 1,
           \A c \in SessionLoads' :
               \/ c \in SessionLoads
               \/ replacement' # None /\ c = Load(nextIntent + 1, replacement'.key),
           revision <= revision'
    PROVE  /\ IntentsFresh' /\ CandidatesCurrent'
           /\ \A c \in SessionLoads' : (Current(c))' => c.seen = None
<1>1. ASSUME NEW c \in SessionLoads PROVE c.intent \in Nat /\ c.intent <= nextIntent
  <2>1. TypeOK /\ IntentsFresh
    BY DEF IInv
  <2> QED BY <2>1, SessionLoadShape DEF IntentsFresh
<1>2. \A c \in SessionLoads' :
          /\ c.intent <= nextIntent'
          /\ (Current(c))' => replacement' # None /\ c = Load(nextIntent + 1, replacement'.key)
  BY <1>1 DEF Current, Load, IInv, TypeOK
<1>3. \A c \in SessionLoads' : c.type = "prepare" => c.revision <= revision' /\ ~(Current(c))'
  <2> TAKE c \in SessionLoads'
  <2> HAVE c.type = "prepare"
  <2>1. c \in SessionLoads /\ c.revision \in Nat /\ c.revision <= revision
    BY SessionLoadShape DEF IInv, CandidatesCurrent, Load
  <2> QED BY <1>2, <2>1 DEF IInv, TypeOK, Load
<1>4. IntentsFresh'
  BY <1>2 DEF IntentsFresh, Load, IInv, TypeOK
<1>5. CandidatesCurrent'
  BY <1>3 DEF CandidatesCurrent
<1>6. \A c \in SessionLoads' : (Current(c))' => c.seen = None
  BY <1>2 DEF Load
<1> QED BY <1>4, <1>5, <1>6

\* The same intent, or none: the answers left are as current as they were.
LEMMA SameIntent ==
    ASSUME IInv, TypeOK', nextIntent' = nextIntent, replacement' \in {replacement, None},
           SessionLoads' \subseteq SessionLoads,
           \/ revision' = revision /\ drafts' = drafts
           \/ revision' = revision + 1
           \/ revision' = revision /\ replacement' = None
    PROVE  /\ IntentsFresh' /\ CandidatesCurrent'
           /\ \A c \in SessionLoads' : (Current(c))' => c \in SessionLoads /\ Current(c)
<1>1. IntentsFresh'
  BY DEF IInv, IntentsFresh, Current
<1>2. CandidatesCurrent'
  <2> SUFFICES ASSUME NEW c \in SessionLoads', c.type = "prepare"
               PROVE  /\ c.revision <= revision'
                      /\ (Current(c))' /\ c.revision = revision' => c.drafts = drafts'[c.key]
    BY DEF CandidatesCurrent
  <2>1. /\ c.revision \in Nat /\ c.revision <= revision /\ revision \in Nat
        /\ Current(c) /\ c.revision = revision => c.drafts = drafts[c.key]
    BY SessionLoadShape DEF IInv, CandidatesCurrent, TypeOK
  <2>2. (Current(c))' => Current(c) /\ replacement' # None
    BY DEF Current
  <2> QED BY <2>1, <2>2
<1>3. \A c \in SessionLoads' : (Current(c))' => c \in SessionLoads /\ Current(c)
  BY DEF Current
<1> QED BY <1>1, <1>2, <1>3

\* Replace(k, cause): the queue keeps its writes and gets the load of k.
ReplaceResult(k, cause) ==
    /\ commands' \in Seq(Command)
    /\ Members(commands') = {c \in Members(commands) : IsWrite(c)} \cup {Load(nextIntent + 1, k)}
    /\ OneWrite(commands) => OneWrite(commands')
    /\ nextIntent' = nextIntent + 1
    /\ replacement' = [intent |-> nextIntent + 1, key |-> k, cause |-> cause]
    /\ replacement' \in Replacement /\ replacement' # None

LEMMA ReplaceQueue ==
    ASSUME TypeOK, NEW k \in Key, NEW cause \in {"picker", "refresh", "reconciliation"},
           Replace(k, cause)
    PROVE  ReplaceResult(k, cause)
<1> DEFINE w == WithoutSessionLoads(commands)
<1> DEFINE l == Load(nextIntent + 1, k)
<1>1. l \in Command /\ ~IsWrite(l)
  BY DEF TypeOK, Load, Command, SessionCommand, IsWrite
<1>2. /\ w \in Seq(Command) /\ Members(w) = {c \in Members(commands) : IsWrite(c)}
      /\ OneWrite(commands) => OneWrite(w)
  BY WritesStay DEF TypeOK
<1>3. commands' = Append(w, l)
  BY DEF Replace
<1>4. OneWrite(w) => OneWrite(Append(w, l))
  <2> HIDE DEF w, l
  <2> QED BY <1>1, <1>2 DEF OneWrite
<1>5. /\ replacement' = [intent |-> nextIntent + 1, key |-> k, cause |-> cause]
      /\ replacement' \in Replacement /\ replacement' # None
  BY NoneIsNoRecord DEF Replace, Replacement, TypeOK
<1>6. nextIntent' = nextIntent + 1
  BY DEF Replace
<1>7. /\ commands' \in Seq(Command)
      /\ Members(commands') = {c \in Members(commands) : IsWrite(c)} \cup {l}
  <2> HIDE DEF w, l
  <2> QED BY <1>1, <1>2, <1>3, AppendMembers
<1> HIDE DEF w
<1> QED BY <1>2, <1>3, <1>4, <1>5, <1>6, <1>7 DEF ReplaceResult

\* No answer is for the new intent yet.
LEMMA ReplaceIntents ==
    ASSUME IInv, NEW k, NEW cause, ReplaceResult(k, cause), TypeOK',
           issued' \subseteq issued, revision <= revision'
    PROVE  /\ IntentsFresh' /\ CandidatesCurrent'
           /\ \A c \in SessionLoads' : (Current(c))' => c.seen = None
<1>1. \A c \in SessionLoads' :
          \/ c \in SessionLoads
          \/ replacement' # None /\ c = Load(nextIntent + 1, replacement'.key)
  BY InFlightIs DEF ReplaceResult, SessionLoads, IsWrite
<1>2. nextIntent' = nextIntent + 1 /\ (replacement' # None => replacement'.intent = nextIntent + 1)
  BY DEF ReplaceResult
<1> QED BY <1>1, <1>2, NewIntent

\* The queued writes are the same.
LEMMA WritesOfReplace ==
    ASSUME NEW k, NEW cause, ReplaceResult(k, cause), issued' = issued
    PROVE  Writes' = Writes
  BY InFlightIs DEF ReplaceResult, Writes, IsWrite, Load

\* The lane stays exclusive when the writes stay and only settled owners leave.
LEMMA ExclusiveKept ==
    ASSUME IInv, overlapped => overlapped', Writes' = Writes,
           overlapped' \/ \A s \in Slot : lane'[s] = lane[s] \/ (lane'[s] = None /\ ~UnderWay(s))
    PROVE  LaneIsExclusive'
<1> SUFFICES ASSUME ~overlapped', ~overlapped,
                    \A s \in Slot : lane'[s] = lane[s] \/ (lane'[s] = None /\ ~UnderWay(s))
             PROVE  LaneIsExclusive'
  BY DEF LaneIsExclusive
<1>1. /\ \A s, t \in Slot : lane[s] # None /\ lane[t] # None => s = t
      /\ \A c, d \in Writes : c = d
      /\ \A s \in Slot : /\ UnderWay(s) <=> WriteFor(s) # {}
                         /\ \A c \in WriteFor(s) : c.key = lane[s].key
  BY DEF IInv, LaneIsExclusive, OneRemoteWriter, Writes
<1>2. \A s \in Slot : WriteFor(s)' = WriteFor(s)
  <2>1. \A s \in Slot : WriteFor(s) = {c \in Writes : c.slot = s}
    BY DEF WriteFor, Writes
  <2>2. \A s \in Slot : WriteFor(s)' = {c \in Writes' : c.slot = s}
    BY DEF WriteFor, Writes
  <2> QED BY <2>1, <2>2
<1>3. \A s \in Slot : UnderWay(s)' <=> UnderWay(s)
  BY DEF UnderWay
<1>4. \A s \in Slot : UnderWay(s) => lane'[s] = lane[s]
  OBVIOUS
<1>5. OneRemoteWriter'
  <2>1. \A c, d \in Writes' : c = d
    BY <1>1
  <2> QED BY <1>1, <2>1 DEF OneRemoteWriter, Writes
<1> QED BY <1>1, <1>2, <1>3, <1>4, <1>5 DEF LaneIsExclusive

\* Choosing a PullRequest.
LEMMA ChooseStep == ASSUME IInv, NEW k \in Key, choosePullRequest(k) PROVE IInv'
<1> USE DEF choosePullRequest
<1>t. TypeOK /\ nextIntent' = nextIntent + 1 /\ Members(commands) \subseteq Command
  BY DEF IInv, KeepPublished, Switch, Replace, TypeOK, Members
<1>1. CASE KeepPublished(k)
  <2>1. /\ commands' \in Seq(Command)
        /\ Members(commands') = {c \in Members(commands) : IsWrite(c)}
        /\ OneWrite(commands) => OneWrite(commands')
    BY <1>1, <1>t, WritesStay DEF KeepPublished, TypeOK
  <2>2. TypeOK'
    BY <1>t, <1>1, <2>1 DEF KeepPublished, TypeOK
  <2>3. SessionLoads' \subseteq SessionLoads /\ Writes' = Writes
    BY <2>1, InFlightIs DEF SessionLoads, Writes
  <2>4. IntentsFresh' /\ CandidatesCurrent'
    BY <1>t, <1>1, <2>2, <2>3, NewIntent DEF KeepPublished, TypeOK
  <2>5. ReplacementIsAsked' /\ SettledWaits' /\ SettledIsShown' /\ ShownDraftsCurrent'
    BY <1>1 DEF KeepPublished, Shown, IInv, ReplacementIsAsked, SettledWaits, SettledIsShown,
                ShownDraftsCurrent, Settled
  <2>6. ReadAfterWrite'
    <3>1. Writes = {c \in InFlight : IsWrite(c)} /\ Writes' = {c \in InFlight' : IsWrite(c)}
      BY DEF Writes
    <3> QED BY <1>1, <2>3, <3>1 DEF KeepPublished, IInv, ReadAfterWrite, Settled, Current
  <2>7. NoOverlap'
    BY <1>1, <2>1 DEF KeepPublished, IInv, NoOverlap
  <2>8. LaneIsExclusive'
    <3>1. \A s \in Slot : lane'[s] = lane[s] \/ (lane'[s] = None /\ ~UnderWay(s))
      BY <1>1 DEF KeepPublished
    <3> QED BY <2>3, <3>1, ExclusiveKept
  <2> QED BY <2>2, <2>4, <2>5, <2>6, <2>7, <2>8 DEF IInv
<1>2. CASE Switch(k)
  <2>1. Replace(k, "picker") /\ ~Shown(k)
    BY <1>2 DEF Switch
  <2>2. /\ lane' \in [Slot -> Operation \cup {None}]
        /\ \A s \in Slot : lane'[s] = lane[s] \/ (lane'[s] = None /\ ~UnderWay(s))
        /\ \A s \in Slot : lane'[s] # None /\ IsMutation(s) => ~lane'[s].settled
    BY <1>2, <1>t DEF Switch, Release, UnderWay, TypeOK
  <2>3. ReplaceResult(k, "picker")
    BY <1>t, <2>1, ReplaceQueue
  <2>4. TypeOK'
    BY <1>t, <2>2, <2>3 DEF TypeOK, ReplaceResult
  <2>5. /\ IntentsFresh' /\ CandidatesCurrent' /\ Writes' = Writes
        /\ \A c \in SessionLoads' : (Current(c))' => c.seen = None
    BY <1>t, <2>3, <2>4, ReplaceIntents, WritesOfReplace DEF TypeOK
  <2>6. \A s \in Slot : ~Settled(s)'
    BY <2>2 DEF Settled, IInv, SettledWaits
  <2>7. SettledWaits' /\ SettledIsShown'
    BY <2>6 DEF SettledWaits, SettledIsShown, Settled
  <2>8. ReplacementIsAsked' /\ ShownDraftsCurrent'
    BY <2>1, <2>3 DEF Shown, IInv, ReplacementIsAsked, ShownDraftsCurrent, ReplaceResult
  <2>9. ReadAfterWrite'
    BY <2>5, <2>6 DEF IInv, ReadAfterWrite, Writes
  <2>10. NoOverlap'
    BY <2>3 DEF IInv, NoOverlap, ReplaceResult, IsWrite, Load
  <2>11. LaneIsExclusive'
    BY <2>2, <2>5, ExclusiveKept
  <2> QED BY <2>4, <2>5, <2>7, <2>8, <2>9, <2>10, <2>11 DEF IInv
<1> QED BY <1>1, <1>2

\* Refreshing the Session on the screen.
LEMMA RefreshStep == ASSUME IInv, Refresh PROVE IInv'
<1>1. TypeOK /\ published.key \in Key
  BY DEF IInv, TypeOK, Refresh, Session
<1>2. ReplaceResult(published.key, "refresh")
  BY <1>1, ReplaceQueue DEF Refresh, queueRefresh
<1>3. TypeOK'
  BY <1>1, <1>2 DEF TypeOK, ReplaceResult, Refresh
<1>4. /\ IntentsFresh' /\ CandidatesCurrent' /\ Writes' = Writes
      /\ \A c \in SessionLoads' : (Current(c))' => c.seen = None
  <2>1. issued' = issued /\ issued' \subseteq issued /\ revision <= revision'
    BY <1>1 DEF TypeOK, Refresh
  <2> QED BY <1>2, <1>3, <2>1, ReplaceIntents, WritesOfReplace
<1>5. SettledWaits' /\ SettledIsShown'
  BY <1>2 DEF Refresh, ReplaceResult, IInv, SettledWaits, SettledIsShown, Settled, Shown
<1>6. ReplacementIsAsked' /\ ShownDraftsCurrent'
  BY <1>2 DEF Refresh, ReplaceResult, Shown, IInv, ReplacementIsAsked, ShownDraftsCurrent
<1>7. ReadAfterWrite'
  BY <1>4 DEF Refresh, IInv, ReadAfterWrite, Writes, Settled
<1>8. NoOverlap'
  BY <1>2 DEF Refresh, IInv, NoOverlap, ReplaceResult, IsWrite, Load
<1>9. LaneIsExclusive'
  <2>1. \A s \in Slot : lane'[s] = lane[s]
    BY DEF Refresh
  <2> QED BY <1>4, <2>1, ExclusiveKept DEF Refresh
<1> QED BY <1>3, <1>4, <1>5, <1>6, <1>7, <1>8, <1>9 DEF IInv

\* Changing the Drafts of the PullRequest on the screen.
LEMMA DraftsChanged ==
    ASSUME IInv, NEW k \in Key, ChangeDrafts(k)
    PROVE  /\ drafts' \in [Key -> Nat] /\ published' \in Session \cup {None}
           /\ published' = None <=> published = None
           /\ published # None => /\ published'.key = published.key
                                  /\ published'.epoch = published.epoch
           /\ ShownDraftsCurrent'
<1>1. drafts \in [Key -> Nat] /\ published \in Session \cup {None} /\ ShownDraftsCurrent
  BY DEF IInv, TypeOK
<1>2. CASE ~Shown(k)
  BY <1>1, <1>2 DEF ChangeDrafts, Shown, ShownDraftsCurrent, Session
<1>3. CASE Shown(k)
  <2>1. published \in Session /\ published.key = k
    BY <1>1, <1>3 DEF Shown
  <2>2. /\ published' = [published EXCEPT !.drafts = drafts[k] + 1]
        /\ drafts' = [drafts EXCEPT ![k] = drafts[k] + 1]
    BY <1>3 DEF ChangeDrafts
  <2>3. published' \in Session /\ published'.key = k /\ published'.drafts = drafts[k] + 1
        /\ published'.epoch = published.epoch
    BY <1>1, <2>1, <2>2 DEF Session
  <2>4. published' # None /\ published # None
    BY <2>1, <2>3, NoneIsNoRecord
  <2> QED BY <1>1, <2>1, <2>2, <2>3, <2>4 DEF ShownDraftsCurrent
<1> QED BY <1>2, <1>3

\* The Session keeps its PullRequest: what depends on that alone is kept.
LEMMA SameScreen ==
    ASSUME IInv, published' = None <=> published = None,
           published # None => published'.key = published.key,
           UNCHANGED <<replacement, lane, shutdown, asked>>
    PROVE  ReplacementIsAsked' /\ SettledWaits' /\ SettledIsShown'
<1>1. \A k : Shown(k)' <=> Shown(k)
  BY DEF Shown
<1>2. ReplacementIsAsked'
  BY <1>1 DEF IInv, ReplacementIsAsked
<1>3. SettledWaits' /\ SettledIsShown'
  BY <1>1 DEF IInv, SettledWaits, SettledIsShown, Settled
<1> QED BY <1>2, <1>3

\* The lane, the commands and the replacement do not move.
LEMMA SameLane ==
    ASSUME IInv, UNCHANGED <<replacement, commands, issued, lane, remote, overlapped>>
    PROVE  ReadAfterWrite' /\ NoOverlap' /\ LaneIsExclusive' /\ SessionLoads' = SessionLoads
<1>1. InFlight' = InFlight /\ SessionLoads' = SessionLoads /\ Writes' = Writes
  BY DEF InFlight, SessionLoads, Writes
<1>2. ReadAfterWrite'
  BY <1>1 DEF IInv, ReadAfterWrite, Settled, Current
<1>3. NoOverlap'
  BY DEF IInv, NoOverlap, UnderWay
<1>4. LaneIsExclusive'
  <2>1. \A s \in Slot : lane'[s] = lane[s]
    OBVIOUS
  <2> QED BY <1>1, <2>1, ExclusiveKept
<1> QED BY <1>1, <1>2, <1>3, <1>4

\* Saving, editing or deleting a Draft.
LEMMA SaveDraftStep == ASSUME IInv, SaveDraft PROVE IInv'
<1>1. TypeOK /\ published.key \in Key
  BY DEF IInv, TypeOK, SaveDraft, Session
<1>2. /\ drafts' \in [Key -> Nat] /\ published' \in Session \cup {None}
      /\ published' = None <=> published = None
      /\ published # None => published'.key = published.key
      /\ ShownDraftsCurrent'
  BY <1>1, DraftsChanged DEF SaveDraft
<1>3. TypeOK'
  BY <1>1, <1>2 DEF TypeOK, SaveDraft
<1>4. ReplacementIsAsked' /\ SettledWaits' /\ SettledIsShown'
  BY <1>2, SameScreen DEF SaveDraft
<1>5. ReadAfterWrite' /\ NoOverlap' /\ LaneIsExclusive' /\ SessionLoads' = SessionLoads
  BY SameLane DEF SaveDraft
<1>6. IntentsFresh' /\ CandidatesCurrent'
  BY <1>3, <1>5, SameIntent DEF SaveDraft
<1> QED BY <1>2, <1>3, <1>4, <1>5, <1>6 DEF IInv

\* A key while a submission is under way.
LEMMA KeyStep == ASSUME IInv, KeyDuringSubmission PROVE IInv'
<1>1. TypeOK'
  BY DEF IInv, TypeOK, KeyDuringSubmission
<1>2. ReplacementIsAsked' /\ SettledWaits' /\ SettledIsShown'
  BY SameScreen DEF KeyDuringSubmission
<1>3. ReadAfterWrite' /\ NoOverlap' /\ LaneIsExclusive' /\ SessionLoads' = SessionLoads
  BY SameLane DEF KeyDuringSubmission
<1>4. IntentsFresh' /\ CandidatesCurrent'
  BY <1>1, <1>3, SameIntent DEF KeyDuringSubmission
<1>5. ShownDraftsCurrent'
  BY DEF IInv, ShownDraftsCurrent, KeyDuringSubmission
<1> QED BY <1>1, <1>2, <1>3, <1>4, <1>5 DEF IInv

\* A completion of the submission that does not finish it.
LEMMA ProgressStep == ASSUME IInv, NEW c \in issued, SubmissionProgress(c) PROVE IInv'
<1>1. TypeOK /\ c.key \in Key
  BY CommandShape DEF IInv, TypeOK
<1>2. /\ drafts' \in [Key -> Nat] /\ published' \in Session \cup {None}
      /\ published' = None <=> published = None
      /\ published # None => published'.key = published.key
      /\ ShownDraftsCurrent'
  BY <1>1, DraftsChanged DEF SubmissionProgress
<1>3. TypeOK'
  BY <1>1, <1>2 DEF TypeOK, SubmissionProgress
<1>4. ReplacementIsAsked' /\ SettledWaits' /\ SettledIsShown'
  BY <1>2, SameScreen DEF SubmissionProgress
<1>5. ReadAfterWrite' /\ NoOverlap' /\ LaneIsExclusive' /\ SessionLoads' = SessionLoads
  BY SameLane DEF SubmissionProgress
<1>6. IntentsFresh' /\ CandidatesCurrent'
  BY <1>3, <1>5, SameIntent DEF SubmissionProgress
<1> QED BY <1>2, <1>3, <1>4, <1>5, <1>6 DEF IInv

\* Linking a Draft of unknown outcome starts a Reconciliation.
LEMMA LinkStep == ASSUME IInv, LinkUnknown PROVE IInv'
<1>1. TypeOK /\ published.key \in Key /\ published # None
  BY DEF IInv, TypeOK, LinkUnknown, Session
<1>2. ReplaceResult(published.key, "reconciliation")
  BY <1>1, ReplaceQueue DEF LinkUnknown, queueReconciliation
<1>3. /\ drafts' \in [Key -> Nat] /\ published' \in Session \cup {None}
      /\ published' # None /\ published'.key = published.key
      /\ ShownDraftsCurrent'
  BY <1>1, DraftsChanged DEF LinkUnknown
<1>4. TypeOK'
  BY <1>1, <1>2, <1>3 DEF TypeOK, ReplaceResult, LinkUnknown
<1>5. /\ IntentsFresh' /\ CandidatesCurrent' /\ Writes' = Writes
      /\ \A c \in SessionLoads' : (Current(c))' => c.seen = None
  <2>1. issued' = issued /\ issued' \subseteq issued /\ revision <= revision'
    BY <1>1 DEF TypeOK, LinkUnknown
  <2> QED BY <1>2, <1>4, <2>1, ReplaceIntents, WritesOfReplace
<1>6. SettledWaits' /\ SettledIsShown'
  BY <1>2, <1>3 DEF LinkUnknown, ReplaceResult, IInv, SettledWaits, SettledIsShown, Settled, Shown
<1>7. ReplacementIsAsked'
  <2>1. asked = published.key
    BY <1>1 DEF LinkUnknown, IInv, ReplacementIsAsked, Shown
  <2> QED BY <1>1, <1>2, <1>3, <2>1 DEF LinkUnknown, ReplaceResult, Shown, ReplacementIsAsked
<1>8. ReadAfterWrite'
  BY <1>5 DEF LinkUnknown, IInv, ReadAfterWrite, Writes, Settled
<1>9. NoOverlap'
  <2> SUFFICES ASSUME ~overlapped' PROVE NoOverlap'
    BY DEF NoOverlap
  <2>1. ~overlapped /\ \A s \in Slot : IsMutation(s) => ~UnderWay(s)'
    BY DEF LinkUnknown, UnderWay
  <2> QED BY <1>2, <2>1 DEF LinkUnknown, IInv, NoOverlap, ReplaceResult, IsWrite, Load
<1>10. LaneIsExclusive'
  <2>1. (overlapped => overlapped') /\ \A s \in Slot : lane'[s] = lane[s]
    BY DEF LinkUnknown
  <2> QED BY <1>5, <2>1, ExclusiveKept
<1> QED BY <1>3, <1>4, <1>5, <1>6, <1>7, <1>8, <1>9, <1>10 DEF IInv

\* Quit gives up the replacement and the loads nobody has taken.
LEMMA ShutdownStep == ASSUME IInv, requestShutdown PROVE IInv'
<1>1. TypeOK
  BY DEF IInv
<1>2. /\ commands' \in Seq(Command)
      /\ Members(commands') = {c \in Members(commands) : IsWrite(c)}
      /\ OneWrite(commands) => OneWrite(commands')
  BY <1>1, WritesStay DEF requestShutdown, TypeOK
<1>3. TypeOK'
  BY <1>1, <1>2 DEF requestShutdown, TypeOK
<1>4. SessionLoads' \subseteq SessionLoads /\ Writes' = Writes
  BY <1>2, InFlightIs DEF requestShutdown, SessionLoads, Writes
<1>5. IntentsFresh' /\ CandidatesCurrent'
  BY <1>3, <1>4, SameIntent DEF requestShutdown
<1>6. ReplacementIsAsked' /\ SettledWaits' /\ SettledIsShown' /\ ShownDraftsCurrent'
  BY DEF requestShutdown, Shown, IInv, ReplacementIsAsked, SettledWaits, SettledIsShown,
         ShownDraftsCurrent, Settled
<1>7. ReadAfterWrite'
  BY <1>4 DEF requestShutdown, IInv, ReadAfterWrite, Settled, Current, Writes
<1>8. NoOverlap'
  BY <1>2 DEF requestShutdown, IInv, NoOverlap
<1>9. LaneIsExclusive'
  <2>1. \A s \in Slot : lane'[s] = lane[s]
    BY DEF requestShutdown
  <2> QED BY <1>4, <2>1, ExclusiveKept DEF requestShutdown
<1> QED BY <1>3, <1>5, <1>6, <1>7, <1>8, <1>9 DEF IInv

\* A worker takes a command.
LEMMA TakeStep == ASSUME IInv, takeCommand PROVE IInv'
<1>1. TypeOK /\ commands \in Seq(Command) /\ commands # <<>>
  BY DEF IInv, TypeOK, takeCommand
<1>2. /\ commands' \in Seq(Command) /\ Head(commands) \in Command
      /\ Members(commands) = {Head(commands)} \cup Members(commands')
      /\ OneWrite(commands) =>
            /\ OneWrite(commands')
            /\ IsWrite(Head(commands)) => \A c \in Members(commands') : ~IsWrite(c)
  BY <1>1, TailMembers DEF takeCommand
<1>3. TypeOK'
  BY <1>1, <1>2 DEF takeCommand, TypeOK
<1>4. InFlight' = InFlight
  BY <1>2, InFlightIs DEF takeCommand
<1>5. SessionLoads' = SessionLoads /\ Writes' = Writes
  BY <1>4 DEF SessionLoads, Writes
<1>6. IntentsFresh' /\ CandidatesCurrent'
  BY <1>3, <1>5, SameIntent DEF takeCommand
<1>7. ReplacementIsAsked' /\ SettledWaits' /\ SettledIsShown' /\ ShownDraftsCurrent'
  BY SameScreen DEF takeCommand, IInv, ShownDraftsCurrent
<1>8. ReadAfterWrite'
  BY <1>4, <1>5 DEF takeCommand, IInv, ReadAfterWrite, Settled, Current
<1>9. NoOverlap'
  BY <1>2 DEF takeCommand, IInv, NoOverlap, UnderWay
<1>10. LaneIsExclusive'
  <2>1. \A s \in Slot : lane'[s] = lane[s]
    BY DEF takeCommand
  <2> QED BY <1>5, <2>1, ExclusiveKept DEF takeCommand
<1> QED BY <1>3, <1>6, <1>7, <1>8, <1>9, <1>10 DEF IInv

\* A remote write is started: the lane was free, so that no write is under way.
LEMMA StartStep == ASSUME IInv, NEW s \in Slot, StartWrite(s) PROVE IInv'
<1> DEFINE op == [key |-> published.key, epoch |-> published.epoch,
                  settled |-> FALSE, version |-> 0]
<1> DEFINE w == Write(s, published.key)
<1>1. /\ TypeOK /\ published \in Session /\ published.key \in Key
      /\ published # None /\ replacement = None
  BY DEF IInv, TypeOK, StartWrite, Session
<1>2. op \in Operation /\ op # None /\ op.settled = FALSE /\ op.key = published.key
  <2>1. op \in Operation
    BY <1>1 DEF Operation, Session
  <2> QED BY <2>1, NoneIsNoRecord
<1>3. /\ w \in Command /\ IsWrite(w) /\ w.type = "write" /\ w.slot = s
      /\ w.key = published.key /\ w.version = 0
  BY <1>1 DEF TypeOK, Write, Command, WriteCommand, IsWrite
<1>4. /\ lane' = [lane EXCEPT ![s] = op] /\ commands' = Append(commands, w)
      /\ UNCHANGED <<replacement, nextIntent, issued, revision, remote, shutdown, asked, overlapped>>
  BY DEF StartWrite
<1>5. \A t \in Slot : lane[t] = None
  BY DEF StartWrite, remoteWriteBusy
<1>6. /\ drafts' \in [Key -> Nat] /\ published' \in Session \cup {None}
      /\ published' # None /\ published'.key = published.key
      /\ ShownDraftsCurrent'
  <2>1. CASE IsMutation(s)
    BY <1>1, <2>1 DEF StartWrite, IInv, TypeOK, ShownDraftsCurrent
  <2>2. CASE ~IsMutation(s)
    BY <1>1, <2>2, DraftsChanged DEF StartWrite
  <2> QED BY <2>1, <2>2
<1>7. commands' \in Seq(Command) /\ Members(commands') = Members(commands) \cup {w}
  <2> HIDE DEF w
  <2> QED BY <1>1, <1>3, <1>4, AppendMembers DEF TypeOK
<1> HIDE DEF op, w
<1>8. /\ lane' \in [Slot -> Operation \cup {None}] /\ lane'[s] = op
      /\ \A t \in Slot : t # s => lane'[t] = None
  BY <1>1, <1>2, <1>4, <1>5 DEF TypeOK
<1>9. TypeOK'
  BY <1>1, <1>4, <1>6, <1>7, <1>8 DEF TypeOK, StartWrite
<1>10. SessionLoads' = SessionLoads /\ InFlight' = InFlight \cup {w} /\ Writes' = Writes \cup {w}
  BY <1>3, <1>4, <1>7, InFlightIs DEF SessionLoads, Writes
<1>11. IntentsFresh' /\ CandidatesCurrent'
  BY <1>1, <1>4, <1>9, <1>10, SameIntent
<1>12. \A t \in Slot : ~Settled(t)'
  BY <1>2, <1>8 DEF Settled
<1>13. SettledWaits' /\ SettledIsShown'
  BY <1>12 DEF SettledWaits, SettledIsShown, Settled
<1>14. ReplacementIsAsked'
  BY <1>1, <1>4, <1>6 DEF IInv, ReplacementIsAsked
<1>15. ReadAfterWrite'
  <2>1. w.version <= remote[w.key]
    BY <1>1, <1>3 DEF TypeOK
  <2> QED BY <1>4, <1>10, <1>12, <2>1 DEF IInv, ReadAfterWrite
<1>16. NoOverlap' /\ LaneIsExclusive'
  <2> SUFFICES ASSUME ~overlapped PROVE NoOverlap' /\ LaneIsExclusive'
    BY <1>4 DEF NoOverlap, LaneIsExclusive
  <2>1. Writes = {}
    <3>1. \A t \in Slot : WriteFor(t) = {}
      BY <1>5 DEF IInv, LaneIsExclusive, UnderWay
    <3>2. \A c \in Writes : c.slot \in Slot
      BY <1>1, InFlightTyped, CommandShape DEF Writes
    <3> QED BY <3>1, <3>2 DEF Writes, WriteFor
  <2>2. \A c \in issued \cup Members(commands) : ~IsWrite(c)
    BY <2>1, InFlightIs DEF Writes
  <2>3. OneWrite(commands')
    <3>1. \A i \in 1..Len(commands) : ~IsWrite(commands[i])
      BY <2>2 DEF Members
    <3> QED BY <1>1, <1>3, <1>4, <3>1 DEF OneWrite, TypeOK
  <2>4. NoOverlap'
    BY <1>1, <1>4, <2>2, <2>3 DEF NoOverlap
  <2>5. Writes' = {w}
    BY <1>10, <2>1
  <2>6. /\ \A t \in Slot : WriteFor(t)' = IF t = s THEN {w} ELSE {}
        /\ \A c, d \in InFlight' : IsWrite(c) /\ IsWrite(d) => c = d
    BY <1>3, <2>5 DEF WriteFor, Writes
  <2>7. \A t \in Slot : UnderWay(t)' <=> t = s
    BY <1>2, <1>8 DEF UnderWay
  <2> QED BY <1>2, <1>3, <1>8, <2>4, <2>6, <2>7 DEF LaneIsExclusive, OneRemoteWriter
<1> QED BY <1>6, <1>9, <1>11, <1>13, <1>14, <1>15, <1>16 DEF IInv

\* What a worker does at Bitbucket: a load reads, a write is applied.
LEMMA BitbucketStep == ASSUME IInv, NEW c \in issued, AtBitbucket(c) PROVE IInv'
<1> USE DEF AtBitbucket
<1>1. TypeOK /\ c \in Command /\ c.key \in Key /\ remote[c.key] \in Nat
  BY CommandShape DEF IInv, TypeOK
<1>2. ReplacementIsAsked' /\ SettledWaits' /\ SettledIsShown' /\ ShownDraftsCurrent'
  BY SameScreen DEF IInv, ShownDraftsCurrent
<1>3. \A s \in Slot : lane'[s] = lane[s]
  OBVIOUS
<1>4. CASE ReadPullRequest(c)
  <2> DEFINE r == [c EXCEPT !.seen = remote[c.key]]
  <2>1. /\ r \in Command /\ r.type = "load" /\ r.intent = c.intent /\ r.key = c.key
        /\ r.seen = remote[c.key] /\ c.type = "load"
    BY <1>1, <1>4 DEF ReadPullRequest, Command, SessionCommand, WriteCommand
  <2>2. issued' = (issued \ {c}) \cup {r} /\ remote' = remote
    BY <1>4 DEF ReadPullRequest
  <2> HIDE DEF r
  <2>3. TypeOK'
    BY <1>1, <2>1, <2>2 DEF TypeOK
  <2>4. /\ SessionLoads' \subseteq SessionLoads \cup {r} /\ c \in SessionLoads
        /\ InFlight' \subseteq InFlight \cup {r} /\ Writes' = Writes
    BY <2>1, <2>2, InFlightIs DEF SessionLoads, Writes, IsWrite
  <2>5. IntentsFresh'
    BY <2>1, <2>4 DEF IInv, IntentsFresh, Current
  <2>6. CandidatesCurrent'
    BY <2>1, <2>4 DEF IInv, CandidatesCurrent, Current
  <2>7. ReadAfterWrite'
    <3>1. \A d \in InFlight' : IsWrite(d) => d.version <= remote'[d.key]
      BY <2>2, <2>4 DEF IInv, ReadAfterWrite, Writes
    <3>2. ASSUME NEW s \in Slot, Settled(s)', NEW d \in SessionLoads', (Current(d))', d.seen # None
          PROVE  lane[s].version <= d.seen
      <4>1. Settled(s) /\ Current(d)
        BY <3>2 DEF Settled, Current
      <4>2. CASE d = r
        <5>1. Current(c) /\ c.key = replacement.key /\ replacement # None
          BY <2>1, <2>4, <4>1, <4>2 DEF Current, IInv, IntentsFresh
        <5>2. lane[s].key = c.key
          BY <4>1, <5>1 DEF IInv, SettledWaits, SettledIsShown, Settled, ReplacementIsAsked, Shown
        <5> QED BY <2>1, <4>1, <4>2, <5>2 DEF IInv, ReadAfterWrite
      <4>3. CASE d \in SessionLoads
        BY <3>2, <4>1, <4>3 DEF IInv, ReadAfterWrite
      <4> QED BY <2>4, <4>2, <4>3
    <3> QED BY <2>2, <3>1, <3>2 DEF IInv, ReadAfterWrite, Settled
  <2>8. NoOverlap'
    BY <2>1, <2>2 DEF IInv, NoOverlap, IsWrite, UnderWay
  <2>9. LaneIsExclusive'
    BY <1>3, <2>4, ExclusiveKept
  <2> QED BY <1>2, <2>3, <2>5, <2>6, <2>7, <2>8, <2>9 DEF IInv
<1>5. CASE ApplyWrite(c)
  <2> DEFINE r == [c EXCEPT !.version = remote[c.key] + 1]
  <2>1. /\ r \in Command /\ IsWrite(r) /\ r.type = "write" /\ r.slot = c.slot /\ r.key = c.key
        /\ r.version = remote[c.key] + 1 /\ IsWrite(c)
    BY <1>1, <1>5 DEF ApplyWrite, Command, SessionCommand, WriteCommand, IsWrite
  <2>2. issued' = (issued \ {c}) \cup {r} /\ remote' = [remote EXCEPT ![c.key] = remote[c.key] + 1]
    BY <1>5 DEF ApplyWrite
  <2> HIDE DEF r
  <2>3. TypeOK'
    BY <1>1, <2>1, <2>2 DEF TypeOK
  <2>4. \A k \in Key : remote[k] \in Nat /\ remote'[k] \in Nat /\ remote[k] <= remote'[k]
    BY <1>1, <2>2 DEF TypeOK
  <2>5. /\ SessionLoads' = SessionLoads /\ InFlight' \subseteq InFlight \cup {r}
        /\ Writes' \subseteq Writes \cup {r} /\ c \in Writes
    BY <2>1, <2>2, InFlightIs DEF SessionLoads, Writes, IsWrite
  <2>6. IntentsFresh' /\ CandidatesCurrent'
    BY <2>3, <2>5, SameIntent
  <2>7. ReadAfterWrite'
    <3>1. ASSUME NEW d \in InFlight', IsWrite(d) PROVE d.version <= remote'[d.key]
      <4>1. CASE d = r
        BY <1>1, <2>1, <2>2, <4>1 DEF TypeOK
      <4>2. CASE d \in InFlight
        <5>1. d.version \in Nat /\ d.key \in Key /\ d.version <= remote[d.key]
          BY <1>1, <3>1, <4>2, InFlightTyped, CommandShape DEF IInv, ReadAfterWrite
        <5> QED BY <2>4, <5>1
      <4> QED BY <2>5, <4>1, <4>2
    <3>2. ASSUME NEW s \in Slot, Settled(s) PROVE lane[s].version <= remote'[lane[s].key]
      <4>1. lane[s].version \in Nat /\ lane[s].key \in Key /\ lane[s].version <= remote[lane[s].key]
        BY <1>1, <3>2 DEF IInv, ReadAfterWrite, Settled, TypeOK, Operation
      <4> QED BY <2>4, <4>1
    <3> QED BY <2>5, <3>1, <3>2 DEF IInv, ReadAfterWrite, Settled, Current
  <2>8. NoOverlap'
    BY <2>1, <2>2 DEF IInv, NoOverlap, UnderWay
  <2>9. LaneIsExclusive'
    <3> SUFFICES ASSUME ~overlapped PROVE LaneIsExclusive'
      BY DEF LaneIsExclusive
    <3>1. Writes = {c} /\ \A d \in Members(commands) : ~IsWrite(d)
      BY <2>1, <2>5 DEF IInv, LaneIsExclusive, OneRemoteWriter, Writes, NoOverlap
    <3>2. Writes' = {r}
      BY <2>1, <2>2, <3>1, InFlightIs DEF Writes
    <3>3. \A s \in Slot : /\ WriteFor(s) = IF s = c.slot THEN {c} ELSE {}
                          /\ WriteFor(s)' = IF s = c.slot THEN {r} ELSE {}
      BY <2>1, <3>1, <3>2 DEF WriteFor, Writes
    <3>4. \A s \in Slot : UnderWay(s)' <=> UnderWay(s)
      BY DEF UnderWay
    <3>5. OneRemoteWriter'
      BY <1>3, <3>2 DEF IInv, LaneIsExclusive, OneRemoteWriter, Writes
    <3> QED BY <1>3, <2>1, <3>3, <3>4, <3>5 DEF IInv, LaneIsExclusive
  <2> QED BY <1>2, <2>3, <2>6, <2>7, <2>8, <2>9 DEF IInv
<1> QED BY <1>4, <1>5

\* A completion that consumes a load or a candidate leaves the writes alone.
LEMMA ConsumeLoad ==
    ASSUME TypeOK, NEW c \in issued, c.type \in {"load", "prepare"}, consumeCommand(c),
           commands' = commands
    PROVE  SessionLoads' \subseteq SessionLoads /\ Writes' = Writes
  BY InFlightIs DEF SessionLoads, Writes, consumeCommand, IsWrite

\* An answer of another intent changes nothing else.
LEMMA SupersededStep ==
    ASSUME IInv, NEW c \in issued, c.type \in {"load", "prepare"}, consumeCommand(c), Superseded(c),
           UNCHANGED <<nextIntent, revision, drafts, remote, shutdown, exited, overlapped>>
    PROVE  IInv'
<1> USE DEF Superseded
<1>1. TypeOK /\ TypeOK'
  BY DEF IInv, TypeOK, consumeCommand
<1>2. SessionLoads' \subseteq SessionLoads /\ Writes' = Writes
  BY <1>1, ConsumeLoad
<1>3. ReplacementIsAsked' /\ SettledWaits' /\ SettledIsShown' /\ ShownDraftsCurrent'
  BY SameScreen DEF IInv, ShownDraftsCurrent
<1>4. IntentsFresh' /\ CandidatesCurrent'
  BY <1>1, <1>2, SameIntent
<1>5. ReadAfterWrite'
  BY <1>2 DEF IInv, ReadAfterWrite, Writes, Settled, Current
<1>6. NoOverlap'
  BY DEF IInv, NoOverlap, UnderWay, consumeCommand
<1>7. LaneIsExclusive'
  <2>1. \A s \in Slot : lane'[s] = lane[s]
    OBVIOUS
  <2> QED BY <1>2, <2>1, ExclusiveKept
<1> QED BY <1>1, <1>3, <1>4, <1>5, <1>6, <1>7 DEF IInv

\* The replacement is given up: nothing that is under way loses the lane.
LEMMA FailStep ==
    ASSUME IInv, NEW c \in issued, c.type \in {"load", "prepare"}, consumeCommand(c), Current(c),
           NEW released \in SUBSET {"edit", "delete"}, failReplacement(released),
           reloadRequired' \in Nat \cup {None},
           UNCHANGED <<nextIntent, revision, drafts, remote, shutdown, exited, overlapped>>
    PROVE  IInv'
<1>1. TypeOK /\ replacement # None /\ replacement \in Replacement
  BY DEF IInv, TypeOK, Current
<1>2. UNCHANGED <<published, nextEpoch, commands>> /\ replacement' = None
  BY DEF failReplacement
<1>3. /\ lane' \in [Slot -> Operation \cup {None}]
      /\ \A s \in Slot : lane'[s] = lane[s]
            \/ (/\ lane'[s] = None /\ IsMutation(s)
                /\ replacement.cause = "reconciliation")
  BY <1>1 DEF failReplacement, Release, TypeOK, IsMutation
<1>4. asked' \in Key \cup {None} /\ (published # None => asked' = published.key)
  BY <1>1 DEF failReplacement, TypeOK, Session
<1>5. TypeOK'
  BY <1>1, <1>2, <1>3, <1>4 DEF TypeOK, consumeCommand
<1>6. SessionLoads' \subseteq SessionLoads /\ Writes' = Writes
  BY <1>1, <1>2, ConsumeLoad
<1>7. IntentsFresh' /\ CandidatesCurrent'
  BY <1>2, <1>5, <1>6, SameIntent
<1>8. ReplacementIsAsked' /\ ShownDraftsCurrent'
  BY <1>2, <1>4 DEF IInv, ReplacementIsAsked, ShownDraftsCurrent
<1>9. \A s \in Slot : Settled(s)' => Settled(s) /\ lane'[s] = lane[s]
  BY <1>3 DEF Settled
<1>10. SettledWaits' /\ SettledIsShown'
  BY <1>2, <1>9 DEF IInv, SettledWaits, SettledIsShown, Settled, Shown
<1>11. ReadAfterWrite'
  BY <1>2, <1>6, <1>9 DEF IInv, ReadAfterWrite, Writes, Current
<1>12. NoOverlap'
  BY <1>2 DEF IInv, NoOverlap, consumeCommand
<1>13. LaneIsExclusive'
  <2>1. overlapped' \/ \A s \in Slot : lane'[s] = lane[s] \/ (lane'[s] = None /\ ~UnderWay(s))
    BY <1>1, <1>3 DEF IInv, NoOverlap
  <2> QED BY <1>6, <2>1, ExclusiveKept
<1> QED BY <1>5, <1>7, <1>8, <1>10, <1>11, <1>12, <1>13 DEF IInv

\* The answer of the current intent queues the candidate, built from the Drafts
\* as they are now.
LEMMA CandidateStep ==
    ASSUME IInv, NEW c \in issued, c.type \in {"load", "prepare"}, consumeCommand(c), Current(c),
           c.seen # None, queueCandidateSession(c),
           UNCHANGED <<nextIntent, revision, drafts, remote, shutdown, exited, overlapped>>
    PROVE  IInv'
<1> DEFINE p == Prepare(c.intent, replacement.key, c.seen)
<1>1. TypeOK /\ replacement # None /\ replacement \in Replacement /\ c \in SessionLoads
  BY InFlightIs DEF IInv, TypeOK, Current, SessionLoads
<1>2. /\ c.key = replacement.key /\ c.key \in Key /\ c.intent \in Nat /\ c.intent = replacement.intent
      /\ c.intent <= nextIntent /\ c.seen \in Nat
  BY <1>1, SessionLoadShape, CommandShape DEF IInv, IntentsFresh, Current
<1>3. /\ p \in Command /\ p.type = "prepare" /\ ~IsWrite(p) /\ p.intent = c.intent
      /\ p.key = c.key /\ p.seen = c.seen /\ p.drafts = drafts[c.key] /\ p.revision = revision
  BY <1>1, <1>2 DEF Prepare, Command, SessionCommand, TypeOK, IsWrite
<1>4. /\ commands' = Append(commands, p)
      /\ UNCHANGED <<published, replacement, nextEpoch, lane, reloadRequired, asked>>
  BY DEF queueCandidateSession
<1> HIDE DEF p
<1>5. commands' \in Seq(Command) /\ Members(commands') = Members(commands) \cup {p}
  BY <1>1, <1>3, <1>4, AppendMembers DEF TypeOK
<1>6. TypeOK'
  BY <1>1, <1>4, <1>5 DEF TypeOK, consumeCommand
<1>7. /\ SessionLoads' \subseteq SessionLoads \cup {p} /\ Writes' = Writes
  BY <1>3, <1>5, InFlightIs DEF SessionLoads, Writes, consumeCommand, IsWrite
<1>8. \A d : (Current(d))' <=> Current(d)
  BY <1>4 DEF Current
<1>9. IntentsFresh'
  BY <1>2, <1>3, <1>4, <1>7, <1>8 DEF IInv, IntentsFresh
<1>10. CandidatesCurrent'
  BY <1>1, <1>3, <1>7, <1>8 DEF IInv, CandidatesCurrent, TypeOK
<1>11. ReplacementIsAsked' /\ SettledWaits' /\ SettledIsShown' /\ ShownDraftsCurrent'
  BY <1>4, SameScreen DEF IInv, ShownDraftsCurrent
<1>12. ReadAfterWrite'
  <2>1. \A s \in Slot : Settled(s)' <=> Settled(s)
    BY <1>4 DEF Settled
  <2>2. \A s \in Slot : Settled(s) => lane[s].version <= p.seen
    BY <1>1, <1>3 DEF IInv, ReadAfterWrite
  <2> QED BY <1>4, <1>7, <1>8, <2>1, <2>2 DEF IInv, ReadAfterWrite, Writes
<1>13. NoOverlap'
  <2>1. OneWrite(commands) => OneWrite(commands')
    BY <1>1, <1>3, <1>4 DEF OneWrite, TypeOK
  <2> QED BY <1>3, <1>4, <1>5, <2>1 DEF IInv, NoOverlap, consumeCommand, UnderWay
<1>14. LaneIsExclusive'
  <2>1. \A s \in Slot : lane'[s] = lane[s]
    BY <1>4
  <2> QED BY <1>7, <2>1, ExclusiveKept
<1> QED BY <1>6, <1>9, <1>10, <1>11, <1>12, <1>13, <1>14 DEF IInv

\* A load is answered.
LEMMA LoadedStep == ASSUME IInv, NEW c \in issued, acceptLoadedSession(c) PROVE IInv'
<1> USE DEF acceptLoadedSession
<1>1. CASE Superseded(c)
  BY <1>1, SupersededStep
<1>2. CASE Current(c) /\ LoadFailed
  <2>1. reloadRequired' \in Nat \cup {None}
    BY <1>2 DEF LoadFailed, IInv, TypeOK, Shown, Session
  <2>2. {"edit", "delete"} \in SUBSET {"edit", "delete"}
    OBVIOUS
  <2> QED BY <1>2, <2>1, <2>2, FailStep DEF LoadFailed
<1>3. CASE Current(c) /\ c.seen # None /\ queueCandidateSession(c)
  BY <1>3, CandidateStep
<1>4. CASE Current(c) /\ CandidateFailed
  <2>1. {} \in SUBSET {"edit", "delete"} /\ reloadRequired' \in Nat \cup {None}
    BY <1>4 DEF CandidateFailed, IInv, TypeOK
  <2> QED BY <1>4, <2>1, FailStep DEF CandidateFailed
<1> QED BY <1>1, <1>2, <1>3, <1>4

\* What a publication puts on the screen: the choice, the Drafts as they are, and
\* every write it releases.
LEMMA PublishShows ==
    ASSUME IInv, NEW c \in issued, c.type = "prepare", Current(c), ~Stale(c), Publish(c)
    PROVE  /\ published' \in Session /\ published' # None
           /\ published'.key = replacement.key /\ published'.key = asked
           /\ published'.drafts = drafts[published'.key]
           /\ \A s \in Slot : Settled(s) => published'.seen >= lane[s].version
<1>1. TypeOK /\ replacement # None /\ replacement \in Replacement /\ c \in SessionLoads
  BY InFlightIs DEF IInv, TypeOK, Current, SessionLoads
<1>2. /\ c.key = replacement.key /\ c.key \in Key /\ c.seen \in Nat /\ c.drafts \in Nat
      /\ c.drafts = drafts[c.key] /\ asked = replacement.key
  BY <1>1, SessionLoadShape DEF IInv, IntentsFresh, CandidatesCurrent, ReplacementIsAsked, Stale
<1>3. published' = [key |-> replacement.key, epoch |-> nextEpoch + 1,
                    seen |-> c.seen, drafts |-> c.drafts]
  BY DEF Publish
<1>4. published' \in Session
  BY <1>1, <1>2, <1>3 DEF Session, TypeOK
<1>5. ASSUME NEW s \in Slot, Settled(s) PROVE published'.seen >= lane[s].version
  <2>1. c.seen # None
    BY <1>2, NoneIsNoRecord
  <2>2. lane[s].version <= c.seen /\ lane[s].version \in Nat
    BY <1>1, <1>5, <2>1 DEF IInv, ReadAfterWrite, TypeOK, Settled, Operation
  <2> QED BY <1>2, <1>3, <2>2
<1> QED BY <1>2, <1>3, <1>4, <1>5, NoneIsNoRecord

\* The candidate is published.
LEMMA PublishStep ==
    ASSUME IInv, NEW c \in issued, c.type = "prepare", consumeCommand(c), Current(c), ~Stale(c),
           Publish(c),
           UNCHANGED <<nextIntent, revision, drafts, remote, shutdown, exited, overlapped>>
    PROVE  IInv'
<1>1. TypeOK /\ replacement # None /\ replacement \in Replacement
  BY DEF IInv, TypeOK, Current
<1>2. /\ published' \in Session /\ published' # None
      /\ published'.key = replacement.key /\ published'.key = asked
      /\ published'.drafts = drafts[published'.key]
  BY PublishShows
<1>3. /\ replacement' = None /\ reloadRequired' = None /\ nextEpoch' = nextEpoch + 1
      /\ UNCHANGED <<commands, asked>>
  BY DEF Publish
<1>4. /\ lane' \in [Slot -> Operation \cup {None}]
      /\ \A s \in Slot : lane'[s] = lane[s]
            \/ (/\ lane'[s] = None /\ IsMutation(s)
                /\ replacement.cause = "reconciliation")
  BY <1>1 DEF Publish, Release, TypeOK
<1>5. TypeOK'
  BY <1>1, <1>2, <1>3, <1>4 DEF TypeOK, consumeCommand
<1>6. SessionLoads' \subseteq SessionLoads /\ Writes' = Writes
  BY <1>1, <1>3, ConsumeLoad
<1>7. IntentsFresh' /\ CandidatesCurrent'
  BY <1>3, <1>5, <1>6, SameIntent
<1>8. ReplacementIsAsked' /\ ShownDraftsCurrent'
  BY <1>2, <1>3 DEF ReplacementIsAsked, ShownDraftsCurrent
<1>9. \A s \in Slot : Settled(s)' => Settled(s) /\ lane'[s] = lane[s]
  BY <1>4 DEF Settled
<1>10. SettledWaits' /\ SettledIsShown'
  <2>1. SettledWaits'
    BY <1>3, <1>9 DEF IInv, SettledWaits
  <2>2. ASSUME NEW s \in Slot, Settled(s)' PROVE published'.key = lane[s].key
    <3>1. Shown(lane[s].key) /\ replacement.cause # "picker"
      BY <1>1, <1>9, <2>2 DEF IInv, SettledIsShown, SettledWaits, Settled
    <3>2. lane[s].key = replacement.key
      BY <1>1, <3>1 DEF IInv, ReplacementIsAsked, Shown
    <3> QED BY <1>2, <3>2
  <2> QED BY <1>2, <1>9, <2>1, <2>2 DEF SettledIsShown, Settled, Shown
<1>11. ReadAfterWrite'
  BY <1>3, <1>6, <1>9 DEF IInv, ReadAfterWrite, Writes, Current
<1>12. NoOverlap'
  BY <1>3 DEF IInv, NoOverlap, consumeCommand
<1>13. LaneIsExclusive'
  <2>1. overlapped' \/ \A s \in Slot : lane'[s] = lane[s] \/ (lane'[s] = None /\ ~UnderWay(s))
    BY <1>1, <1>4 DEF IInv, NoOverlap
  <2> QED BY <1>6, <2>1, ExclusiveKept
<1> QED BY <1>5, <1>7, <1>8, <1>10, <1>11, <1>12, <1>13 DEF IInv

\* A candidate is answered.
LEMMA PreparedStep == ASSUME IInv, NEW c \in issued, acceptPreparedSession(c) PROVE IInv'
<1> USE DEF acceptPreparedSession
<1>1. CASE Superseded(c)
  BY <1>1, SupersededStep
<1>2. CASE Current(c) /\ CandidateFailed
  <2>1. {} \in SUBSET {"edit", "delete"} /\ reloadRequired' \in Nat \cup {None}
    BY <1>2 DEF CandidateFailed, IInv, TypeOK
  <2> QED BY <1>2, <2>1, FailStep DEF CandidateFailed
<1>3. CASE Current(c) /\ Stale(c) /\ queueCandidateSession(c)
  <2>1. c.seen # None
    BY CommandShape, NoneIsNoRecord DEF IInv, TypeOK
  <2> QED BY <1>3, <2>1, CandidateStep
<1>4. CASE Current(c) /\ ~Stale(c) /\ Publish(c)
  BY <1>4, PublishStep
<1> QED BY <1>1, <1>2, <1>3, <1>4

\* Consuming the command of a write: while no Draft was linked it was the only one.
LEMMA ConsumeWrite ==
    ASSUME IInv, NEW c \in issued, IsWrite(c), issued' = issued \ {c},
           {d \in Members(commands') : IsWrite(d)} = {d \in Members(commands) : IsWrite(d)}
    PROVE  /\ Writes' \subseteq Writes
           /\ ~overlapped => /\ Writes' = {} /\ Writes = {c}
                             /\ UnderWay(c.slot) /\ lane[c.slot].key = c.key
                             /\ \A s \in Slot : s # c.slot => lane[s] = None
<1>1. Writes' \subseteq Writes /\ c \in Writes
  BY InFlightIs DEF Writes
<1>2. c.slot \in Slot
  BY CommandShape DEF IInv, TypeOK
<1>3. ASSUME ~overlapped
      PROVE  /\ Writes' = {} /\ Writes = {c}
             /\ UnderWay(c.slot) /\ lane[c.slot].key = c.key
             /\ \A s \in Slot : s # c.slot => lane[s] = None
  <2>1. Writes = {c} /\ \A d \in Members(commands) : ~IsWrite(d)
    BY <1>1, <1>3 DEF IInv, LaneIsExclusive, OneRemoteWriter, Writes, NoOverlap
  <2>2. Writes' = {}
    BY <2>1, InFlightIs DEF Writes
  <2>3. c \in WriteFor(c.slot)
    BY <1>1 DEF WriteFor, Writes
  <2> QED BY <1>2, <1>3, <2>1, <2>2, <2>3
          DEF IInv, LaneIsExclusive, OneRemoteWriter, UnderWay
<1> QED BY <1>1, <1>3

\* Nobody writes any more.
LEMMA ExclusiveWhenIdle ==
    ASSUME Writes' = {}, \A s \in Slot : ~UnderWay(s)',
           \A s, t \in Slot : lane'[s] # None /\ lane'[t] # None => s = t
    PROVE  LaneIsExclusive'
<1>1. \A s \in Slot : WriteFor(s)' = {}
  BY DEF WriteFor, Writes
<1> QED BY <1>1 DEF LaneIsExclusive, OneRemoteWriter, Writes

\* A write that failed, or settled out of sight, leaves the lane.
LEMMA ReleaseStep ==
    ASSUME IInv, NEW c \in issued, IsWrite(c), consumeCommand(c), WriteFailed(c),
           UNCHANGED <<published, nextEpoch, reloadRequired, revision, drafts, remote, shutdown,
                       exited, asked, overlapped>>
    PROVE  IInv'
<1> USE DEF WriteFailed, consumeCommand
<1>1. TypeOK /\ TypeOK' /\ c.slot \in Slot
  BY CommandShape DEF IInv, TypeOK
<1>2. SessionLoads' \subseteq SessionLoads
  BY InFlightIs DEF SessionLoads
<1>3. /\ Writes' \subseteq Writes
      /\ ~overlapped => /\ Writes' = {}
                        /\ \A s \in Slot : s # c.slot => lane[s] = None
  BY ConsumeWrite
<1>4. \A s \in Slot : lane'[s] = IF s = c.slot THEN None ELSE lane[s]
  BY <1>1 DEF TypeOK
<1>5. IntentsFresh' /\ CandidatesCurrent'
  BY <1>1, <1>2, SameIntent
<1>6. ReplacementIsAsked' /\ ShownDraftsCurrent'
  BY DEF IInv, ReplacementIsAsked, ShownDraftsCurrent, Shown
<1>7. \A s \in Slot : Settled(s)' => Settled(s) /\ lane'[s] = lane[s]
  BY <1>4 DEF Settled
<1>8. SettledWaits' /\ SettledIsShown'
  BY <1>7 DEF IInv, SettledWaits, SettledIsShown, Settled, Shown
<1>9. ReadAfterWrite'
  BY <1>2, <1>3, <1>7 DEF IInv, ReadAfterWrite, Writes, Current
<1>10. NoOverlap'
  BY <1>3, <1>4 DEF IInv, NoOverlap, UnderWay
<1>11. LaneIsExclusive'
  <2>1. CASE overlapped
    BY <2>1 DEF LaneIsExclusive
  <2>2. CASE ~overlapped
    <3>1. \A s \in Slot : lane'[s] = None
      BY <1>3, <1>4, <2>2
    <3> QED BY <1>3, <2>2, <3>1, ExclusiveWhenIdle DEF UnderWay
  <2> QED BY <2>1, <2>2
<1> QED BY <1>1, <1>5, <1>6, <1>8, <1>9, <1>10, <1>11 DEF IInv

\* A write settled and is on the screen: it waits for the load that is queued now.
LEMMA SettleStep ==
    ASSUME IInv, NEW c \in issued, IsWrite(c), consumeCommand(c), Owned(c), IsMutation(c.slot),
           ~shutdown, Shown(c.key), replacement # None => replacement.key = c.key,
           lane' = [lane EXCEPT ![c.slot].settled = TRUE, ![c.slot].version = c.version],
           queueReconciliation(c.key),
           UNCHANGED <<published, nextEpoch, reloadRequired, revision, drafts, remote, shutdown,
                       exited, asked, overlapped>>
    PROVE  IInv'
<1>1. /\ TypeOK /\ c \in InFlight /\ c.slot \in Slot /\ c.key \in Key /\ c.version \in Nat
      /\ c.version <= remote[c.key] /\ revision <= revision'
  BY CommandShape, InFlightIs DEF IInv, TypeOK, ReadAfterWrite
<1>2. /\ lane[c.slot] \in Operation /\ lane[c.slot].key = c.key
      /\ lane'[c.slot] = [lane[c.slot] EXCEPT !.settled = TRUE, !.version = c.version]
      /\ \A s \in Slot : s # c.slot => lane'[s] = lane[s]
  BY <1>1 DEF TypeOK, Owned
<1>3. /\ lane' \in [Slot -> Operation \cup {None}] /\ lane'[c.slot] \in Operation
      /\ lane'[c.slot].key = c.key /\ lane'[c.slot].settled /\ lane'[c.slot].version = c.version
  BY <1>1, <1>2 DEF TypeOK, Operation
<1>4. ReplaceResult(c.key, "reconciliation")
  BY <1>1, ReplaceQueue DEF queueReconciliation
<1>5. TypeOK'
  <2>1. issued' \subseteq issued /\ nextIntent' \in Nat
    BY <1>1, <1>4 DEF TypeOK, ReplaceResult, consumeCommand
  <2> QED BY <1>1, <1>3, <1>4, <2>1 DEF TypeOK, ReplaceResult
<1>6. /\ IntentsFresh' /\ CandidatesCurrent'
      /\ \A d \in SessionLoads' : (Current(d))' => d.seen = None
  <2>1. issued' \subseteq issued
    BY DEF consumeCommand
  <2> QED BY <1>1, <1>4, <1>5, <2>1, ReplaceIntents
<1>7. /\ Writes' \subseteq Writes
      /\ ~overlapped => /\ Writes' = {}
                        /\ \A s \in Slot : s # c.slot => lane[s] = None
  <2>1. {d \in Members(commands') : IsWrite(d)} = {d \in Members(commands) : IsWrite(d)}
    BY <1>4 DEF ReplaceResult, IsWrite, Load
  <2> QED BY <2>1, ConsumeWrite DEF consumeCommand
<1>8. ReplacementIsAsked' /\ ShownDraftsCurrent'
  <2>1. asked = c.key
    BY DEF IInv, ReplacementIsAsked, Shown
  <2> QED BY <1>4, <2>1 DEF IInv, ReplacementIsAsked, ShownDraftsCurrent, Shown, ReplaceResult
<1>9. \A s \in Slot : Settled(s)' => \/ s = c.slot
                                     \/ Settled(s) /\ lane'[s] = lane[s]
  BY <1>2 DEF Settled
<1>10. SettledWaits' /\ SettledIsShown'
  BY <1>3, <1>4, <1>9
     DEF IInv, SettledWaits, SettledIsShown, Settled, Shown, ReplaceResult
<1>11. ReadAfterWrite'
  <2>1. \A d \in InFlight' : IsWrite(d) => d.version <= remote'[d.key]
    BY <1>7 DEF IInv, ReadAfterWrite, Writes
  <2>2. \A s \in Slot : Settled(s)' => lane'[s].version <= remote'[lane'[s].key]
    BY <1>1, <1>3, <1>9 DEF IInv, ReadAfterWrite
  <2> QED BY <1>6, <2>1, <2>2 DEF ReadAfterWrite
<1>12. NoOverlap' /\ LaneIsExclusive'
  <2> SUFFICES ASSUME ~overlapped PROVE NoOverlap' /\ LaneIsExclusive'
    BY DEF NoOverlap, LaneIsExclusive
  <2>1. \A s \in Slot : ~UnderWay(s)' /\ (s # c.slot => lane'[s] = None)
    BY <1>2, <1>3, <1>7 DEF UnderWay
  <2>2. LaneIsExclusive'
    BY <1>7, <2>1, ExclusiveWhenIdle
  <2>3. NoOverlap'
    BY <1>4, <2>1 DEF IInv, NoOverlap, ReplaceResult, consumeCommand, IsWrite, Load
  <2> QED BY <2>2, <2>3
<1> QED BY <1>5, <1>6, <1>8, <1>10, <1>11, <1>12 DEF IInv

\* A write is answered.
LEMMA AcceptWriteStep == ASSUME IInv, NEW c \in issued, AcceptWrite(c) PROVE IInv'
<1> USE DEF AcceptWrite
<1>1. TypeOK /\ IsWrite(c) /\ c.slot \in Slot /\ c \in Command
  BY CommandShape DEF IInv, TypeOK
<1>2. CASE acceptCommentWrite(c) /\ consumeCommand(c)
  <2>1. IsMutation(c.slot) /\ Owned(c)
    BY <1>2 DEF acceptCommentWrite, IsMutation
  <2>2. CASE WriteFailed(c)
    BY <1>1, <1>2, <2>2, ReleaseStep
  <2>3. CASE Settle(c, ~shutdown /\ Shown(c.key) /\ replacement = None)
    <3>1. CASE ~shutdown /\ Shown(c.key) /\ replacement = None
      BY <1>1, <1>2, <2>1, <2>3, <3>1, SettleStep DEF Settle
    <3>2. CASE ~(~shutdown /\ Shown(c.key) /\ replacement = None)
      BY <1>1, <1>2, <2>3, <3>2, ReleaseStep DEF Settle, WriteFailed
    <3> QED BY <3>1, <3>2
  <2> QED BY <1>2, <2>2, <2>3 DEF acceptCommentWrite
<1>3. CASE acceptReviewerVerdict(c) /\ consumeCommand(c)
  <2> DEFINE visible == /\ ~shutdown /\ Shown(c.key)
                        /\ replacement # None => replacement.key = c.key
  <2>1. IsMutation(c.slot) /\ Owned(c)
    BY <1>3 DEF acceptReviewerVerdict, IsMutation
  <2>2. CASE WriteFailed(c)
    BY <1>1, <1>3, <2>2, ReleaseStep
  <2>3. CASE Settle(c, visible)
    <3>1. CASE visible
      BY <1>1, <1>3, <2>1, <2>3, <3>1, SettleStep DEF Settle
    <3>2. CASE ~visible
      BY <1>1, <1>3, <2>3, <3>2, ReleaseStep DEF Settle, WriteFailed
    <3> QED BY <3>1, <3>2
  <2> QED BY <1>3, <2>2, <2>3 DEF acceptReviewerVerdict
<1>4. CASE IgnoreWrite(c)
  <2>1. overlapped
    <3> SUFFICES ASSUME ~overlapped PROVE FALSE
      OBVIOUS
    <3>1. c \in WriteFor(c.slot)
      BY <1>1, InFlightIs DEF WriteFor
    <3> QED BY <1>1, <1>4, <3>1 DEF IgnoreWrite, Owned, IInv, LaneIsExclusive, UnderWay
  <2> DEFINE u == [c EXCEPT !.type = "unconsumed"]
  <2>2. u \in Command /\ u.type = "unconsumed" /\ ~IsWrite(u)
    BY <1>1 DEF IsWrite, Command, SessionCommand, WriteCommand
  <2>3. /\ issued' \subseteq (issued \ {c}) \cup {u}
        /\ UNCHANGED <<replacement, nextIntent, commands, lane>>
    BY <1>4 DEF IgnoreWrite
  <2> HIDE DEF u
  <2>4. TypeOK'
    BY <1>1, <2>2, <2>3 DEF TypeOK
  <2>5. /\ SessionLoads' \subseteq SessionLoads
        /\ \A d \in InFlight' : IsWrite(d) => d \in InFlight
    BY <2>2, <2>3, InFlightIs DEF SessionLoads
  <2>6. IntentsFresh' /\ CandidatesCurrent'
    BY <2>3, <2>4, <2>5, SameIntent
  <2>7. ReplacementIsAsked' /\ SettledWaits' /\ SettledIsShown' /\ ShownDraftsCurrent'
    BY <2>3, SameScreen DEF IInv, ShownDraftsCurrent
  <2>8. ReadAfterWrite'
    BY <2>3, <2>5 DEF IInv, ReadAfterWrite, Settled, Current
  <2>9. NoOverlap' /\ LaneIsExclusive'
    BY <2>1 DEF NoOverlap, LaneIsExclusive
  <2> QED BY <2>4, <2>6, <2>7, <2>8, <2>9 DEF IInv
<1> QED BY <1>2, <1>3, <1>4

\* The submission leaves the lane, and its Reconciliation starts.
LEMMA FinishedStep == ASSUME IInv, NEW c \in issued, SubmissionFinished(c) PROVE IInv'
<1>1. /\ TypeOK /\ IsWrite(c) /\ c.slot = "submission" /\ "submission" \in Slot /\ c.key \in Key
      /\ consumeCommand(c) /\ revision' = revision + 1 /\ revision <= revision'
      /\ issued' \subseteq issued
  BY CommandShape DEF IInv, TypeOK, SubmissionFinished, consumeCommand
<1>2. /\ drafts' \in [Key -> Nat] /\ published' \in Session \cup {None}
      /\ published' = None <=> published = None
      /\ published # None => published'.key = published.key
      /\ ShownDraftsCurrent'
  <2>1. drafts \in [Key -> Nat] /\ published \in Session \cup {None} /\ ShownDraftsCurrent
    BY DEF IInv, TypeOK
  <2>2. drafts' = [drafts EXCEPT ![c.key] = drafts[c.key] + 1]
    BY DEF SubmissionFinished
  <2>3. CASE ~Shown(c.key)
    BY <1>1, <2>1, <2>2, <2>3 DEF SubmissionFinished, Shown, ShownDraftsCurrent, Session
  <2>4. CASE Shown(c.key)
    <3>1. /\ published \in Session /\ published # None /\ published.key = c.key
          /\ published' = [published EXCEPT !.drafts = drafts[c.key] + 1]
      BY <2>1, <2>4 DEF SubmissionFinished, Shown
    <3>2. /\ published' \in Session /\ published'.key = c.key
          /\ published'.drafts = drafts[c.key] + 1
      BY <1>1, <2>1, <3>1 DEF Session
    <3> QED BY <1>1, <2>1, <2>2, <3>1, <3>2, NoneIsNoRecord DEF ShownDraftsCurrent
  <2> QED BY <2>3, <2>4
<1>3. \A s \in Slot : lane'[s] = IF s = c.slot THEN None ELSE lane[s]
  BY <1>1 DEF SubmissionFinished, IInv, TypeOK
<1>4. lane' \in [Slot -> Operation \cup {None}]
  BY <1>1 DEF SubmissionFinished, TypeOK
<1>5. \A s \in Slot : Settled(s)' => Settled(s) /\ lane'[s] = lane[s]
  BY <1>3 DEF Settled
<1>6. \A k : Shown(k)' <=> Shown(k)
  BY <1>2 DEF Shown
<1>7. SettledIsShown'
  BY <1>5, <1>6 DEF IInv, SettledIsShown, Settled
<1>8. UNCHANGED <<nextEpoch, reloadRequired, remote, shutdown, exited, asked, overlapped>>
  BY DEF SubmissionFinished
<1>9. ASSUME {d \in Members(commands') : IsWrite(d)} = {d \in Members(commands) : IsWrite(d)},
             OneWrite(commands) => OneWrite(commands')
      PROVE  Writes' \subseteq Writes /\ NoOverlap' /\ LaneIsExclusive'
  <2>1. /\ Writes' \subseteq Writes
        /\ ~overlapped => /\ Writes' = {}
                          /\ \A s \in Slot : s # c.slot => lane[s] = None
    BY <1>1, <1>9, ConsumeWrite DEF consumeCommand
  <2> SUFFICES ASSUME ~overlapped PROVE NoOverlap' /\ LaneIsExclusive'
    BY <1>8, <2>1 DEF NoOverlap, LaneIsExclusive
  <2>2. \A s \in Slot : lane'[s] = None
    BY <1>3, <2>1
  <2>3. LaneIsExclusive'
    BY <2>1, <2>2, ExclusiveWhenIdle DEF UnderWay
  <2>4. \A d \in issued' \cup Members(commands') : ~IsWrite(d)
    BY <2>1, InFlightIs DEF Writes
  <2>5. NoOverlap'
    BY <1>9, <2>2, <2>4 DEF IInv, NoOverlap, UnderWay
  <2> QED BY <2>3, <2>5
<1>10. CASE UNCHANGED <<replacement, nextIntent, commands>>
  <2>1. TypeOK'
    BY <1>1, <1>2, <1>4, <1>8, <1>10 DEF TypeOK, consumeCommand
  <2>2. Writes' \subseteq Writes /\ NoOverlap' /\ LaneIsExclusive'
    BY <1>9, <1>10
  <2>3. SessionLoads' \subseteq SessionLoads
    BY <1>1, <1>10, InFlightIs DEF SessionLoads, consumeCommand
  <2>4. IntentsFresh' /\ CandidatesCurrent'
    BY <1>1, <1>10, <2>1, <2>3, SameIntent
  <2>5. ReplacementIsAsked' /\ SettledWaits'
    BY <1>2, <1>5, <1>6, <1>8, <1>10 DEF IInv, ReplacementIsAsked, SettledWaits
  <2>6. ReadAfterWrite'
    BY <1>5, <1>8, <1>10, <2>2, <2>3 DEF IInv, ReadAfterWrite, Writes, Current
  <2> QED BY <1>2, <1>7, <2>1, <2>2, <2>4, <2>5, <2>6 DEF IInv
<1>11. CASE ~shutdown /\ replacement = None /\ Shown(c.key) /\ queueReconciliation(c.key)
  <2>1. ReplaceResult(c.key, "reconciliation")
    BY <1>1, <1>11, ReplaceQueue DEF queueReconciliation
  <2>2. TypeOK'
    BY <1>1, <1>2, <1>4, <1>8, <2>1 DEF TypeOK, ReplaceResult, consumeCommand
  <2>3. Writes' \subseteq Writes /\ NoOverlap' /\ LaneIsExclusive'
    <3>1. {d \in Members(commands') : IsWrite(d)} = {d \in Members(commands) : IsWrite(d)}
      BY <2>1 DEF ReplaceResult, IsWrite, Load
    <3> QED BY <1>9, <2>1, <3>1 DEF ReplaceResult
  <2>4. /\ IntentsFresh' /\ CandidatesCurrent'
        /\ \A d \in SessionLoads' : (Current(d))' => d.seen = None
    BY <1>1, <2>1, <2>2, ReplaceIntents
  <2>5. ReplacementIsAsked'
    <3>1. asked = c.key
      BY <1>11 DEF IInv, ReplacementIsAsked, Shown
    <3> QED BY <1>6, <1>8, <1>11, <2>1, <3>1 DEF ReplacementIsAsked, ReplaceResult
  <2>6. SettledWaits'
    BY <1>5, <2>1 DEF IInv, SettledWaits, ReplaceResult
  <2>7. ReadAfterWrite'
    BY <1>5, <1>8, <2>3, <2>4 DEF IInv, ReadAfterWrite, Writes
  <2> QED BY <1>2, <1>7, <2>2, <2>3, <2>4, <2>5, <2>6, <2>7 DEF IInv
<1> QED BY <1>10, <1>11 DEF SubmissionFinished

-----------------------------------------------------------------------------
(* The theorems *)

\* The program starts with an empty screen, an empty lane and no command.
LEMMA InitIInv == Init => IInv
<1> SUFFICES ASSUME Init PROVE IInv
  OBVIOUS
<1>1. TypeOK
  <2>1. <<>> \in Seq(Command) /\ {} \in SUBSET Command
    OBVIOUS
  <2>2. /\ [k \in Key |-> 0] \in [Key -> Nat]
        /\ [s \in Slot |-> None] \in [Slot -> Operation \cup {None}]
    OBVIOUS
  <2> QED BY <2>1, <2>2 DEF Init, TypeOK
<1>2. InFlight = {} /\ SessionLoads = {} /\ \A s \in Slot : WriteFor(s) = {}
  BY DEF Init, InFlight, SessionLoads, WriteFor, Members
<1>3. \A s \in Slot : ~Settled(s) /\ ~UnderWay(s) /\ lane[s] = None
  BY DEF Init, Settled, UnderWay
<1>4. IntentsFresh /\ ReplacementIsAsked /\ CandidatesCurrent
  BY <1>2 DEF Init, IntentsFresh, ReplacementIsAsked, CandidatesCurrent
<1>5. SettledWaits /\ SettledIsShown /\ ShownDraftsCurrent /\ ReadAfterWrite
  BY <1>2, <1>3 DEF Init, SettledWaits, SettledIsShown, ShownDraftsCurrent, ReadAfterWrite, Settled
<1>6. NoOverlap
  BY <1>3 DEF Init, NoOverlap, OneWrite, Members
<1>7. LaneIsExclusive
  BY <1>2, <1>3 DEF LaneIsExclusive, OneRemoteWriter
<1> QED BY <1>1, <1>4, <1>5, <1>6, <1>7 DEF IInv

\* Nothing moves.
LEMMA StutterStep == ASSUME IInv, UNCHANGED <<published, replacement, nextIntent, nextEpoch,
                         commands, issued, lane, reloadRequired, revision, drafts, remote,
                         shutdown, asked, overlapped>>, exited' \in BOOLEAN
                     PROVE  IInv'
<1>1. TypeOK'
  BY DEF IInv, TypeOK
<1>2. ReadAfterWrite' /\ NoOverlap' /\ LaneIsExclusive' /\ SessionLoads' = SessionLoads
  BY SameLane
<1>3. IntentsFresh' /\ CandidatesCurrent'
  BY <1>1, <1>2, SameIntent
<1>4. ReplacementIsAsked' /\ SettledWaits' /\ SettledIsShown' /\ ShownDraftsCurrent'
  BY SameScreen DEF IInv, ShownDraftsCurrent
<1> QED BY <1>1, <1>2, <1>3, <1>4 DEF IInv

\* Every handler, worker and completion keeps the invariant.
LEMMA NextIInv == IInv /\ [Next]_vars => IInv'
<1> SUFFICES ASSUME IInv, [Next]_vars PROVE IInv'
  OBVIOUS
<1>1. CASE \E k \in Key : choosePullRequest(k)
  BY <1>1, ChooseStep
<1>2. CASE Refresh
  BY <1>2, RefreshStep
<1>3. CASE \E s \in Slot : StartWrite(s)
  BY <1>3, StartStep
<1>4. CASE SaveDraft
  BY <1>4, SaveDraftStep
<1>5. CASE LinkUnknown
  BY <1>5, LinkStep
<1>6. CASE KeyDuringSubmission
  BY <1>6, KeyStep
<1>7. CASE requestShutdown
  BY <1>7, ShutdownStep
<1>8. CASE takeCommand
  BY <1>8, TakeStep
<1>9. CASE \E c \in issued : AtBitbucket(c)
  BY <1>9, BitbucketStep
<1>10. CASE \E c \in issued : SubmissionProgress(c)
  BY <1>10, ProgressStep
<1>11. CASE Complete
  BY <1>11, LoadedStep, PreparedStep, AcceptWriteStep, FinishedStep DEF Complete
<1>12. CASE Exit
  BY <1>12, StutterStep DEF Exit
<1>13. CASE UNCHANGED vars
  BY <1>13, StutterStep DEF vars, IInv, TypeOK
<1> QED BY <1>1, <1>2, <1>3, <1>4, <1>5, <1>6, <1>7, <1>8, <1>9, <1>10, <1>11, <1>12, <1>13
        DEF Next

\* The inductive invariant holds of every behaviour.
THEOREM Invariance == Spec => []IInv
  BY InitIInv, NextIInv, PTL DEF Spec

\* A write never shares the lane, across switches, failures, late answers and quit,
\* and its commands are neither lost nor doubled, while no Draft is linked during it.
THEOREM LaneExclusive == Spec => []LaneIsExclusive
<1>1. IInv => LaneIsExclusive
  BY DEF IInv
<1> QED BY <1>1, Invariance, PTL

\* What waits for its Reconciliation is about the PullRequest on the screen.
THEOREM SettledShown == Spec => []SettledIsShown
<1>1. IInv => SettledIsShown
  BY DEF IInv
<1> QED BY <1>1, Invariance, PTL

\* The Session on the screen shows the Drafts as they are persisted.
THEOREM DraftsShown == Spec => []ShownDraftsCurrent
<1>1. IInv => ShownDraftsCurrent
  BY DEF IInv
<1> QED BY <1>1, Invariance, PTL

\* Only the answer of the current intent, built from the Drafts as they are,
\* publishes a Session.
LEMMA OnlyPublishPublishes ==
    ASSUME [Next]_vars, nextEpoch' # nextEpoch
    PROVE  \E c \in issued : c.type = "prepare" /\ Current(c) /\ ~Stale(c) /\ Publish(c)
<1>1. ASSUME Next PROVE Complete
  BY <1>1 DEF Next, choosePullRequest, Refresh, StartWrite, SaveDraft, LinkUnknown,
              KeyDuringSubmission, requestShutdown, takeCommand, AtBitbucket, SubmissionProgress,
              Exit
<1>2. Complete
  BY <1>1 DEF vars
<1>3. PICK c \in issued : acceptLoadedSession(c) \/ acceptPreparedSession(c)
  BY <1>2 DEF Complete, AcceptWrite, SubmissionFinished
<1>4. ~acceptLoadedSession(c)
  BY DEF acceptLoadedSession, Superseded, LoadFailed, CandidateFailed, failReplacement,
         queueCandidateSession
<1>5. acceptPreparedSession(c)
  BY <1>3, <1>4
<1> QED
  BY <1>5 DEF acceptPreparedSession, Superseded, CandidateFailed, failReplacement,
              queueCandidateSession

\* What is published is what the reviewer chose last.
THEOREM LastChoice == Spec => LastChoiceWins
<1>1. IInv /\ [Next]_vars => [nextEpoch' # nextEpoch => published'.key = asked]_vars
  <2> SUFFICES ASSUME IInv, [Next]_vars, nextEpoch' # nextEpoch PROVE published'.key = asked
    OBVIOUS
  <2> QED BY OnlyPublishPublishes, PublishShows
<1> QED BY <1>1, Invariance, PTL DEF Spec, LastChoiceWins

\* A publication that releases a settled write has read the PullRequest after the
\* write was applied.
THEOREM ReconciliationShows == Spec => ReconciliationShowsTheWrite
<1> DEFINE A == nextEpoch' # nextEpoch =>
                  \A s \in Slot : lane[s] # None /\ lane[s].settled /\ lane'[s] = None
                                      => published'.seen >= lane[s].version
<1>1. IInv /\ [Next]_vars => [A]_vars
  <2> SUFFICES ASSUME IInv, [Next]_vars, nextEpoch' # nextEpoch,
                      NEW s \in Slot, lane[s] # None /\ lane[s].settled
               PROVE  published'.seen >= lane[s].version
    OBVIOUS
  <2> QED BY OnlyPublishPublishes, PublishShows DEF Settled
<1> QED BY <1>1, Invariance, PTL DEF Spec, ReconciliationShowsTheWrite
=============================================================================
