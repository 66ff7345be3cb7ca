------------------------- MODULE RefreshTriggersProofs -------------------------
(***************************************************************************)
(* Proofs about when refreshes run, for every kind of refresh that         *)
(* RuleListSync knows: whatever triggers and steps come in whatever order, *)
(* the next refresh is never lost, and where interval refreshes take the   *)
(* debouncer's lock refreshes exclude each other, so that what was proved  *)
(* of refreshes that do not overlap holds.                                 *)
(***************************************************************************)
EXTENDS RefreshTriggers, SerialRefreshProofs

\* TTypeOK made inductive: before the entry is loaded the debouncer has nothing
\* to do, and where interval refreshes take the lock only one refresh runs.
TInv ==
  /\ TTypeOK
  /\ ~loaded => timer = "off" /\ ~interval /\ ~Running(Debounced)
  /\ ScheduledLocks => ~(Running(Debounced) /\ Running(Scheduled))

--------------------------------------------------------------------------------
\* The triggers only choose when the refreshes step.

LEMMA RunsSteps ==
  ASSUME NEW r \in Refreshes, Runs(r)
  PROVE  Answer(r) \/ Fault(r) \/ Resume(r) \/ BulkTimesOut(r)
BY DEF Runs

LEMMA TriggersChoose == [TNext]_allVars => [Next]_vars
<1> SUFFICES ASSUME [TNext]_allVars PROVE [Next]_vars
    OBVIOUS
<1>1. CASE SourceEvent \/ ListMoves
    BY <1>1 DEF SourceEvent, ListMoves, Next, Environment
<1>2. CASE ForceSync \/ CooldownEnds \/ UNCHANGED allVars
    BY <1>2 DEF ForceSync, CooldownEnds, allVars
<1>3. CASE Applied
    BY <1>3 DEF Applied, Next, Apply
<1>4. CASE FirstRefresh \/ DebounceEnds \/ IntervalFires
    BY <1>4, RefreshesAssumption DEF FirstRefresh, DebounceEnds, IntervalFires, Begins, Next
<1>5. ASSUME NEW r \in Refreshes, Runs(r) PROVE [Next]_vars
    BY <1>5, RunsSteps DEF Next
<1> QED BY <1>1, <1>2, <1>3, <1>4, <1>5 DEF TNext

\* However its refreshes are triggered, the coordinator behaves as RuleListSync
\* says of refreshes that begin at any time: so does all that is proved of it.
THEOREM TriggersRefine == TSpec => Spec
<1>1. TInit => Init
    BY DEF TInit
<1> QED BY <1>1, TriggersChoose, PTL DEF TSpec, Spec

LEMMA TInvariance == TSpec => []IInv
BY TriggersRefine, Invariance, PTL

--------------------------------------------------------------------------------
\* Who steps.

\* Only a refresh that runs takes steps of its own, and alone.
LEMMA RunsAlone ==
  ASSUME IInv, NEW r \in Refreshes, Answer(r) \/ Fault(r) \/ Resume(r) \/ BulkTimesOut(r)
  PROVE  Running(r) /\ Alone(r)
<1>1. ASSUME NEW reply, task' = [task EXCEPT ![r].reply = reply] PROVE Alone(r)
    BY <1>1, Before DEF Alone
<1>2. ASSUME NEW pc, GoesTo(r, pc) PROVE Alone(r)
    BY <1>2, Before DEF Alone, GoesTo
<1>3. ASSUME NEW ips, NEW failed, NEW synced, ListHalfEnds(r, ips, failed, synced)
      PROVE  Alone(r)
    BY <1>3, Before DEF Alone, ListHalfEnds, Publishes
<1>4. ASSUME AttemptFails(r) PROVE Alone(r)
    BY <1>2, <1>3, <1>4 DEF AttemptFails, GivesUp
<1>5. CASE Answer(r) \/ Fault(r)
    BY <1>1, <1>5 DEF Answer, Fault, Answered, Awaits, Running, Requesting, AnswerItems,
       AnswerNoSuchList, AnswerLists, AnswerReplace, AnswerPoll, RequestFails, ReplaceAnswerLost
<1>6. CASE \/ TokenRejected(r) \/ ReadBroken(r) \/ CheckReturns(r) \/ DnsReturns(r)
    BY <1>6, Before DEF TokenRejected, ReadBroken, CheckReturns, DnsReturns, Got, Raises,
       Publishes, Running, Alone
<1>7. CASE ReadRejected(r) \/ ReplaceReturns(r) \/ PollAgain(r) \/ PollCompleted(r)
    BY <1>2, <1>7 DEF ReadRejected, ReplaceReturns, PollAgain, PollCompleted, Got, Running
<1>8. CASE RequestBreaksAttempt(r) \/ PollFailed(r) \/ VerifyDiffers(r) \/ BulkTimesOut(r)
    BY <1>4, <1>8 DEF RequestBreaksAttempt, PollFailed, VerifyDiffers, BulkTimesOut, Got, Running
<1>9. CASE ReadSettles(r) \/ VerifyMatches(r)
    BY <1>3, <1>9 DEF ReadSettles, VerifyMatches, Settles, Got, Running
<1>10. CASE ReadDiffers(r)
    BY <1>3, <1>10, Before DEF ReadDiffers, GivesUp, Got, Running, Alone
<1>11. CASE BackoffEnds(r)
    BY <1>11, Before DEF BackoffEnds, Running, Alone
<1> QED BY <1>5, <1>6, <1>7, <1>8, <1>9, <1>10, <1>11 DEF Resume

\* While a refresh goes on, the report stays.
LEMMA OutcomeOnlyAtEnd ==
  ASSUME IInv, NEW r \in Refreshes, Answer(r) \/ Fault(r) \/ Resume(r) \/ BulkTimesOut(r),
         Running(r)'
  PROVE  UNCHANGED outcome
<1>1. ASSUME task' = [task EXCEPT ![r] = IdleTask] PROVE FALSE
    BY <1>1, Before DEF Running, IdleTask
<1>2. ASSUME NEW ips, NEW failed, NEW synced, ListHalfEnds(r, ips, failed, synced)
      PROVE  UNCHANGED outcome
    BY <1>1, <1>2 DEF ListHalfEnds, Publishes
<1>3. ASSUME AttemptFails(r) PROVE UNCHANGED outcome
    BY <1>2, <1>3 DEF AttemptFails, GivesUp
<1> QED BY <1>1, <1>2, <1>3 DEF Answer, Fault, Resume, AnswerItems, AnswerNoSuchList, AnswerLists,
      AnswerReplace, AnswerPoll, RequestFails, ReplaceAnswerLost, TokenRejected, ReadBroken,
      ReadRejected, CheckReturns, DnsReturns, Raises, Publishes, ReplaceReturns, PollAgain,
      PollCompleted, ReadSettles, VerifyMatches, Settles, ReadDiffers, GivesUp, BackoffEnds,
      RequestBreaksAttempt, PollFailed, VerifyDiffers, BulkTimesOut, published

LEMMA WorldMoves ==
  ASSUME SourceChanges \/ ListMoves \/ Applied
  PROVE  UNCHANGED <<task, outcome>>
BY DEF SourceChanges, ListMoves, ListEdited, ListDeleted, ListRestored, Applied, BulkCompletes,
   BulkFails, StrayCompletes, StrayApplied, StrayFails, published

\* A refresh that begins is the only one that comes to run.
LEMMA BeginsRuns ==
  ASSUME IInv, NEW r \in Refreshes, Begin(r)
  PROVE  Running(r)' /\ Alone(r) /\ UNCHANGED outcome
BY Before DEF Begin, Running, Alone, published

--------------------------------------------------------------------------------
\* The invariant.

LEMMA TInitInvariant == TInit => TInv /\ SafetyNetHolds
<1> SUFFICES ASSUME TInit PROVE TInv /\ SafetyNetHolds
    OBVIOUS
<1>1. ~Running(Debounced) /\ ~Running(Scheduled)
    BY RefreshesAssumption DEF TInit, Init, Running, IdleTask
<1>2. ~loaded /\ ~interval /\ timer = "off" /\ unserved = "nothing"
    BY DEF TInit
<1>3. loaded \in BOOLEAN /\ interval \in BOOLEAN /\ calm \in BOOLEAN
    BY Zenon DEF TInit
<1> QED BY <1>1, <1>2, <1>3 DEF TInv, TTypeOK, SafetyNetHolds

\* A refresh runs on, or ends and sets the timers.
LEMMA RunsKeeps ==
  ASSUME IInv, TInv, SafetyNetHolds, NEW r \in Refreshes, Runs(r)
  PROVE  TInv' /\ SafetyNetHolds'
<1>1. Running(r) /\ Alone(r) /\ (Running(r)' => UNCHANGED outcome) /\ UNCHANGED calm
    BY RunsSteps, RunsAlone, OutcomeOnlyAtEnd DEF Runs
<1>2. \A s \in Refreshes \ {r} : Running(s)' = Running(s)
    BY <1>1 DEF Alone, Running
<1>3. CASE Running(r)'
  <2>1. UNCHANGED triggers /\ \A s \in Refreshes : Running(s)' = Running(s)
    <3>1. UNCHANGED triggers
        BY <1>3 DEF Runs
    <3> QED BY <1>1, <1>2, <1>3, <3>1 DEF Running
  <2>2. /\ Running(Debounced)' = Running(Debounced) /\ Running(Scheduled)' = Running(Scheduled)
        /\ UNCHANGED <<loaded, timer, interval, unserved, calm>>
    <3>1. UNCHANGED <<loaded, timer, interval, unserved, calm>>
        BY <1>1, <2>1 DEF triggers
    <3> QED BY <2>1, <3>1, RefreshesAssumption
  <2>3. Locked' = Locked
      BY <2>2 DEF Locked
  <2>4. TInv'
      BY <2>2, <2>3 DEF TInv, TTypeOK
  <2>5. SafetyNetHolds'
      BY <1>3 DEF SafetyNetHolds, AtRest
  <2> QED BY <2>4, <2>5
<1>4. CASE ~Running(r)'
  <2>1. Ends(r)
      BY <1>1, <1>4 DEF Runs
  <2>2. TInv'
      BY <1>1, <1>2, <1>4, <2>1, RefreshesAssumption DEF TInv, TTypeOK, Ends, Locked
  <2>3. SafetyNetHolds'
      BY <2>1 DEF SafetyNetHolds, Ends
  <2> QED BY <2>2, <2>3
<1> QED BY <1>3, <1>4

\* A refresh begins and cancels the timers.
LEMMA BeginsKeeps ==
  ASSUME IInv, TInv, FirstRefresh \/ DebounceEnds \/ IntervalFires
  PROVE  TInv' /\ SafetyNetHolds'
<1>1. PICK r \in Refreshes : /\ Begins(r) /\ UNCHANGED <<loaded, calm>>
                             /\ r = Debounced => DebounceEnds
                             /\ r = Scheduled => FirstRefresh \/ IntervalFires
    BY RefreshesAssumption DEF FirstRefresh, DebounceEnds, IntervalFires
<1>2. Running(r)' /\ \A s \in Refreshes \ {r} : Running(s)' = Running(s)
    BY <1>1, BeginsRuns DEF Begins, Alone, Running
<1>3. /\ timer' = "off" /\ interval' = FALSE /\ unserved' = "nothing"
      /\ UNCHANGED <<loaded, calm>>
    BY <1>1 DEF Begins
<1>4. SafetyNetHolds'
    BY <1>2 DEF SafetyNetHolds, AtRest
<1>5. CASE r = Debounced
  <2>1. loaded /\ ~Locked
      BY <1>1, <1>5 DEF DebounceEnds, TInv
  <2>2. ScheduledLocks => ~Running(Scheduled)
      BY <2>1 DEF Locked
  <2>3. TInv'
      BY <1>2, <1>3, <1>5, <2>1, <2>2, RefreshesAssumption DEF TInv, TTypeOK
  <2> QED BY <1>4, <2>3
<1>6. CASE r = Scheduled
  <2>1. ScheduledLocks \/ ~loaded => ~Running(Debounced)
      BY <1>1, <1>6, RefreshesAssumption DEF FirstRefresh, IntervalFires, TInv, Locked, AtRest
  <2>2. TInv'
      BY <1>2, <1>3, <1>6, <2>1, RefreshesAssumption DEF TInv, TTypeOK
  <2> QED BY <1>4, <2>2
<1> QED BY <1>5, <1>6, RefreshesAssumption

\* A step of the world or of the debouncer's timer.
LEMMA TimersKeep ==
  ASSUME TInv, SafetyNetHolds,
         SourceEvent \/ ForceSync \/ ListMoves \/ Applied \/ CooldownEnds \/ UNCHANGED allVars
  PROVE  TInv' /\ SafetyNetHolds'
<1>1. UNCHANGED <<task, outcome, loaded, interval, calm>>
    BY WorldMoves DEF SourceEvent, ForceSync, ListMoves, Applied, CooldownEnds, allVars, triggers,
       vars, published
<1>2. unserved' \in {"nothing", "change", "dns", "unheard"}
    BY DEF SourceEvent, ForceSync, ListMoves, Applied, CooldownEnds, allVars, triggers, TInv,
       TTypeOK
<1>3. \/ UNCHANGED timer
      \/ loaded /\ Requested
      \/ timer = "cooldown" /\ timer' = "off"
    BY DEF SourceEvent, ForceSync, ListMoves, Applied, CooldownEnds, allVars, triggers
<1>4. /\ Running(Debounced)' = Running(Debounced) /\ Running(Scheduled)' = Running(Scheduled)
      /\ AtRest' = AtRest /\ Locked' = Locked
    BY <1>1 DEF Running, AtRest, Locked
<1>5. TInv'
    BY <1>1, <1>2, <1>3, <1>4 DEF TInv, TTypeOK, Requested, Dropped, Locked
<1>6. SafetyNetHolds'
    BY <1>1, <1>3, <1>4, RefreshesAssumption
       DEF SafetyNetHolds, Requested, Dropped, Locked, AtRest
<1> QED BY <1>5, <1>6

LEMMA TNextInvariant ==
  IInv /\ TInv /\ SafetyNetHolds /\ [TNext]_allVars => TInv' /\ SafetyNetHolds'
BY RunsKeeps, BeginsKeeps, TimersKeep DEF TNext

\* Type correctness of the triggers; the debouncer's timer never runs beside its
\* call, and where interval refreshes take the lock none is ever due while it is
\* held (what Home Assistant's coordinator takes for granted).
THEOREM TriggersTypeCorrect == TSpec => []TTypeOK
<1>1. TInv => TTypeOK
    BY DEF TInv
<1> QED BY <1>1, TInitInvariant, TNextInvariant, TInvariance, PTL DEF TSpec

\* The safety net never tears: whatever happens while refreshes run, fail and
\* cancel each other's timers, a loaded entry at rest has its next refresh ahead
\* of it, unless the token was rejected.
THEOREM SafetyNetNeverTears == TSpec => []SafetyNetHolds
BY TInitInvariant, TNextInvariant, TInvariance, PTL DEF TSpec

--------------------------------------------------------------------------------
\* Where interval refreshes take the lock.

LEMMA LockExcludes ==
  ASSUME TInv, ScheduledLocks
  PROVE  Serial
BY RefreshesAssumption DEF TInv, Serial, Running

\* Where interval refreshes take the lock, refreshes do not overlap.
THEOREM LockSerializes ==
  ASSUME ScheduledLocks
  PROVE  TSpec => []Serial
BY LockExcludes, TInitInvariant, TNextInvariant, TInvariance, PTL DEF TSpec

\* Where interval refreshes take the lock, a published "in sync" is true of the
\* world until the source or the list moves by itself.
THEOREM LockKeepsInSyncCurrent ==
  ASSUME ScheduledLocks
  PROVE  TSpec => []InSyncIsCurrent
BY TriggersRefine, LockSerializes, InSyncStaysCurrent, PTL

\* Where interval refreshes take the lock, what the user is told is consistent: the
\* notification goes with the published error, with the DNS half and its delays too,
\* and at rest the sensor tells the same story as the notifications.
THEOREM LockKeepsUserInformed ==
  ASSUME ScheduledLocks
  PROVE  TSpec => [](NotificationMatchesReport /\ SensorAgreesWithNotifications)
BY TriggersRefine, LockSerializes, NotificationMatchesWithDns, SensorAgrees, PTL

\* A refresh that runs on leaves source and list alone, and keeps the IP it began with.
LEMMA RunsLeaveWorld ==
  ASSUME NEW r \in Refreshes,
         Begin(r) \/ Answer(r) \/ Fault(r) \/ Resume(r) \/ BulkTimesOut(r)
  PROVE  UNCHANGED <<source, list>>
BY DEF Begin, Answer, Fault, Resume, AnswerItems, AnswerNoSuchList, AnswerLists,
   AnswerReplace, AnswerPoll, RequestFails, ReplaceAnswerLost, TokenRejected, ReadBroken,
   ReadRejected, CheckReturns, DnsReturns, ReplaceReturns, PollAgain, PollCompleted,
   ReadSettles, VerifyMatches, ReadDiffers, BackoffEnds, RequestBreaksAttempt, PollFailed,
   VerifyDiffers, BulkTimesOut, AttemptFails, cloudflare

LEMMA LocalKept ==
  ASSUME IInv, NEW r \in Refreshes, Answer(r) \/ Fault(r) \/ Resume(r) \/ BulkTimesOut(r),
         Running(r)'
  PROVE  task'[r].local = task[r].local
<1>1. ASSUME task' = [task EXCEPT ![r] = IdleTask] PROVE FALSE
    BY <1>1, Before DEF Running, IdleTask
<1>2. ASSUME NEW ips, NEW failed, NEW synced, ListHalfEnds(r, ips, failed, synced)
      PROVE  task'[r].local = task[r].local
    BY <1>1, <1>2, Before DEF ListHalfEnds, Publishes
<1>3. ASSUME NEW pc, GoesTo(r, pc) PROVE task'[r].local = task[r].local
    BY <1>3, Before DEF GoesTo, Task
<1>4. ASSUME NEW reply, task' = [task EXCEPT ![r].reply = reply]
      PROVE  task'[r].local = task[r].local
    BY <1>4, Before DEF Task
<1>5. ASSUME AttemptFails(r) PROVE task'[r].local = task[r].local
    BY <1>2, <1>3, <1>5 DEF AttemptFails, GivesUp
<1>6. CASE Answer(r) \/ Fault(r)
    BY <1>4, <1>6 DEF Answer, Fault, Answered, AnswerItems, AnswerNoSuchList, AnswerLists,
       AnswerReplace, AnswerPoll, RequestFails, ReplaceAnswerLost
<1>7. CASE \/ TokenRejected(r) \/ ReadBroken(r) \/ CheckReturns(r) \/ DnsReturns(r)
           \/ ReadSettles(r) \/ VerifyMatches(r)
    BY <1>1, <1>2, <1>7 DEF TokenRejected, ReadBroken, CheckReturns, DnsReturns, Raises,
       Publishes, ReadSettles, VerifyMatches, Settles
<1>8. CASE \/ ReadRejected(r) \/ ReplaceReturns(r) \/ PollAgain(r) \/ PollCompleted(r)
           \/ RequestBreaksAttempt(r) \/ PollFailed(r) \/ VerifyDiffers(r) \/ BulkTimesOut(r)
    BY <1>3, <1>5, <1>8 DEF ReadRejected, ReplaceReturns, PollAgain, PollCompleted,
       RequestBreaksAttempt, PollFailed, VerifyDiffers, BulkTimesOut
<1>9. CASE BackoffEnds(r)
    BY <1>9, Before DEF BackoffEnds, Task
<1>10. CASE ReadDiffers(r)
  <2>1. CASE MaxRetries = 0
      BY <1>2, <1>10, <2>1 DEF ReadDiffers, GivesUp
  <2>2. CASE MaxRetries # 0
      BY <1>10, <2>2, Before DEF ReadDiffers
  <2> QED BY <2>1, <2>2
<1> QED BY <1>6, <1>7, <1>8, <1>9, <1>10 DEF Resume

\* Under the lock, unless the source has changed since the last refresh began, whoever
\* runs has the address the source shows.
UpToDate ==
  ScheduledLocks /\ unserved = "nothing"
    => \A r \in Refreshes : Running(r) => task[r].local = ReadSourceIp

LEMMA UpToDateKept ==
  ASSUME IInv, TInv, TInv', UpToDate, [TNext]_allVars
  PROVE  UpToDate'
<1> SUFFICES ASSUME ScheduledLocks, unserved' = "nothing"
             PROVE  \A s \in Refreshes : Running(s)' => task'[s].local = ReadSourceIp'
    BY RefreshesAssumption DEF UpToDate
<1>1. CASE ForceSync \/ ListMoves \/ Applied \/ CooldownEnds \/ UNCHANGED allVars
  <2>1. UNCHANGED <<task, source, unserved>>
      BY <1>1 DEF ForceSync, ListMoves, ListEdited, ListDeleted, ListRestored, Applied,
         BulkCompletes, BulkFails, StrayCompletes, StrayApplied, StrayFails, CooldownEnds,
         allVars, vars, triggers
  <2> QED BY <2>1 DEF UpToDate, Running, ReadSourceIp
<1>2. CASE SourceEvent
  <2>1. unserved' \in {"unheard", "dns", "change"}
      BY <1>2 DEF SourceEvent, TInv, TTypeOK
  <2> QED BY <2>1
<1>3. CASE FirstRefresh \/ DebounceEnds \/ IntervalFires
  <2>1. PICK r \in Refreshes : Begin(r)
      BY <1>3, RefreshesAssumption DEF FirstRefresh, DebounceEnds, IntervalFires, Begins
  <2>2. Running(r)' /\ task'[r].local = ReadSourceIp /\ UNCHANGED source
      BY <2>1, Before DEF Begin, Running, Task
  <2>3. \A s \in Refreshes \ {r} : ~Running(s)'
      BY <2>2, RefreshesAssumption DEF TInv
  <2> QED BY <2>2, <2>3 DEF ReadSourceIp
<1>4. ASSUME NEW r \in Refreshes, Runs(r)
      PROVE  \A s \in Refreshes : Running(s)' => task'[s].local = ReadSourceIp'
  <2>1. /\ Running(r) /\ Alone(r) /\ UNCHANGED source
        /\ Running(r)' => task'[r].local = task[r].local
      BY <1>4, RunsSteps, RunsAlone, RunsLeaveWorld, LocalKept
  <2>2. UNCHANGED unserved
      BY <1>4 DEF Runs, Ends, triggers
  <2> QED BY <2>1, <2>2 DEF UpToDate, Alone, Running, ReadSourceIp
<1> QED BY <1>1, <1>2, <1>3, <1>4 DEF TNext

\* An operation that is applied, polled for or not, brings the address of the source.
LEMMA MatchKept ==
  ASSUME IInv, TInv, UpToDate, [TNext]_allVars, ScheduledLocks, unserved' = "nothing",
         ~ListOverwritten, IsInSync(ReadSourceIp, list)
  PROVE  IsInSync(ReadSourceIp', list')
<1>1. CASE UNCHANGED <<source, list>>
    BY <1>1 DEF ReadSourceIp, IsInSync, Networks
<1>2. ReadSourceIp \in Hosts
    BY DEF IsInSync, ReadSourceIp
<1>3. ASSUME NEW i \in Spellings(ReadSourceIp), list' = {i}, UNCHANGED source
      PROVE  IsInSync(ReadSourceIp', list')
    BY <1>2, <1>3, AppliedMatches DEF MatchStays, Match
<1>4. CASE Applied
  <2>1. ASSUME NEW r \in Refreshes, BulkCompletes(r) PROVE IsInSync(ReadSourceIp', list')
    <3>1. UNCHANGED <<source, unserved>> /\ Running(r)
        BY <1>4, <2>1, Before DEF Applied, triggers, BulkCompletes, Upheld, Running
    <3>2. task[r].local = ReadSourceIp
        BY <3>1 DEF UpToDate
    <3> QED BY <1>3, <2>1, <3>1, <3>2 DEF BulkCompletes
  <2>2. CASE StrayCompletes
    <3>1. PICK ip \in strays : StrayApplied(ip)
        BY <2>2 DEF StrayCompletes
    <3>2. ip = ReadSourceIp
        BY <3>1 DEF ListOverwritten
    <3> QED BY <1>3, <3>1, <3>2 DEF StrayApplied
  <2>3. CASE StrayFails \/ \E r \in Refreshes : BulkFails(r)
      BY <1>1, <2>3 DEF StrayFails, BulkFails
  <2> QED BY <1>4, <2>1, <2>2, <2>3 DEF Applied
<1>5. CASE FirstRefresh \/ DebounceEnds \/ IntervalFires \/ \E r \in Refreshes : Runs(r)
  <2>1. PICK r \in Refreshes : Begin(r) \/ Answer(r) \/ Fault(r) \/ Resume(r) \/ BulkTimesOut(r)
      BY <1>5, RunsSteps, RefreshesAssumption
         DEF FirstRefresh, DebounceEnds, IntervalFires, Begins
  <2> QED BY <1>1, <2>1, RunsLeaveWorld
<1>6. CASE SourceEvent \/ ListMoves
  <2>1. ASSUME SourceEvent PROVE unserved' \in {"unheard", "dns", "change"}
      BY <2>1 DEF SourceEvent, TInv, TTypeOK
  <2> QED BY <1>6, <2>1 DEF ListOverwritten
<1>7. CASE ForceSync \/ CooldownEnds \/ UNCHANGED allVars
    BY <1>1, <1>7 DEF ForceSync, CooldownEnds, allVars, vars, cloudflare
<1> QED BY <1>4, <1>5, <1>6, <1>7 DEF TNext

\* A list that is right stays right where interval refreshes take the lock: if the
\* source has not changed since the last refresh began, no step undoes a match but an
\* edit of the list, or a late operation for a former address.  Neither does the
\* operation a refresh polls for, nor one it stopped polling for, whatever others did
\* to the list before.
THEOREM MatchIsKept == TSpec => LockKeepsMatch
<1> DEFINE Keeps == ScheduledLocks /\ unserved' = "nothing" /\ ~ListOverwritten
                      => (IsInSync(ReadSourceIp, list) => IsInSync(ReadSourceIp', list'))
<1>1. TInit => UpToDate
    BY DEF TInit, Init, UpToDate, Running, IdleTask
<1>2. IInv /\ TInv /\ TInv' /\ UpToDate /\ [TNext]_allVars => UpToDate'
    BY UpToDateKept
<1>3. IInv /\ TInv /\ UpToDate /\ [TNext]_allVars => [Keeps]_allVars
    BY MatchKept
<1> QED BY <1>1, <1>2, <1>3, TInitInvariant, TNextInvariant, TInvariance, PTL
        DEF TSpec, LockKeepsMatch

================================================================================
