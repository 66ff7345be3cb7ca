-------------------------- MODULE SerialRefreshProofs --------------------------
(***************************************************************************)
(* What is true of the world, and not only of itself, in what a refresh    *)
(* publishes.  First for refreshes that do not overlap, as they do not     *)
(* where an interval refresh takes the debouncer's lock.  They are         *)
(* excluded by the hypothesis []Serial, not by the model, and              *)
(* RefreshTriggersProofs discharges it.  Then, in the last section, what   *)
(* is left of it for those that do overlap.  The lists, the faults, the    *)
(* DNS half and max_retries are arbitrary.                                 *)
(***************************************************************************)
EXTENDS RuleListSyncProofs, SyncSensor

Serial == \A r, s \in Refreshes : task[r].pc # "idle" /\ task[s].pc # "idle" => r = s

AllIdle == \A r \in Refreshes : task[r].pc = "idle"

\* What a refresh knows of a world that has not moved since it began: its IP is
\* the source's, what it just read is the list, and the verdict it carries into
\* the DNS half is true.
Fresh(t) ==
  /\ t.pc # "idle" => t.local = ReadSourceIp
  /\ t.pc \in {"reading", "verifying"} /\ t.reply.class = "ok" => t.reply.items = list
  /\ t.pc = "dns" /\ ~t.failed => IsInSync(t.local, list)

ReportFresh == AllIdle /\ outcome = "success" /\ data.inSync => IsInSync(ReadSourceIp, list)

Current == ~drifted => ReportFresh /\ \A r \in Refreshes : Fresh(task[r])

\* The notification that the list sync failed goes with the report, or with the
\* verdict that waits for the DNS half.
Told ==
  /\ (\A r \in Refreshes : task[r].pc # "dns") => NotificationInSync
  /\ \A r \in Refreshes : task[r].pc = "dns" => (task[r].failed <=> "list" \in notified)

\* The notification that the record could not be updated goes with the verdict.
DnsTold ==
  /\ ~DnsEnabled => "dns" \notin notified
  /\ data # NoData => /\ data.dnsInSync = "yes" => "dns" \notin notified
                      /\ data.dnsInSync = "no" => "dns" \in notified

Truthful == Current /\ Told /\ DnsTold

--------------------------------------------------------------------------------
\* The others are idle while one refresh steps.
LEMMA OthersIdle ==
  ASSUME Serial, Serial', NEW r \in Refreshes, Alone(r),
         task[r].pc # "idle" \/ task'[r].pc # "idle"
  PROVE  \A s \in Refreshes \ {r} : task[s].pc = "idle" /\ task'[s].pc = "idle"
BY DEF Serial, Alone

\* So it is enough to look at the one that stepped.
LEMMA StepCurrent ==
  ASSUME Serial, Serial', NEW r \in Refreshes, Alone(r),
         task[r].pc # "idle" \/ task'[r].pc # "idle",
         ~drifted' => ReportFresh' /\ Fresh(task[r])'
  PROVE  Current'
<1>1. \A s \in Refreshes \ {r} : task'[s].pc = "idle"
    BY OthersIdle
<1>2. ASSUME NEW s \in Refreshes, task'[s].pc = "idle"
      PROVE  Fresh(task[s])'
    BY <1>2 DEF Fresh
<1> QED BY <1>1, <1>2 DEF Current

LEMMA StepTold ==
  ASSUME Serial, Serial', NEW r \in Refreshes, Alone(r),
         task[r].pc # "idle" \/ task'[r].pc # "idle",
         task'[r].pc # "dns" => NotificationInSync',
         task'[r].pc = "dns" => (task'[r].failed <=> "list" \in notified')
  PROVE  Told'
BY OthersIdle DEF Told

\* A refresh takes an answer in, or goes on, with nothing to tell.
LEMMA QuietTold ==
  ASSUME Serial, Serial', Told, NEW r \in Refreshes, Alone(r),
         task[r].pc # "idle" \/ task'[r].pc # "idle",
         task[r].pc # "dns", task'[r].pc # "dns", UNCHANGED <<notified, data>>
  PROVE  Told'
<1>1. \A s \in Refreshes : task[s].pc # "dns"
    BY OthersIdle
<1>2. NotificationInSync'
    BY <1>1 DEF Told, NotificationInSync
<1> QED BY <1>2, StepTold

--------------------------------------------------------------------------------
\* The shapes again.

\* The list half ends with a verdict that is true of the list.
LEMMA ListHalfTruthful ==
  ASSUME IInv, Serial, Serial', DnsTold, NEW r \in Refreshes, task[r].pc # "idle",
         NEW ips \in SUBSET Items, NEW failed \in BOOLEAN, NEW synced \in BOOLEAN,
         ListHalfEnds(r, ips, failed, synced),
         failed <=> "list" \in notified',
         "dns" \in notified' <=> "dns" \in notified,
         UNCHANGED <<source, list, drifted>>,
         ~drifted => task[r].local = ReadSourceIp,
         ~drifted /\ ~failed /\ task[r].local # NoIP => IsInSync(task[r].local, list)
  PROVE  Truthful'
<1>1. task[r].local \in Hosts \cup {NoIP}
    BY Before DEF Task
<1>2. CASE DnsEnabled /\ task[r].local # NoIP
  <2> DEFINE u == [pc |-> "dns", local |-> task[r].local, seen |-> ips, attempt |-> 0,
                   delay |-> 0, failed |-> failed, reply |-> NoReply]
  <2>1. Alone(r) /\ task'[r] = u /\ UNCHANGED <<data, outcome>>
      BY <1>2, Before DEF Alone, ListHalfEnds
  <2>2. u.pc = "dns" /\ u.local = task[r].local /\ u.failed = failed
      OBVIOUS
  <2> HIDE DEF u
  <2>3. ReportFresh'
      BY <2>1, <2>2 DEF ReportFresh, AllIdle
  <2>4. ~drifted' => Fresh(task[r])'
      BY <1>2, <2>1, <2>2 DEF Fresh, ReadSourceIp, IsInSync, Networks
  <2>5. Told'
      BY <2>1, <2>2, StepTold
  <2>6. DnsTold'
      BY <2>1 DEF DnsTold
  <2> QED BY <2>1, <2>3, <2>4, <2>5, <2>6, StepCurrent DEF Truthful
<1>3. CASE ~(DnsEnabled /\ task[r].local # NoIP)
  <2> DEFINE d == [localIp |-> task[r].local, cloudflareIps |-> ips,
                   inSync |-> task[r].local # NoIP /\ ~failed,
                   lastSynced |-> synced, lastError |-> failed, dnsInSync |-> "none"]
  <2>1. Alone(r) /\ task'[r] = IdleTask /\ data' = d
      BY <1>3, Before DEF Alone, ListHalfEnds, Publishes
  <2>2. d \in Report
      BY <1>1 DEF Report
  <2>3. /\ d.inSync = (task[r].local # NoIP /\ ~failed) /\ d.lastError = failed
        /\ d.dnsInSync = "none" /\ d # NoData
      BY <2>2, NoDataAssumption
  <2> HIDE DEF d
  <2>4. IdleTask.pc = "idle"
      BY DEF IdleTask
  <2>5. ~drifted' => ReportFresh'
      BY <2>1, <2>3 DEF ReportFresh, ReadSourceIp, IsInSync, Networks
  <2>6. Fresh(task[r])'
      BY <2>1, <2>4 DEF Fresh
  <2>7. NotificationInSync'
      BY <2>1, <2>3 DEF NotificationInSync
  <2>8. Told'
      BY <2>1, <2>4, <2>7, StepTold
  <2>9. DnsTold'
      BY <2>1, <2>3 DEF DnsTold
  <2> QED BY <2>1, <2>5, <2>6, <2>8, <2>9, StepCurrent DEF Truthful
<1> QED BY <1>2, <1>3

\* What a refresh knows, and what its step shares with every other.
LEMMA Knows ==
  ASSUME IInv, Truthful, NEW r \in Refreshes
  PROVE  /\ task[r] \in Task
         /\ ~drifted => Fresh(task[r])
         /\ DnsTold
BY Before DEF Truthful, Current

LEMMA GivesUpTruthful ==
  ASSUME IInv, Serial, Serial', Truthful, NEW r \in Refreshes, task[r].pc # "idle",
         NEW ips \in SUBSET Items, GivesUp(r, ips), UNCHANGED <<source, list, drifted>>
  PROVE  Truthful'
<1>1. lastSynced \in BOOLEAN
    BY DEF IInv, TypeOK
<1> QED BY <1>1, Knows, ListHalfTruthful DEF GivesUp, Fresh

LEMMA SettlesTruthful ==
  ASSUME IInv, Serial, Serial', Truthful, NEW r \in Refreshes, task[r].pc # "idle",
         NEW ips \in SUBSET Items, NEW synced \in BOOLEAN, Settles(r, ips, synced),
         UNCHANGED <<source, list, drifted>>,
         ~drifted => ips = list,
         task[r].local # NoIP => IsInSync(task[r].local, ips)
  PROVE  Truthful'
BY Knows, ListHalfTruthful DEF Settles, Fresh

\* The refresh goes on without an answer, outside the DNS half.
LEMMA GoesOnTruthful ==
  ASSUME IInv, Serial, Serial', Truthful, NEW r \in Refreshes, task[r].pc # "idle",
         task[r].pc # "dns", Alone(r), task'[r].pc \notin {"idle", "dns"},
         task'[r].local = task[r].local, task'[r].reply.class # "ok",
         UNCHANGED <<source, list, data, notified, drifted>>
  PROVE  Truthful'
<1>1. ReportFresh'
    BY DEF ReportFresh, AllIdle
<1>2. ~drifted' => Fresh(task[r])'
    BY Knows DEF Fresh, ReadSourceIp
<1>3. Told'
    BY QuietTold DEF Truthful
<1>4. DnsTold'
    BY Knows DEF DnsTold
<1> QED BY <1>1, <1>2, <1>3, <1>4, StepCurrent DEF Truthful

LEMMA GoesToTruthful ==
  ASSUME IInv, Serial, Serial', Truthful, NEW r \in Refreshes,
         task[r].pc \in {"reading", "replacing", "polling", "verifying"},
         NEW pc \in {"checking", "polling", "verifying", "backoff"}, GoesTo(r, pc),
         UNCHANGED <<source, list, data, notified, drifted>>
  PROVE  Truthful'
<1>1. /\ Alone(r) /\ task'[r].pc = pc /\ task'[r].local = task[r].local
      /\ task'[r].reply = NoReply
    BY Before DEF Alone, GoesTo, Task
<1>2. NoReply.class # "ok"
    BY DEF NoReply
<1> QED BY <1>1, <1>2, GoesOnTruthful

LEMMA RaisesTruthful ==
  ASSUME IInv, Serial, Serial', Truthful, NEW r \in Refreshes, task[r].pc \notin {"idle", "dns"},
         NEW how \in {"failed", "auth"}, Raises(r, how),
         UNCHANGED <<source, list, notified, drifted>>
  PROVE  Truthful'
<1>1. Alone(r) /\ task'[r].pc = "idle" /\ UNCHANGED data /\ outcome' # "success"
    BY Before DEF Alone, Raises, IdleTask
<1>2. ReportFresh' /\ Fresh(task[r])'
    BY <1>1 DEF ReportFresh, Fresh
<1>3. Told'
    BY <1>1, QuietTold DEF Truthful
<1>4. DnsTold'
    BY <1>1, Knows DEF DnsTold
<1> QED BY <1>1, <1>2, <1>3, <1>4, StepCurrent DEF Truthful

LEMMA AttemptFailsTruthful ==
  ASSUME IInv, Serial, Serial', Truthful, NEW r \in Refreshes, AttemptFails(r),
         task[r].pc \in {"replacing", "polling", "verifying"}
  PROVE  Truthful'
<1>1. UNCHANGED <<source, list, drifted>> /\ task[r].seen \in SUBSET Items
    BY Before DEF AttemptFails, Task
<1>2. CASE task[r].attempt < MaxRetries
    BY <1>1, <1>2, GoesToTruthful DEF AttemptFails
<1>3. CASE ~(task[r].attempt < MaxRetries)
    BY <1>1, <1>3, GivesUpTruthful DEF AttemptFails
<1> QED BY <1>2, <1>3

--------------------------------------------------------------------------------
\* The steps.

\* A step that changes no refresh and no report.
LEMMA WorldTruthful ==
  ASSUME Truthful, UNCHANGED <<task, data, outcome, notified>>,
         ~drifted' => UNCHANGED <<source, list, drifted>>
  PROVE  Truthful'
BY DEF Truthful, Current, ReportFresh, AllIdle, Fresh, ReadSourceIp, IsInSync, Networks,
   Told, NotificationInSync, DnsTold

\* Cloudflare applies the operation of a refresh that polls for it: nothing that
\* was read is stale by it.
LEMMA BulkCompletesTruthful ==
  ASSUME IInv, Serial, Truthful, NEW r \in Refreshes, BulkCompletes(r)
  PROVE  Truthful'
<1>1. task[r].pc \in {"polling", "replacing"} /\ UNCHANGED <<source, task, published, drifted>>
    BY Before DEF BulkCompletes, Upheld
<1>2. \A s \in Refreshes \ {r} : task[s].pc = "idle"
    BY <1>1 DEF Serial
<1>3. ReportFresh'
    BY <1>1 DEF ReportFresh, AllIdle
<1>4. ASSUME NEW s \in Refreshes, ~drifted PROVE Fresh(task[s])'
  <2>1. Fresh(task[s])
      BY <1>4 DEF Truthful, Current
  <2>2. task[s].pc \in {"polling", "replacing", "idle"}
      BY <1>1, <1>2
  <2> QED BY <1>1, <2>1, <2>2 DEF Fresh, ReadSourceIp
<1> QED BY <1>1, <1>3, <1>4 DEF Truthful, Current, Told, NotificationInSync, DnsTold, published

LEMMA BeginTruthful ==
  ASSUME IInv, Serial, Serial', Truthful, NEW r \in Refreshes, Begin(r)
  PROVE  Truthful'
<1>1. /\ Alone(r) /\ task[r].pc = "idle"
      /\ task'[r].pc = "reading" /\ task'[r].local = ReadSourceIp
      /\ task'[r].reply = NoReply
    BY Before DEF Alone, Begin, Task, Upheld, Requesting
<1>2. UNCHANGED <<source, list, data, notified>>
    BY DEF Begin, cloudflare, published
<1>3. NoReply.class # "ok"
    BY DEF NoReply
<1>4. ReportFresh' /\ Fresh(task[r])'
    BY <1>1, <1>2, <1>3 DEF ReportFresh, AllIdle, Fresh, ReadSourceIp
<1>5. Told'
    BY <1>1, <1>2, QuietTold DEF Truthful
<1>6. DnsTold'
    BY <1>2, Knows DEF DnsTold
<1> QED BY <1>1, <1>4, <1>5, <1>6, StepCurrent DEF Truthful

\* What is read or verified is the list.
LEMMA ItemsAnswered ==
  ASSUME IInv, NEW r \in Refreshes, Answer(r) \/ Fault(r),
         task[r].pc \in {"reading", "verifying"}, task'[r].reply.class = "ok"
  PROVE  task'[r].reply.items = list
<1>1. ASSUME NEW class, NEW items, NEW says, Answered(r, class, items, says)
      PROVE  task'[r].reply.class = class /\ task'[r].reply.items = items
  <2>1. task'[r] = [task[r] EXCEPT !.reply = [class |-> class, items |-> items, says |-> says]]
      BY <1>1, Before DEF Answered
  <2> QED BY <2>1, Before DEF Task
<1>2. CASE AnswerItems(r)
    BY <1>1, <1>2 DEF AnswerItems
<1>3. CASE AnswerNoSuchList(r)
    BY <1>1, <1>3 DEF AnswerNoSuchList
<1>4. CASE AnswerLists(r) \/ AnswerReplace(r) \/ AnswerPoll(r) \/ ReplaceAnswerLost(r)
    BY <1>4 DEF AnswerLists, AnswerReplace, AnswerPoll, ReplaceAnswerLost, Awaits
<1>5. CASE RequestFails(r)
  <2>1. PICK class \in Faults : Answered(r, class, {}, "nothing")
      BY <1>5 DEF RequestFails
  <2> QED BY <1>1, <2>1, FaultsAssumption DEF ErrorClasses
<1> QED BY <1>2, <1>3, <1>4, <1>5 DEF Answer, Fault

LEMMA AnswerTruthful ==
  ASSUME IInv, Serial, Serial', Truthful, NEW r \in Refreshes, Answer(r) \/ Fault(r)
  PROVE  Truthful'
<1>1. PICK reply : task' = [task EXCEPT ![r].reply = reply]
    BY DEF Answer, Fault, Answered, AnswerItems, AnswerNoSuchList, AnswerLists, AnswerReplace,
       AnswerPoll, RequestFails, ReplaceAnswerLost
<1>2. /\ Alone(r) /\ task'[r] = [task[r] EXCEPT !.reply = reply]
      /\ task'[r].pc = task[r].pc /\ task'[r].local = task[r].local /\ task'[r].reply = reply
    BY <1>1, Before DEF Alone, Task
<1>3. task[r].pc \in Requesting
    BY DEF Answer, Fault, AnswerItems, AnswerNoSuchList, AnswerLists, AnswerReplace, AnswerPoll,
       RequestFails, ReplaceAnswerLost, Awaits, Requesting
<1>4. UNCHANGED <<source, list, published, drifted>>
    BY DEF Answer, Fault, AnswerItems, AnswerNoSuchList, AnswerLists, AnswerReplace, AnswerPoll,
       RequestFails, ReplaceAnswerLost, cloudflare
<1>6. task[r].pc \in {"reading", "verifying"} /\ reply.class = "ok" => reply.items = list
    BY <1>2, ItemsAnswered
<1>7. ReportFresh'
    BY <1>2, <1>3 DEF ReportFresh, AllIdle, Requesting
<1>8. ~drifted' => Fresh(task[r])'
    BY <1>2, <1>3, <1>4, <1>6, Knows DEF Fresh, ReadSourceIp, Requesting
<1>9. Told'
    BY <1>2, <1>3, <1>4, QuietTold DEF Truthful, Requesting, published
<1>10. DnsTold'
    BY <1>4, Knows DEF DnsTold, published
<1> QED BY <1>2, <1>3, <1>7, <1>8, <1>9, <1>10, StepCurrent DEF Truthful, Requesting

LEMMA ReadTruthful ==
  ASSUME IInv, Serial, Serial', Truthful, NEW r \in Refreshes,
         ReadSettles(r) \/ ReadDiffers(r) \/ VerifyMatches(r)
  PROVE  Truthful'
<1> DEFINE ips == task[r].reply.items
<1>1. /\ task[r].pc \in {"reading", "verifying"} /\ task[r].reply.class = "ok"
      /\ UNCHANGED <<source, list, drifted>>
    BY DEF ReadSettles, ReadDiffers, VerifyMatches, Got, cloudflare
<1>2. ips \in SUBSET Items /\ lastSynced \in BOOLEAN /\ IsInSync(task[r].local, ips) \in BOOLEAN
    BY Before DEF Task, Reply, WorldOK, IsInSync
<1>3. ~drifted => ips = list
    BY <1>1, Knows DEF Fresh
<1>4. CASE ReadSettles(r)
  <2>1. /\ Settles(r, ips, lastSynced \/ IsInSync(task[r].local, ips))
        /\ task[r].local # NoIP => IsInSync(task[r].local, ips)
      BY <1>4 DEF ReadSettles
  <2>2. (lastSynced \/ IsInSync(task[r].local, ips)) \in BOOLEAN
      OBVIOUS
  <2> HIDE DEF ips
  <2> QED BY <1>1, <1>2, <1>3, <2>1, <2>2, SettlesTruthful
<1>5. CASE VerifyMatches(r)
  <2>1. Settles(r, ips, TRUE) /\ IsInSync(task[r].local, ips)
      BY <1>5 DEF VerifyMatches
  <2> HIDE DEF ips
  <2> QED BY <1>1, <1>2, <1>3, <2>1, SettlesTruthful
<1>6. CASE ReadDiffers(r) /\ MaxRetries = 0
    BY <1>1, <1>2, <1>6, GivesUpTruthful DEF ReadDiffers
<1>7. CASE ReadDiffers(r) /\ MaxRetries # 0
  <2>1. /\ Alone(r) /\ task'[r].pc = "replacing" /\ task'[r].local = task[r].local
        /\ task'[r].reply = NoReply /\ UNCHANGED <<data, notified>>
      BY <1>7, Before DEF Alone, ReadDiffers
  <2>2. NoReply.class # "ok"
      BY DEF NoReply
  <2> QED BY <1>1, <2>1, <2>2, GoesOnTruthful
<1> QED BY <1>4, <1>5, <1>6, <1>7

LEMMA BackoffEndsTruthful ==
  ASSUME IInv, Serial, Serial', Truthful, NEW r \in Refreshes, BackoffEnds(r)
  PROVE  Truthful'
<1>1. /\ Alone(r) /\ task[r].pc = "backoff" /\ task'[r].pc = "replacing"
      /\ task'[r].local = task[r].local /\ task'[r].reply = task[r].reply
      /\ task[r].reply = NoReply
    BY Before DEF Alone, BackoffEnds, Task, Upheld, Requesting
<1>2. UNCHANGED <<source, list, data, notified, drifted>> /\ NoReply.class # "ok"
    BY DEF BackoffEnds, cloudflare, published, NoReply
<1> QED BY <1>1, <1>2, GoesOnTruthful

\* The DNS half returns, and the verdict of the list half is published with its own.
LEMMA DnsTruthful ==
  ASSUME IInv, Serial, Serial', Truthful, NEW r \in Refreshes, DnsReturns(r)
  PROVE  Truthful'
<1>1. PICK ok \in BOOLEAN :
        /\ notified' = IF ok THEN notified \ {"dns"} ELSE notified \cup {"dns"}
        /\ Publishes(r, task[r].seen, task[r].failed, lastSynced, IF ok THEN "yes" ELSE "no")
    BY DEF DnsReturns
<1>2. /\ task[r].pc = "dns" /\ UNCHANGED <<source, list, drifted>>
      /\ task[r] \in Task /\ DnsEnabled /\ lastSynced \in BOOLEAN
    BY Before DEF DnsReturns, cloudflare, Upheld, WorldOK
<1> DEFINE d == [localIp |-> task[r].local, cloudflareIps |-> task[r].seen,
                 inSync |-> task[r].local # NoIP /\ ~task[r].failed,
                 lastSynced |-> lastSynced, lastError |-> task[r].failed,
                 dnsInSync |-> IF ok THEN "yes" ELSE "no"]
<1>3. Alone(r) /\ task'[r] = IdleTask /\ data' = d /\ IdleTask.pc = "idle"
    BY <1>1, Before DEF Alone, Publishes, IdleTask
<1>4. d \in Report
    BY <1>2 DEF Report, Task
<1>5. /\ d.inSync = (task[r].local # NoIP /\ ~task[r].failed) /\ d.lastError = task[r].failed
      /\ d.dnsInSync = (IF ok THEN "yes" ELSE "no") /\ d # NoData
    BY <1>4, NoDataAssumption
<1> HIDE DEF d
<1>6. ~drifted' => ReportFresh'
    BY <1>2, <1>3, <1>5, Knows DEF ReportFresh, Fresh, ReadSourceIp, IsInSync, Networks
<1>7. Fresh(task[r])'
    BY <1>3 DEF Fresh
<1>8. NotificationInSync'
  <2>1. task[r].failed <=> "list" \in notified
      BY <1>2 DEF Truthful, Told
  <2> QED BY <1>1, <1>3, <1>5, <2>1 DEF NotificationInSync
<1>9. Told'
    BY <1>2, <1>3, <1>8, StepTold
<1>10. DnsTold'
    BY <1>1, <1>2, <1>3, <1>5 DEF DnsTold
<1> QED BY <1>2, <1>3, <1>6, <1>7, <1>9, <1>10, StepCurrent DEF Truthful

LEMMA ResumeTruthful ==
  ASSUME IInv, Serial, Serial', Truthful, NEW r \in Refreshes, Resume(r) \/ BulkTimesOut(r)
  PROVE  Truthful'
<1>1. CASE TokenRejected(r)
    BY <1>1, RaisesTruthful DEF TokenRejected, Got
<1>2. CASE ReadBroken(r)
    BY <1>2, RaisesTruthful DEF ReadBroken, Got, cloudflare
<1>3. CASE CheckReturns(r)
    BY <1>3, RaisesTruthful DEF CheckReturns, cloudflare
<1>4. CASE ReadRejected(r)
    BY <1>4, GoesToTruthful DEF ReadRejected, Got, cloudflare, published
<1>5. CASE ReplaceReturns(r)
    BY <1>5, GoesToTruthful DEF ReplaceReturns, Got, cloudflare, published
<1>6. CASE PollAgain(r)
    BY <1>6, GoesToTruthful DEF PollAgain, Got, cloudflare, published
<1>7. CASE PollCompleted(r)
    BY <1>7, GoesToTruthful DEF PollCompleted, Got, published
<1>8. CASE RequestBreaksAttempt(r) \/ PollFailed(r) \/ VerifyDiffers(r) \/ BulkTimesOut(r)
    BY <1>8, AttemptFailsTruthful
       DEF RequestBreaksAttempt, PollFailed, VerifyDiffers, BulkTimesOut, Got
<1> QED BY <1>1, <1>2, <1>3, <1>4, <1>5, <1>6, <1>7, <1>8, ReadTruthful, BackoffEndsTruthful,
       DnsTruthful DEF Resume

LEMMA NextTruthful ==
  IInv /\ Serial /\ Serial' /\ Truthful /\ [Next]_vars => Truthful'
<1> SUFFICES ASSUME IInv, Serial, Serial', Truthful, [Next]_vars PROVE Truthful'
    OBVIOUS
<1>1. CASE Environment \/ StrayCompletes \/ StrayFails \/ UNCHANGED vars
    BY <1>1, WorldTruthful DEF Environment, SourceChanges, ListEdited, ListDeleted, ListRestored,
       StrayCompletes, StrayApplied, StrayFails, vars, cloudflare, published
<1>2. ASSUME NEW r \in Refreshes, BulkFails(r) PROVE Truthful'
    BY <1>2, WorldTruthful DEF BulkFails, published
<1> QED BY <1>1, <1>2, BulkCompletesTruthful, BeginTruthful, AnswerTruthful, ResumeTruthful
       DEF Next, Apply

LEMMA InitTruthful == Init => Truthful
<1> SUFFICES ASSUME Init PROVE Truthful
    OBVIOUS
<1>1. \A r \in Refreshes : task[r].pc = "idle"
    BY DEF Init, IdleTask
<1> QED BY <1>1 DEF Init, Truthful, Current, ReportFresh, Fresh, Told, NotificationInSync, DnsTold

LEMMA TruthfulInvariance == Spec /\ []Serial => []Truthful
BY InitTruthful, NextTruthful, Invariance, PTL DEF Spec

--------------------------------------------------------------------------------
\* The theorems.

\* Where refreshes do not overlap, the published "in sync" is true of the world:
\* until the source or the list moves by itself, in_sync means that the list
\* matches the source now.
THEOREM InSyncStaysCurrent == Spec /\ []Serial => []InSyncIsCurrent
<1>1. Truthful => InSyncIsCurrent
    BY DEF Truthful, Current, ReportFresh, AllIdle, InSyncIsCurrent
<1> QED BY <1>1, TruthfulInvariance, PTL

\* Where refreshes do not overlap, the notification of the list sync goes with the
\* published error also when the DNS half delays the report.
THEOREM NotificationMatchesWithDns == Spec /\ []Serial => []NotificationMatchesReport
<1>1. Truthful => NotificationMatchesReport
    BY DEF Truthful, Told, NotificationInSync, NotificationMatchesReport
<1> QED BY <1>1, TruthfulInvariance, PTL

\* Where refreshes do not overlap, sensor and notifications tell the same story
\* (native_value against the notifications of both halves).
THEOREM SensorAgrees == Spec /\ []Serial => []SensorAgreesWithNotifications
<1>1. IInv /\ Truthful => SensorAgreesWithNotifications
  <2> SUFFICES ASSUME IInv, Truthful, AllIdle, Shown # "unavailable"
               PROVE  /\ Shown = "in_sync" => notified = {}
                      /\ Shown = "out_of_sync" /\ data.localIp # NoIP => notified # {}
      BY DEF SensorAgreesWithNotifications, AllIdle
  <2>1. ("list" \in notified) <=> (data # NoData /\ data.lastError)
      BY DEF Truthful, Told, NotificationInSync, AllIdle
  <2>2. notified \subseteq {"list", "dns"} /\ data \in Report \cup {NoData}
      BY DEF IInv, TypeOK
  <2>3. Shown = NativeValue
      BY DEF Shown
  <2>4. CASE Shown = "in_sync"
    <3>1. data # NoData /\ data.inSync /\ data.dnsInSync # "no"
        BY <2>3, <2>4 DEF NativeValue
    <3>2. data.localIp # NoIP /\ ~data.lastError
        BY <2>2, <3>1 DEF IInv, ReportIsCoherent, IsInSync, Report
    <3>3. "dns" \notin notified
        BY <2>2, <3>1, <3>2 DEF Truthful, DnsTold, IInv, ReportIsCoherent, Report
    <3> QED BY <2>1, <2>2, <2>4, <3>2, <3>3
  <2>5. CASE Shown = "out_of_sync" /\ data.localIp # NoIP
    <3>1. data # NoData /\ ~(data.inSync /\ data.dnsInSync # "no")
        BY <2>3, <2>5 DEF NativeValue
    <3>2. data.lastError \/ data.dnsInSync = "no"
        BY <2>2, <2>5, <3>1 DEF IInv, ReportIsCoherent, Report
    <3> QED BY <2>1, <2>5, <3>1, <3>2 DEF Truthful, DnsTold
  <2> QED BY <2>4, <2>5
<1> QED BY <1>1, TruthfulInvariance, Invariance, PTL

--------------------------------------------------------------------------------
\* Refreshes that do overlap.

\* No refresh is under way, and no operation that may still be applied brings another
\* address than the source's.
Rest == AllIdle /\ strays \subseteq {ReadSourceIp}

Match == IsInSync(ReadSourceIp, list)

\* What overlapping refreshes of one address agree on: a list that was found to match
\* still matches, whatever the others have done to it since.
Agrees(t) ==
  /\ t.pc # "idle" => t.local = ReadSourceIp
  /\ t.pc \in {"reading", "verifying"} /\ t.reply.class = "ok"
     /\ IsInSync(ReadSourceIp, t.reply.items) => Match
  /\ t.pc = "dns" /\ ~t.failed => Match

Agreed == strays \subseteq {ReadSourceIp} /\ \A r \in Refreshes : Agrees(task[r])

\* A step undoes no match, and a refresh that publishes "in sync" is right.
MatchStays == Match => Match'
Publishing(r) == task[r].pc # "idle" /\ task'[r].pc = "idle" /\ outcome' = "success"
ReportsTruly == \A r \in Refreshes : Publishing(r) /\ data'.inSync => Match'

\* A step of r that leaves the world alone.
Concurs(r) == Alone(r) /\ Agrees(task[r])' /\ (Publishing(r) /\ data'.inSync => Match')

LEMMA StepAgreed ==
  ASSUME Agreed, NEW r \in Refreshes, Concurs(r), UNCHANGED <<source, list>>,
         strays' \subseteq {ReadSourceIp}
  PROVE  Agreed' /\ MatchStays /\ ReportsTruly
<1>1. MatchStays /\ ReadSourceIp' = ReadSourceIp
    BY DEF MatchStays, Match, IsInSync, Networks, ReadSourceIp
<1>2. ASSUME NEW s \in Refreshes \ {r} PROVE Agrees(task[s])' /\ ~Publishing(s)
  <2>1. Agrees(task[s]) /\ task'[s] = task[s]
      BY <1>2 DEF Agreed, Concurs, Alone
  <2> QED BY <1>1, <2>1 DEF Agrees, IsInSync, Networks, MatchStays, Publishing
<1>3. Agreed'
    BY <1>1, <1>2 DEF Agreed, Concurs
<1> QED BY <1>1, <1>2, <1>3 DEF ReportsTruly, Concurs

\* A step of Cloudflare that changes no refresh.
LEMMA WorldAgreed ==
  ASSUME Agreed, UNCHANGED <<source, task>>, strays' \subseteq strays, MatchStays
  PROVE  Agreed' /\ ReportsTruly
<1>1. ReadSourceIp' = ReadSourceIp
    BY DEF ReadSourceIp
<1>2. ASSUME NEW s \in Refreshes PROVE Agrees(task[s])'
    BY <1>1 DEF Agreed, Agrees, MatchStays, IsInSync, Networks
<1> QED BY <1>1, <1>2 DEF Agreed, ReportsTruly, Publishing

\* An operation for the source's address leaves a list that matches.
LEMMA AppliedMatches ==
  ASSUME ReadSourceIp \in Hosts, NEW i \in Spellings(ReadSourceIp), list' = {i}, UNCHANGED source
  PROVE  MatchStays
<1>1. ReadSourceIp' = ReadSourceIp
    BY DEF ReadSourceIp
<1>2. ReadSourceIp # NoIP /\ Network[ReadSourceIp] # NoNetwork
    BY DomainAssumption
<1>3. Networks({i}) = {Network[ReadSourceIp]}
    BY <1>2 DEF Networks, Spellings
<1> QED BY <1>1, <1>2, <1>3 DEF MatchStays, Match, IsInSync, Networks

LEMMA ApplyAgreed ==
  ASSUME IInv, Agreed, Apply
  PROVE  Agreed' /\ MatchStays /\ ReportsTruly
<1>1. ASSUME NEW r \in Refreshes, BulkCompletes(r) PROVE Agreed' /\ MatchStays /\ ReportsTruly
  <2>1. /\ task[r].pc \in {"polling", "replacing"}
        /\ task[r].local = ReadSourceIp /\ task[r].local \in Hosts
      BY <1>1, Before DEF BulkCompletes, Upheld, InLoop, Agreed, Agrees
  <2>2. MatchStays
      BY <1>1, <2>1, AppliedMatches DEF BulkCompletes
  <2> QED BY <1>1, <2>2, WorldAgreed DEF BulkCompletes
<1>2. CASE StrayCompletes
  <2>1. PICK ip \in strays : StrayApplied(ip)
      BY <1>2 DEF StrayCompletes
  <2>2. ip = ReadSourceIp /\ ip \in Hosts
      BY DEF Agreed, IInv, TypeOK
  <2>3. MatchStays
      BY <2>1, <2>2, AppliedMatches DEF StrayApplied
  <2> QED BY <2>1, <2>3, WorldAgreed DEF StrayApplied, OneDone
<1>3. CASE StrayFails \/ \E r \in Refreshes : BulkFails(r)
  <2>1. UNCHANGED <<source, list, task>> /\ strays' \subseteq strays
      BY <1>3 DEF StrayFails, BulkFails
  <2>2. MatchStays
      BY <2>1 DEF MatchStays, Match, IsInSync, Networks, ReadSourceIp
  <2> QED BY <2>1, <2>2, WorldAgreed
<1> QED BY <1>1, <1>2, <1>3 DEF Apply

\* A refresh goes on without an answer, outside the DNS half.
LEMMA GoesOnConcurs ==
  ASSUME Agreed, NEW r \in Refreshes, Alone(r), task[r].pc # "idle",
         task'[r].pc \notin {"idle", "dns"}, task'[r].local = task[r].local,
         task'[r].reply.class # "ok", UNCHANGED source
  PROVE  Concurs(r)
BY DEF Agreed, Agrees, Concurs, Publishing, ReadSourceIp

LEMMA GoesToConcurs ==
  ASSUME IInv, Agreed, NEW r \in Refreshes, task[r].pc # "idle",
         NEW pc \in {"checking", "polling", "verifying", "backoff"}, GoesTo(r, pc),
         UNCHANGED source
  PROVE  Concurs(r)
<1>1. /\ Alone(r) /\ task'[r].pc = pc /\ task'[r].local = task[r].local
      /\ task'[r].reply = NoReply
    BY Before DEF Alone, GoesTo, Task
<1>2. NoReply.class # "ok"
    BY DEF NoReply
<1> QED BY <1>1, <1>2, GoesOnConcurs

LEMMA RaisesConcurs ==
  ASSUME IInv, NEW r \in Refreshes, NEW how \in {"failed", "auth"}, Raises(r, how)
  PROVE  Concurs(r)
BY Before DEF Concurs, Alone, Raises, IdleTask, Agrees, Publishing

\* The list half ends without an error only if the list matches.
LEMMA ListHalfConcurs ==
  ASSUME IInv, Agreed, NEW r \in Refreshes, task[r].pc # "idle",
         NEW ips, NEW failed \in BOOLEAN, NEW synced,
         ListHalfEnds(r, ips, failed, synced), UNCHANGED <<source, list>>,
         ~failed /\ task[r].local # NoIP => Match
  PROVE  Concurs(r)
<1>1. Match' = Match /\ ReadSourceIp' = ReadSourceIp
    BY DEF Match, IsInSync, Networks, ReadSourceIp
<1>2. CASE DnsEnabled /\ task[r].local # NoIP
  <2> DEFINE u == [pc |-> "dns", local |-> task[r].local, seen |-> ips, attempt |-> 0,
                   delay |-> 0, failed |-> failed, reply |-> NoReply]
  <2>1. Alone(r) /\ task'[r] = u
      BY <1>2, Before DEF Alone, ListHalfEnds
  <2>2. u.pc = "dns" /\ u.local = task[r].local /\ u.failed = failed
      OBVIOUS
  <2> HIDE DEF u
  <2> QED BY <1>1, <1>2, <2>1, <2>2 DEF Concurs, Publishing, Agreed, Agrees
<1>3. CASE ~(DnsEnabled /\ task[r].local # NoIP)
  <2>1. Alone(r) /\ task'[r].pc = "idle" /\ data'.inSync = (task[r].local # NoIP /\ ~failed)
      BY <1>3, Before DEF Alone, ListHalfEnds, Publishes, IdleTask
  <2> QED BY <1>1, <2>1 DEF Concurs, Agrees
<1> QED BY <1>2, <1>3

LEMMA AttemptFailsConcurs ==
  ASSUME IInv, Agreed, NEW r \in Refreshes, task[r].pc # "idle", AttemptFails(r)
  PROVE  Concurs(r)
<1>1. CASE task[r].attempt < MaxRetries
    BY <1>1, GoesToConcurs DEF AttemptFails
<1>2. CASE ~(task[r].attempt < MaxRetries)
    BY <1>2, ListHalfConcurs DEF AttemptFails, GivesUp
<1> QED BY <1>1, <1>2

LEMMA AnswerConcurs ==
  ASSUME IInv, Agreed, NEW r \in Refreshes, Answer(r) \/ Fault(r)
  PROVE  Concurs(r)
<1>1. PICK reply : task' = [task EXCEPT ![r].reply = reply]
    BY DEF Answer, Fault, Answered, AnswerItems, AnswerNoSuchList, AnswerLists, AnswerReplace,
       AnswerPoll, RequestFails, ReplaceAnswerLost
<1>2. /\ Alone(r) /\ task'[r].pc = task[r].pc /\ task'[r].local = task[r].local
      /\ task'[r].reply = reply
    BY <1>1, Before DEF Alone, Task
<1>3. task[r].pc \in Requesting /\ UNCHANGED <<source, list>>
    BY DEF Answer, Fault, AnswerItems, AnswerNoSuchList, AnswerLists, AnswerReplace, AnswerPoll,
       RequestFails, ReplaceAnswerLost, Awaits, Requesting, cloudflare
<1>4. task[r].pc \in {"reading", "verifying"} /\ reply.class = "ok" => reply.items = list
    BY <1>2, ItemsAnswered
<1>5. Match' = Match /\ ReadSourceIp' = ReadSourceIp
    BY <1>3 DEF Match, IsInSync, Networks, ReadSourceIp
<1> QED BY <1>2, <1>3, <1>4, <1>5 DEF Concurs, Publishing, Agreed, Agrees, Requesting, Match

LEMMA ReadConcurs ==
  ASSUME IInv, Agreed, NEW r \in Refreshes, ReadSettles(r) \/ ReadDiffers(r) \/ VerifyMatches(r)
  PROVE  Concurs(r)
<1>1. /\ task[r].pc \in {"reading", "verifying"} /\ task[r].reply.class = "ok"
      /\ UNCHANGED <<source, list>>
    BY DEF ReadSettles, ReadDiffers, VerifyMatches, Got, cloudflare
<1>2. IsInSync(task[r].local, task[r].reply.items) => Match
    BY <1>1 DEF Agreed, Agrees
<1>3. CASE ReadSettles(r) \/ VerifyMatches(r)
    BY <1>1, <1>2, <1>3, ListHalfConcurs DEF ReadSettles, VerifyMatches, Settles
<1>4. CASE ReadDiffers(r) /\ MaxRetries = 0
    BY <1>1, <1>4, ListHalfConcurs DEF ReadDiffers, GivesUp
<1>5. CASE ReadDiffers(r) /\ MaxRetries # 0
  <2>1. /\ Alone(r) /\ task'[r].pc = "replacing" /\ task'[r].local = task[r].local
        /\ task'[r].reply = NoReply /\ NoReply.class # "ok"
      BY <1>5, Before DEF Alone, ReadDiffers, NoReply
  <2> QED BY <1>1, <2>1, GoesOnConcurs
<1> QED BY <1>3, <1>4, <1>5

LEMMA DnsConcurs ==
  ASSUME IInv, Agreed, NEW r \in Refreshes, DnsReturns(r)
  PROVE  Concurs(r)
<1>1. PICK dns : Publishes(r, task[r].seen, task[r].failed, lastSynced, dns)
    BY DEF DnsReturns
<1>2. Alone(r) /\ task'[r].pc = "idle" /\ data'.inSync = (task[r].local # NoIP /\ ~task[r].failed)
    BY <1>1, Before DEF Alone, Publishes, IdleTask
<1>3. task[r].pc = "dns" /\ Match' = Match
    BY DEF DnsReturns, cloudflare, Match, IsInSync, Networks, ReadSourceIp
<1> QED BY <1>2, <1>3 DEF Concurs, Agreed, Agrees

LEMMA ResumeConcurs ==
  ASSUME IInv, Agreed, NEW r \in Refreshes, Resume(r) \/ BulkTimesOut(r)
  PROVE  Concurs(r)
<1>1. CASE TokenRejected(r) \/ ReadBroken(r) \/ CheckReturns(r)
    BY <1>1, RaisesConcurs DEF TokenRejected, ReadBroken, CheckReturns
<1>2. CASE ReadRejected(r) \/ ReplaceReturns(r) \/ PollAgain(r) \/ PollCompleted(r)
    BY <1>2, GoesToConcurs DEF ReadRejected, ReplaceReturns, PollAgain, PollCompleted, Got
<1>3. CASE RequestBreaksAttempt(r) \/ PollFailed(r) \/ VerifyDiffers(r) \/ BulkTimesOut(r)
    BY <1>3, AttemptFailsConcurs
       DEF RequestBreaksAttempt, PollFailed, VerifyDiffers, BulkTimesOut, Got
<1>4. CASE BackoffEnds(r)
  <2>1. /\ Alone(r) /\ task[r].pc = "backoff" /\ task'[r].pc = "replacing"
        /\ task'[r].local = task[r].local /\ task'[r].reply = task[r].reply
        /\ task[r].reply = NoReply /\ NoReply.class # "ok" /\ UNCHANGED source
      BY <1>4, Before DEF Alone, BackoffEnds, Task, Upheld, Requesting, NoReply
  <2> QED BY <2>1, GoesOnConcurs
<1> QED BY <1>1, <1>2, <1>3, <1>4, ReadConcurs, DnsConcurs DEF Resume

\* A refresh that gives an operation up leaves one for the source's address behind.
LEMMA StraysAgree ==
  ASSUME Agreed, NEW r \in Refreshes,
         Begin(r) \/ Answer(r) \/ Fault(r) \/ Resume(r) \/ BulkTimesOut(r)
  PROVE  strays' \subseteq {ReadSourceIp} /\ UNCHANGED <<source, list>>
<1>1. task[r].pc # "idle" => task[r].local = ReadSourceIp
    BY DEF Agreed, Agrees
<1>2. CASE ReplaceAnswerLost(r)
    BY <1>1, <1>2 DEF ReplaceAnswerLost, Awaits, Agreed
<1>3. ASSUME Releases(r), task[r].pc # "idle" PROVE strays' \subseteq {ReadSourceIp}
    BY <1>1, <1>3 DEF Releases, Agreed
<1>4. CASE \/ TokenRejected(r) \/ RequestBreaksAttempt(r) \/ PollFailed(r) \/ PollCompleted(r)
           \/ VerifyDiffers(r) \/ BulkTimesOut(r)
    BY <1>3, <1>4 DEF TokenRejected, RequestBreaksAttempt, PollFailed, PollCompleted,
       VerifyDiffers, BulkTimesOut, AttemptFails, Got
<1>5. CASE \/ Begin(r) \/ AnswerItems(r) \/ AnswerNoSuchList(r) \/ AnswerLists(r)
           \/ AnswerReplace(r) \/ AnswerPoll(r) \/ RequestFails(r)
           \/ ReadBroken(r) \/ ReadRejected(r) \/ CheckReturns(r) \/ ReadSettles(r)
           \/ ReadDiffers(r) \/ ReplaceReturns(r) \/ PollAgain(r) \/ VerifyMatches(r)
           \/ BackoffEnds(r) \/ DnsReturns(r)
    BY <1>5 DEF Agreed, cloudflare, Begin, AnswerItems, AnswerNoSuchList, AnswerLists,
       AnswerReplace, AnswerPoll, RequestFails, ReadBroken, ReadRejected, CheckReturns,
       ReadSettles, ReadDiffers, ReplaceReturns, PollAgain, VerifyMatches, BackoffEnds, DnsReturns
<1> QED BY <1>2, <1>4, <1>5 DEF Answer, Fault, Resume

LEMMA BeginConcurs ==
  ASSUME IInv, NEW r \in Refreshes, Begin(r)
  PROVE  Concurs(r)
<1>1. /\ Alone(r) /\ task[r].pc = "idle"
      /\ task'[r].pc = "reading" /\ task'[r].local = ReadSourceIp /\ UNCHANGED source
      /\ task'[r].reply = NoReply /\ NoReply.class # "ok"
    BY Before DEF Alone, Begin, Task, Upheld, Requesting, NoReply
<1> QED BY <1>1 DEF Concurs, Agrees, Publishing, ReadSourceIp

LEMMA NextAgreed ==
  IInv /\ Agreed /\ [Next]_vars /\ [~Environment]_vars
    => Agreed' /\ [MatchStays /\ ReportsTruly]_vars
<1> SUFFICES ASSUME IInv, Agreed, [Next]_vars, [~Environment]_vars
             PROVE  Agreed' /\ [MatchStays /\ ReportsTruly]_vars
    OBVIOUS
<1>1. CASE UNCHANGED vars
  <2>1. UNCHANGED <<source, list, task, strays>> /\ MatchStays
      BY <1>1 DEF vars, cloudflare, MatchStays, Match, IsInSync, Networks, ReadSourceIp
  <2> QED BY <1>1, <2>1, WorldAgreed
<1>2. ASSUME NEW r \in Refreshes,
             Begin(r) \/ Answer(r) \/ Fault(r) \/ Resume(r) \/ BulkTimesOut(r)
      PROVE  Agreed' /\ MatchStays /\ ReportsTruly
    BY <1>2, BeginConcurs, AnswerConcurs, ResumeConcurs, StraysAgree, StepAgreed
<1> QED BY <1>1, <1>2, ApplyAgreed DEF Next

\* Refreshes of one address may overlap without harm, any number of them, whatever
\* fails or times out and with or without the DNS half: from rest on, and until source
\* or list are changed by others, no refresh undoes a match, and each that publishes
\* "in sync" is right.  (It takes a change of the source for the replace of one refresh
\* to be the undoing of another.)
THEOREM OverlapHarmless ==
  Spec => [](Rest /\ [][~Environment]_vars => [][MatchStays /\ ReportsTruly]_vars)
<1>1. Rest => Agreed
    BY DEF Rest, AllIdle, Agreed, Agrees
<1> QED BY <1>1, NextAgreed, Invariance, PTL DEF Spec

================================================================================
