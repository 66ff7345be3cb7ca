------------------------------ MODULE DnsSyncProofs ------------------------------
(***************************************************************************)
(* The DNS half of a refresh keeps its types, and implements what the      *)
(* update it is part of relies on (DnsOutcome), for every number of        *)
(* overlapping refreshes, every zone, every max_retries, and whatever      *)
(* requests fail.                                                          *)
(*                                                                         *)
(* The inductive invariant is IInv: the types, that a refresh at work has  *)
(* an IP and asleep no answer, and that it updates a record that was       *)
(* listed.                                                                 *)
(*                                                                         *)
(* What it publishes is true of the zone if DNS halves do not overlap      *)
(* (Exclusive), and if they do, as far as the last section says.           *)
(***************************************************************************)
EXTENDS DnsSync, TLAPS

Aims(t) ==
  /\ t.pc = "idle" => t.attempt = 0 /\ t.delay = 0
  /\ t.pc # "idle" => t.local \in Addresses
  /\ t.pc = "backoff" => t.reply = NoReply
  /\ t.pc = "updating" => t.id \in Ids
  /\ t.pc = "listing" /\ t.reply.class = "ok" /\ t.reply.record # NoRecord
       => t.reply.id \in Ids

TasksOK == task \in [Refreshes -> Task] /\ \A r \in Refreshes : Aims(task[r])

IInv == TypeOK /\ TasksOK

LEMMA TypeParts ==
  ASSUME TasksOK, zone \in [Ids -> Record \cup {NoRecord}], report \in Report,
         notified \in BOOLEAN, drifted \in BOOLEAN
  PROVE  IInv
BY ZoneAssumption DEF IInv, TypeOK, TasksOK, Aims

\* The same, one step later.
LEMMA TypePartsNext ==
  ASSUME TasksOK', zone' \in [Ids -> Record \cup {NoRecord}], report' \in Report,
         notified' \in BOOLEAN, drifted' \in BOOLEAN
  PROVE  IInv'
BY ZoneAssumption DEF IInv, TypeOK, TasksOK, Aims

\* What the refreshes look like to DnsOutcome.
Busy == [r \in Refreshes |-> task[r].pc # "idle"]

\* Refresh r is in its DNS half or not; the others are where they were.
NowBusy(r, b) == Busy' = [Busy EXCEPT ![r] = b]

LEMMA RecordType == NoReply \in Reply /\ IdleTask \in Task /\ Aims(IdleTask)
BY DEF NoReply, Reply, IdleTask, Task, ErrorClasses, Aims

LEMMA AnsweredKeeps ==
  ASSUME TasksOK, NEW r \in Refreshes,
         NEW class \in {"ok"} \cup ErrorClasses, NEW id \in Ids \cup {NoId},
         NEW record \in Record \cup {NoRecord}, Answered(r, class, id, record),
         task[r].pc \in Requesting,
         task[r].pc = "listing" /\ class = "ok" /\ record # NoRecord => id \in Ids
  PROVE  TasksOK' /\ Busy' = Busy
<1> DEFINE reply == [class |-> class, id |-> id, record |-> record]
<1>1. reply \in Reply
    BY DEF Reply
<1>2. task' = [task EXCEPT ![r].reply = reply]
    BY DEF Answered
<1>a. reply.class = class /\ reply.record = record /\ reply.id = id
    OBVIOUS
<1> HIDE DEF reply
<1>3. TasksOK'
  <2>1. task' \in [Refreshes -> Task]
      BY <1>1, <1>2 DEF TasksOK, Task
  <2>2. ASSUME NEW s \in Refreshes PROVE Aims(task'[s])
      BY <1>2, <1>a DEF TasksOK, Task, Aims, Requesting
  <2> QED BY <2>1, <2>2 DEF TasksOK
<1>4. ASSUME NEW s \in Refreshes PROVE task'[s].pc = task[s].pc
    BY <1>2 DEF TasksOK, Task
<1> QED BY <1>3, <1>4 DEF Busy

LEMMA GoesToKeeps ==
  ASSUME TasksOK, NEW r \in Refreshes, NEW pc \in Requesting \cup {"backoff"},
         NEW id \in Ids \cup {NoId}, GoesTo(r, pc, id), task[r].pc # "idle",
         pc = "updating" => id \in Ids
  PROVE  TasksOK' /\ Busy' = Busy
<1>1. task' = [task EXCEPT ![r].pc = pc, ![r].id = id, ![r].reply = NoReply]
    BY DEF GoesTo
<1>2. TasksOK'
  <2>1. task' \in [Refreshes -> Task]
      BY <1>1, RecordType DEF TasksOK, Task
  <2>2. ASSUME NEW s \in Refreshes PROVE Aims(task'[s])
      BY <1>1 DEF TasksOK, Task, Aims, NoReply, Requesting
  <2> QED BY <2>1, <2>2 DEF TasksOK
<1>3. pc # "idle"
    BY DEF Requesting
<1>4. ASSUME NEW s \in Refreshes PROVE (task'[s].pc # "idle") = (task[s].pc # "idle")
    BY <1>1, <1>3 DEF TasksOK, Task
<1> QED BY <1>2, <1>4 DEF Busy

LEMMA ReturnsKeeps ==
  ASSUME TasksOK, NEW r \in Refreshes, NEW local \in Addresses \cup {NoIP},
         NEW ip \in Addresses \cup {NoIP}, NEW inSync \in {"none", "yes", "no"},
         Returns(r, local, ip, inSync)
  PROVE  TasksOK' /\ NowBusy(r, FALSE) /\ report' \in Report /\ report'.inSync = inSync
<1>1. TasksOK'
    BY RecordType DEF Returns, TasksOK
<1>2. ASSUME NEW s \in Refreshes
      PROVE  (task'[s].pc # "idle") = (IF s = r THEN FALSE ELSE task[s].pc # "idle")
    BY DEF Returns, TasksOK, IdleTask
<1>3. NowBusy(r, FALSE)
    BY <1>2 DEF NowBusy, Busy
<1> QED BY <1>1, <1>3 DEF Returns, Report

\* What becomes of the types, and what DnsOutcome sees of a step.
Good == IInv' /\ [Outcome!Next]_(Outcome!vars)

\* A step that the update does not see.
LEMMA Unseen ==
  ASSUME IInv, TasksOK', Busy' = Busy, UNCHANGED <<report, notified>>,
         zone' \in [Ids -> Record \cup {NoRecord}], drifted' \in BOOLEAN
  PROVE  Good
BY TypePartsNext DEF Good, IInv, TypeOK, Busy, Outcome!vars

LEMMA SuccessKeeps ==
  ASSUME IInv, NEW r \in Refreshes, NEW record, record.content \in Addresses,
         Succeeds(r, record),
         task[r].pc # "idle", UNCHANGED <<zone, drifted>>
  PROVE  Good
<1>1. task[r].local \in Addresses \cup {NoIP}
    BY DEF IInv, TypeOK, Task
<1>2. TasksOK' /\ NowBusy(r, FALSE) /\ report' \in Report /\ report'.inSync = "yes"
    BY <1>1, ReturnsKeeps DEF Succeeds, IInv
<1>3. Outcome!Succeed(r)
    BY <1>2 DEF Outcome!Succeed, NowBusy, Busy, Succeeds
<1> QED BY <1>2, <1>3, TypePartsNext DEF Good, IInv, TypeOK, Outcome!Next, Succeeds

LEMMA FailureKeeps ==
  ASSUME IInv, NEW r \in Refreshes, NEW local \in Addresses \cup {NoIP},
         GivesUp(r, local), UNCHANGED zone, drifted' \in BOOLEAN
  PROVE  Good
<1>1. TasksOK' /\ NowBusy(r, FALSE) /\ report' \in Report /\ report'.inSync = "no"
    BY ReturnsKeeps DEF GivesUp, IInv
<1>2. Outcome!Fail(r)
    BY <1>1 DEF Outcome!Fail, NowBusy, Busy, GivesUp
<1> QED BY <1>1, <1>2, TypePartsNext DEF Good, IInv, TypeOK, Outcome!Next, GivesUp

LEMMA AttemptFailsKeeps ==
  ASSUME IInv, NEW r \in Refreshes, AttemptFails(r),
         task[r].pc # "idle", UNCHANGED <<zone, drifted>>
  PROVE  Good
<1>1. CASE GoesTo(r, "backoff", NoId)
  <2>1. TasksOK' /\ Busy' = Busy
      BY <1>1, GoesToKeeps DEF IInv, TypeOK, TasksOK
  <2> QED BY <1>1, <2>1, Unseen DEF IInv, TypeOK, GoesTo
<1>2. CASE GivesUp(r, task[r].local)
    BY <1>2, FailureKeeps DEF IInv, TypeOK, Task
<1> QED BY <1>1, <1>2 DEF AttemptFails

--------------------------------------------------------------------------------
\* The steps.

LEMMA BeginKeeps ==
  ASSUME IInv, NEW r \in Refreshes, Begin(r)
  PROVE  Good
<1>1. PICK ip \in Addresses \cup {NoIP} :
        \/ ip = NoIP /\ Returns(r, NoIP, NoIP, "none") /\ UNCHANGED notified
        \/ ip # NoIP /\ GivesUp(r, ip)
        \/ /\ ip # NoIP
           /\ task' = [task EXCEPT ![r] =
                [pc |-> "listing", local |-> ip, id |-> NoId, attempt |-> 1,
                 delay |-> InitialBackoff, reply |-> NoReply]]
           /\ UNCHANGED <<report, notified>>
    BY DEF Begin
<1>2. UNCHANGED zone /\ drifted' \in BOOLEAN /\ task[r].pc = "idle"
    BY DEF Begin
<1>3. CASE Returns(r, NoIP, NoIP, "none") /\ UNCHANGED notified
  <2>1. TasksOK' /\ NowBusy(r, FALSE) /\ report' \in Report /\ report'.inSync = "none"
      BY <1>3, ReturnsKeeps DEF IInv, TypeOK, TasksOK
  <2>2. Busy' = Busy
      BY <1>2, <2>1 DEF NowBusy, Busy
  <2>3. Outcome!Skip(r)
      BY <1>2, <1>3, <2>1, <2>2 DEF Outcome!Skip, Busy
  <2> QED BY <1>2, <1>3, <2>1, <2>3, TypePartsNext DEF Good, IInv, TypeOK, Outcome!Next
<1>4. CASE GivesUp(r, ip)
    BY <1>2, <1>4, FailureKeeps
<1>5. CASE /\ ip # NoIP
           /\ task' = [task EXCEPT ![r] =
                [pc |-> "listing", local |-> ip, id |-> NoId, attempt |-> 1,
                 delay |-> InitialBackoff, reply |-> NoReply]]
           /\ UNCHANGED <<report, notified>>
  <2>1. [pc |-> "listing", local |-> ip, id |-> NoId, attempt |-> 1,
         delay |-> InitialBackoff, reply |-> NoReply] \in Task
      BY RecordType, BackoffAssumption DEF Task, Requesting
  <2>2. TasksOK'
    <3>1. ip \in Addresses
        BY <1>5
    <3>2. ASSUME NEW s \in Refreshes PROVE Aims(task'[s])
        BY <1>5, <3>1 DEF IInv, TasksOK, Aims, NoReply
    <3>3. task' \in [Refreshes -> Task]
        BY <1>5, <2>1 DEF IInv, TasksOK
    <3> QED BY <3>2, <3>3 DEF TasksOK
  <2>3. ASSUME NEW s \in Refreshes
        PROVE  (task'[s].pc # "idle") = (IF s = r THEN TRUE ELSE task[s].pc # "idle")
      BY <1>5 DEF IInv, TypeOK
  <2>4. NowBusy(r, TRUE)
      BY <2>3 DEF NowBusy, Busy
  <2>5. Outcome!Start(r)
      BY <1>2, <1>5, <2>4 DEF Outcome!Start, NowBusy, Busy
  <2> QED BY <1>2, <1>5, <2>2, <2>5, TypePartsNext DEF Good, IInv, TypeOK, Outcome!Next
<1> QED BY <1>1, <1>3, <1>4, <1>5

LEMMA AnswerKeeps ==
  ASSUME IInv, NEW r \in Refreshes, Answer(r)
  PROVE  Good
<1>1. TasksOK /\ task[r] \in Task /\ Aims(task[r]) /\ zone \in [Ids -> Record \cup {NoRecord}]
    BY DEF IInv, TypeOK, TasksOK
<1>2. task[r].pc # "idle" => Written(task[r].local) \in Record
    BY <1>1, ZoneAssumption DEF Written, Record, Aims
<1>3. ASSUME NEW class \in {"ok"} \cup ErrorClasses, NEW id \in Ids \cup {NoId},
             NEW record \in Record \cup {NoRecord}, Answered(r, class, id, record),
             task[r].pc \in Requesting,
             task[r].pc = "listing" /\ class = "ok" /\ record # NoRecord => id \in Ids,
             zone' \in [Ids -> Record \cup {NoRecord}], UNCHANGED <<report, notified, drifted>>
      PROVE  Good
    BY <1>1, <1>3, AnsweredKeeps, Unseen DEF IInv, TypeOK
<1>4. CASE AnswerRecords(r)
    BY <1>1, <1>3, <1>4 DEF AnswerRecords, IdsOf, Awaits, Requesting
<1>5. CASE AnswerCreate(r)
    BY <1>1, <1>2, <1>3, <1>5 DEF AnswerCreate, Creates, Awaits, Free, Requesting
<1>6. CASE AnswerUpdate(r)
    BY <1>1, <1>2, <1>3, <1>6 DEF AnswerUpdate, Updates, Awaits, Aims, Record, Requesting
<1>7. CASE AnswerRefused(r)
    BY <1>1, <1>3, <1>7 DEF AnswerRefused, ErrorClasses, Awaits, Requesting
<1>8. CASE RequestFails(r)
    BY <1>1, <1>3, <1>8, FaultsAssumption, ZoneAssumption DEF RequestFails, ErrorClasses, Awaits, Requesting
<1>9. CASE WriteAnswerLost(r)
    BY <1>1, <1>2, <1>3, <1>9 DEF WriteAnswerLost, Creates, Updates, Awaits, Aims, Record, ErrorClasses,
       Requesting
<1> QED BY <1>4, <1>5, <1>6, <1>7, <1>8, <1>9 DEF Answer

LEMMA ResumeKeeps ==
  ASSUME IInv, NEW r \in Refreshes, Resume(r)
  PROVE  Good
<1>1. /\ TasksOK /\ task[r] \in Task /\ Aims(task[r])
      /\ zone \in [Ids -> Record \cup {NoRecord}] /\ drifted \in BOOLEAN
    BY DEF IInv, TypeOK, TasksOK
<1>2. ASSUME NEW pc \in {"creating", "updating"}, NEW id \in Ids \cup {NoId},
             GoesTo(r, pc, id), task[r].pc = "listing", pc = "updating" => id \in Ids,
             UNCHANGED <<zone, drifted>>
      PROVE  Good
  <2>1. TasksOK' /\ Busy' = Busy
      BY <1>1, <1>2, GoesToKeeps DEF Requesting
  <2> QED BY <1>1, <1>2, <2>1, Unseen DEF GoesTo
<1>3. ASSUME NEW record, Verified(record, task[r].local), Succeeds(r, record),
             task[r].pc # "idle", UNCHANGED <<zone, drifted>>
      PROVE  Good
    BY <1>1, <1>3, SuccessKeeps DEF Verified, Aims
<1>4. CASE ListedNone(r)
    BY <1>2, <1>4 DEF ListedNone, Got
<1>5. CASE ListedDiffers(r)
  <2>1. task[r].reply.id \in Ids
      BY <1>1, <1>5 DEF ListedDiffers, Got, Aims
  <2> QED BY <1>2, <1>5, <2>1 DEF ListedDiffers, Got
<1>6. CASE ListedMatches(r) \/ WriteReturns(r)
    BY <1>3, <1>6, AttemptFailsKeeps DEF ListedMatches, WriteReturns, Got
<1>7. CASE RequestBreaksAttempt(r)
    BY <1>7, AttemptFailsKeeps DEF RequestBreaksAttempt, Got, Requesting
<1>8. CASE TokenRejected(r)
    BY <1>1, <1>8, FailureKeeps DEF TokenRejected, Task
<1>9. CASE BackoffEnds(r)
  <2>1. task' = [task EXCEPT ![r].pc = "listing", ![r].attempt = task[r].attempt + 1,
                             ![r].delay = Doubled(task[r].delay)]
      BY <1>1, <1>9 DEF BackoffEnds, TasksOK
  <2>2. Doubled(task[r].delay) \in Nat /\ task[r].attempt + 1 \in Nat
      BY <1>1, BackoffAssumption DEF Task, Doubled
  <2>3. task' \in [Refreshes -> Task]
      BY <1>1, <2>1, <2>2 DEF TasksOK, Task, Requesting
  <2>4. task[r].reply.class = "none"
      BY <1>1, <1>9 DEF BackoffEnds, Aims, NoReply
  <2>5. ASSUME NEW s \in Refreshes
        PROVE  Aims(task'[s]) /\ (task'[s].pc # "idle") = (task[s].pc # "idle")
      BY <1>1, <1>9, <2>1, <2>4 DEF BackoffEnds, TasksOK, Task, Aims
  <2>6. TasksOK' /\ Busy' = Busy
      BY <2>3, <2>5 DEF TasksOK, Busy
  <2> QED BY <1>1, <1>9, <2>6, Unseen DEF BackoffEnds
<1> QED BY <1>4, <1>5, <1>6, <1>7, <1>8, <1>9 DEF Resume

LEMMA ZoneEditedKeeps ==
  ASSUME IInv, ZoneEdited
  PROVE  Good
<1>1. zone' \in [Ids -> Record \cup {NoRecord}]
    BY ZoneAssumption DEF ZoneEdited, IInv, TypeOK
<1>2. TasksOK' /\ Busy' = Busy
    BY DEF ZoneEdited, IInv, TasksOK, Busy
<1> QED BY <1>1, <1>2, Unseen DEF ZoneEdited

LEMMA InitGood == Init => IInv /\ Outcome!Init
<1> SUFFICES ASSUME Init PROVE IInv /\ Outcome!Init
    OBVIOUS
<1>1. TasksOK
    BY RecordType DEF Init, TasksOK
<1>2. IInv
    BY <1>1, TypeParts, ZoneAssumption DEF Init, Report
<1>3. Outcome!Init
    BY DEF Init, Outcome!Init, IdleTask
<1> QED BY <1>2, <1>3

LEMMA NextGood == IInv /\ [Next]_vars => Good
<1> SUFFICES ASSUME IInv, [Next]_vars PROVE Good
    OBVIOUS
<1>1. CASE ZoneEdited
    BY <1>1, ZoneEditedKeeps
<1>2. ASSUME NEW r \in Refreshes, Begin(r) \/ Answer(r) \/ Resume(r)
      PROVE  Good
    BY <1>2, BeginKeeps, AnswerKeeps, ResumeKeeps
<1>3. CASE UNCHANGED vars
    BY <1>3, Unseen DEF vars, IInv, TypeOK, TasksOK, Busy
<1> QED BY <1>1, <1>2, <1>3 DEF Next

--------------------------------------------------------------------------------
\* The theorems.

\* Type correctness of the zone, the coroutines and the dns_* fields.
THEOREM TypeCorrect == Spec => []TypeOK
<1>1. IInv => TypeOK
    BY DEF IInv
<1> QED BY <1>1, InitGood, NextGood, PTL DEF Spec, Good

\* _async_reconcile_dns implements DnsOutcome: no exception leaves it, it ends in
\* a verdict, and the notification goes up and down with the verdict.
THEOREM DnsImplementsOutcome == Spec => ImplementsOutcome
BY InitGood, NextGood, PTL DEF Spec, Good, ImplementsOutcome, Outcome!Spec

\* The published verdict on the record and its notification agree at every await
\* of every refresh, unless there was no IP to compare the record with: from the
\* promise of DnsOutcome, which the DNS half implements.
THEOREM VerdictNotified == Spec => []Outcome!VerdictIsNotified
<1>1. Outcome!Init => Outcome!VerdictIsNotified
    BY DEF Outcome!Init, Outcome!VerdictIsNotified
<1>2. Outcome!VerdictIsNotified /\ [Outcome!Next]_(Outcome!vars) => Outcome!VerdictIsNotified'
  <2> SUFFICES ASSUME Outcome!VerdictIsNotified, [Outcome!Next]_(Outcome!vars)
               PROVE  Outcome!VerdictIsNotified'
      OBVIOUS
  <2> USE DEF Outcome!VerdictIsNotified
  <2>1. ASSUME NEW r \in Refreshes, Outcome!Skip(r) \/ Outcome!Start(r)
        PROVE  Outcome!VerdictIsNotified'
      BY <2>1 DEF Outcome!Skip, Outcome!Start
  <2>2. ASSUME NEW r \in Refreshes, Outcome!Succeed(r)
        PROVE  Outcome!VerdictIsNotified'
      BY <2>2 DEF Outcome!Succeed
  <2>3. ASSUME NEW r \in Refreshes, Outcome!Fail(r)
        PROVE  Outcome!VerdictIsNotified'
      BY <2>3 DEF Outcome!Fail
  <2>4. CASE UNCHANGED Outcome!vars
      BY <2>4 DEF Outcome!vars
  <2> QED BY <2>1, <2>2, <2>3, <2>4 DEF Outcome!Next
<1> QED BY <1>1, <1>2, InitGood, NextGood, PTL DEF Spec, Good

--------------------------------------------------------------------------------
\* The retry loop.

Follows == [Loops!Next]_(Loops!vars)

Alone(r) == \A s \in Refreshes \ {r} : task'[s] = task[s]

LEMMA LoopUntouched ==
  ASSUME \A r \in Refreshes : /\ Phase(r)' = Phase(r)
                              /\ task'[r].attempt = task[r].attempt
                              /\ task'[r].delay = task[r].delay
  PROVE  Follows
BY DEF Follows, Loops!vars

\* A step of refresh r that its loop does not see, or one that the loop makes.
LEMMA LoopMoves ==
  ASSUME NEW r \in Refreshes, Alone(r),
         \/ /\ Phase(r)' = Phase(r)
            /\ task'[r].attempt = task[r].attempt /\ task'[r].delay = task[r].delay
         \/ /\ Phase(r) = "outside" /\ Phase(r)' = "trying" /\ MaxRetries > 0
            /\ task'[r].attempt = 1 /\ task'[r].delay = InitialBackoff
         \/ /\ Phase(r) = "trying" /\ Phase(r)' = "sleeping" /\ task[r].attempt < MaxRetries
            /\ task'[r].attempt = task[r].attempt /\ task'[r].delay = task[r].delay
         \/ /\ Phase(r) = "sleeping" /\ Phase(r)' = "trying"
            /\ task'[r].attempt = task[r].attempt + 1
            /\ task'[r].delay = Doubled(task[r].delay)
         \/ /\ Phase(r) = "trying" /\ Phase(r)' = "outside"
            /\ task'[r].attempt = 0 /\ task'[r].delay = 0
  PROVE  Follows
<1>1. CASE /\ Phase(r)' = Phase(r)
           /\ task'[r].attempt = task[r].attempt /\ task'[r].delay = task[r].delay
    BY <1>1, LoopUntouched DEF Alone, Phase
<1>2. CASE /\ Phase(r) = "outside" /\ Phase(r)' = "trying" /\ MaxRetries > 0
           /\ task'[r].attempt = 1 /\ task'[r].delay = InitialBackoff
  <2>1. Loops!Enter(r)
      BY <1>2 DEF Alone, Phase, Loops!Enter
  <2> QED BY <2>1 DEF Follows, Loops!Next
<1>3. CASE /\ Phase(r) = "trying" /\ Phase(r)' = "sleeping" /\ task[r].attempt < MaxRetries
           /\ task'[r].attempt = task[r].attempt /\ task'[r].delay = task[r].delay
  <2>1. Loops!Sleep(r)
      BY <1>3 DEF Alone, Phase, Loops!Sleep
  <2> QED BY <2>1 DEF Follows, Loops!Next
<1>4. CASE /\ Phase(r) = "sleeping" /\ Phase(r)' = "trying"
           /\ task'[r].attempt = task[r].attempt + 1
           /\ task'[r].delay = Doubled(task[r].delay)
  <2>1. Loops!Wake(r)
      BY <1>4 DEF Alone, Phase, Loops!Wake, Doubled, Loops!Doubled
  <2> QED BY <2>1 DEF Follows, Loops!Next
<1>5. CASE /\ Phase(r) = "trying" /\ Phase(r)' = "outside"
           /\ task'[r].attempt = 0 /\ task'[r].delay = 0
  <2>1. Loops!Leave(r)
      BY <1>5 DEF Alone, Phase, Loops!Leave
  <2> QED BY <2>1 DEF Follows, Loops!Next
<1> QED BY <1>1, <1>2, <1>3, <1>4, <1>5

\* From idle the loop stays where it is; from an attempt it is left.
LEMMA ReturnsFollows ==
  ASSUME IInv, NEW r \in Refreshes, task[r].pc # "backoff", NEW local, NEW ip, NEW inSync,
         Returns(r, local, ip, inSync)
  PROVE  Follows
<1>1. Alone(r) /\ task'[r] = IdleTask
    BY DEF IInv, TasksOK, Alone, Returns
<1>2. task[r] \in Task /\ (task[r].pc = "idle" => task[r].attempt = 0 /\ task[r].delay = 0)
    BY DEF IInv, TasksOK, Aims
<1>3. Phase(r)' = "outside" /\ task'[r].attempt = 0 /\ task'[r].delay = 0
    BY <1>1 DEF Phase, IdleTask, Requesting
<1>4. CASE task[r].pc = "idle"
    BY <1>1, <1>2, <1>3, <1>4, LoopMoves DEF Phase, Requesting
<1>5. CASE task[r].pc \in Requesting
    BY <1>1, <1>3, <1>5, LoopMoves DEF Phase
<1> QED BY <1>2, <1>4, <1>5 DEF Task

LEMMA GoesToFollows ==
  ASSUME IInv, NEW r \in Refreshes, NEW pc \in Requesting \cup {"backoff"}, NEW id,
         GoesTo(r, pc, id), task[r].pc \in Requesting,
         pc = "backoff" => task[r].attempt < MaxRetries
  PROVE  Follows
<1>1. /\ Alone(r)
      /\ task'[r].pc = pc /\ task'[r].attempt = task[r].attempt /\ task'[r].delay = task[r].delay
    BY DEF IInv, TasksOK, Task, Alone, GoesTo
<1> QED BY <1>1, LoopMoves DEF Phase, Requesting

LEMMA AttemptFailsFollows ==
  ASSUME IInv, NEW r \in Refreshes, AttemptFails(r), task[r].pc \in Requesting
  PROVE  Follows
<1>1. task[r].pc # "backoff"
    BY DEF Requesting
<1> QED BY <1>1, GoesToFollows, ReturnsFollows DEF AttemptFails, GivesUp

LEMMA BeginFollows ==
  ASSUME IInv, NEW r \in Refreshes, Begin(r)
  PROVE  Follows
<1>1. task[r].pc = "idle" /\ task[r].attempt = 0 /\ task[r].delay = 0
    BY DEF Begin, IInv, TasksOK, Aims
<1>2. PICK ip \in Addresses \cup {NoIP} :
        \/ \E local, i, inSync : Returns(r, local, i, inSync)
        \/ /\ MaxRetries # 0
           /\ task' = [task EXCEPT ![r] =
                [pc |-> "listing", local |-> ip, id |-> NoId, attempt |-> 1,
                 delay |-> InitialBackoff, reply |-> NoReply]]
    BY DEF Begin, GivesUp
<1>3. CASE \E local, i, inSync : Returns(r, local, i, inSync)
    BY <1>1, <1>3, ReturnsFollows
<1>4. CASE /\ MaxRetries # 0
           /\ task' = [task EXCEPT ![r] =
                [pc |-> "listing", local |-> ip, id |-> NoId, attempt |-> 1,
                 delay |-> InitialBackoff, reply |-> NoReply]]
  <2>1. /\ Alone(r) /\ task'[r].pc = "listing"
        /\ task'[r].attempt = 1 /\ task'[r].delay = InitialBackoff
      BY <1>4 DEF IInv, TasksOK, Alone
  <2>2. MaxRetries > 0
      BY <1>4, MaxRetriesAssumption
  <2> QED BY <1>1, <2>1, <2>2, LoopMoves DEF Phase, Requesting
<1> QED BY <1>2, <1>3, <1>4

LEMMA AnswerFollows ==
  ASSUME IInv, NEW r \in Refreshes, Answer(r)
  PROVE  Follows
<1>1. PICK reply : task' = [task EXCEPT ![r].reply = reply]
    BY DEF Answer, AnswerRecords, AnswerCreate, AnswerUpdate, AnswerRefused, RequestFails,
       WriteAnswerLost, Answered
<1>2. /\ Alone(r) /\ task'[r].pc = task[r].pc
      /\ task'[r].attempt = task[r].attempt /\ task'[r].delay = task[r].delay
    BY <1>1 DEF IInv, TasksOK, Task, Alone
<1> QED BY <1>2, LoopMoves DEF Phase

LEMMA BackoffEndsFollows ==
  ASSUME IInv, NEW r \in Refreshes, BackoffEnds(r)
  PROVE  Follows
<1>1. /\ Alone(r) /\ task'[r].pc = "listing" /\ task[r].pc = "backoff"
      /\ task'[r].attempt = task[r].attempt + 1 /\ task'[r].delay = Doubled(task[r].delay)
    BY DEF IInv, TasksOK, Task, Alone, BackoffEnds
<1> QED BY <1>1, LoopMoves DEF Phase, Requesting

LEMMA NextFollows == IInv /\ [Next]_vars => Follows
<1> SUFFICES ASSUME IInv, [Next]_vars PROVE Follows
    OBVIOUS
<1>1. CASE ZoneEdited \/ UNCHANGED vars
    BY <1>1, LoopUntouched DEF ZoneEdited, vars, Phase
<1>2. ASSUME NEW r \in Refreshes, Resume(r)
      PROVE  Follows
  <2>1. CASE ListedNone(r)
      BY <2>1, GoesToFollows DEF ListedNone, Got, Requesting
  <2>2. CASE ListedDiffers(r)
      BY <2>2, GoesToFollows DEF ListedDiffers, Got, Requesting
  <2>3. CASE ListedMatches(r)
      BY <2>3, ReturnsFollows, AttemptFailsFollows DEF ListedMatches, Got, Succeeds, Requesting
  <2>4. CASE WriteReturns(r)
      BY <2>4, ReturnsFollows, AttemptFailsFollows DEF WriteReturns, Got, Succeeds, Requesting
  <2>5. CASE RequestBreaksAttempt(r)
      BY <2>5, AttemptFailsFollows DEF RequestBreaksAttempt, Got
  <2>6. CASE TokenRejected(r)
      BY <2>6, ReturnsFollows DEF TokenRejected, Got, GivesUp, Requesting
  <2> QED BY <1>2, <2>1, <2>2, <2>3, <2>4, <2>5, <2>6, BackoffEndsFollows DEF Resume
<1> QED BY <1>1, <1>2, BeginFollows, AnswerFollows DEF Next

LEMMA InitFollows == Init => Loops!Init
BY DEF Init, Loops!Init, Phase, IdleTask, Requesting

\* The DNS half keeps the promise of the retry loop in every refresh
\* (_async_sync_dns_with_retry): at most max_retries attempts, a sleep after every
\* failed one but the last, backoffs that double up to SYNC_MAX_BACKOFF.
THEOREM RetriesScheduled == Spec => RetriesFollowSchedule
BY InitFollows, NextFollows, InitGood, NextGood, PTL
   DEF Spec, Good, Follows, RetriesFollowSchedule, Loops!Spec

--------------------------------------------------------------------------------
\* What refreshes know of the zone, as long as they do not overlap.

AllIdle == \A r \in Refreshes : task[r].pc = "idle"

\* A DNS half begins only while no other is under way.
Exclusive == [][\A r \in Refreshes : Begin(r) => AllIdle]_vars

\* What is listed, about to be updated or just written is the record of that id
\* and type; a record is created where there is none.
Known(t) ==
  LET ids == IdsOf(TypeFor[t.local])
  IN  /\ t.pc = "listing" /\ t.reply.class = "ok" =>
           IF t.reply.record = NoRecord
             THEN ids = {}
             ELSE t.reply.id \in ids /\ zone[t.reply.id] = t.reply.record
      /\ t.pc = "creating" /\ t.reply.class = "none" => ids = {}
      /\ t.pc = "updating" => t.id \in ids
      /\ t.pc \in {"creating", "updating"} /\ t.reply.class = "ok" =>
           t.reply.id \in ids /\ zone[t.reply.id] = t.reply.record

InSync ==
  AllIdle /\ report.inSync = "yes"
    => \E id \in IdsOf(TypeFor[report.local]) : Verified(zone[id], report.local)

Current == ~drifted => InSync /\ \A r \in Refreshes : Known(task[r])

Serial == \A r, s \in Refreshes : task[r].pc # "idle" /\ task[s].pc # "idle" => r = s
OthersIdle(r) == \A s \in Refreshes \ {r} : task[s].pc = "idle"

\* It is enough to look at the refresh that stepped.
LEMMA OnlyOneSteps ==
  ASSUME NEW r \in Refreshes, OthersIdle(r), Alone(r),
         ~drifted' => Known(task[r])' /\ InSync'
  PROVE  Current'
<1>1. ASSUME NEW s \in Refreshes \ {r} PROVE Known(task[s])'
    BY <1>1 DEF OthersIdle, Alone, Known
<1> QED BY <1>1 DEF Current

LEMMA AnswerSeen ==
  ASSUME IInv, NEW r \in Refreshes, NEW class, NEW id, NEW record,
         Answered(r, class, id, record)
  PROVE  /\ task'[r].reply.class = class /\ task'[r].reply.id = id
         /\ task'[r].reply.record = record
<1>1. task[r] \in Task /\ task \in [Refreshes -> Task]
    BY DEF IInv, TasksOK
<1>2. task'[r] = [task[r] EXCEPT !.reply = [class |-> class, id |-> id, record |-> record]]
    BY <1>1 DEF Answered
<1> QED BY <1>1, <1>2 DEF Task

LEMMA AnswerCurrent ==
  ASSUME IInv, Current, NEW r \in Refreshes, OthersIdle(r), Answer(r)
  PROVE  Current'
<1> DEFINE reply == task'[r].reply
<1>1. PICK new : task' = [task EXCEPT ![r].reply = new]
    BY DEF Answer, AnswerRecords, AnswerCreate, AnswerUpdate, AnswerRefused, RequestFails,
       WriteAnswerLost, Answered
<1>2. /\ Alone(r) /\ task'[r].pc = task[r].pc /\ task'[r].local = task[r].local
      /\ task'[r].id = task[r].id
      /\ task[r] \in Task /\ Aims(task[r])
      /\ zone \in [Ids -> Record \cup {NoRecord}]
    BY <1>1 DEF IInv, TasksOK, TypeOK, Task, Alone
<1>3. task[r].pc \in Requesting /\ task[r].reply = NoReply /\ task[r].reply.class = "none"
    BY DEF Answer, AnswerRecords, AnswerCreate, AnswerUpdate, AnswerRefused, RequestFails,
       WriteAnswerLost, Awaits, Requesting, NoReply
<1>4. task[r].pc # "idle" /\ task'[r].pc # "idle" /\ InSync'
    BY <1>2, <1>3 DEF Requesting, InSync, AllIdle
<1>5. drifted' = drifted /\ task[r].local \in Addresses
    BY <1>2, <1>4 DEF Aims, Answer, AnswerRecords, AnswerCreate, AnswerUpdate, AnswerRefused, RequestFails,
       WriteAnswerLost
<1>6. Written(task[r].local) \in Record /\ Written(task[r].local) # NoRecord
      /\ Written(task[r].local).type = TypeFor[task[r].local]
  <2>1. Written(task[r].local) \in Record
      BY <1>5, ZoneAssumption DEF Written, Record
  <2>2. Written(task[r].local).type = TypeFor[task[r].local]
      BY DEF Written
  <2> QED BY <2>1, <2>2, ZoneAssumption
<1>7. SUFFICES ASSUME ~drifted, Known(task[r])
               PROVE  Known(task[r])'
    BY <1>2, <1>4, <1>5, OnlyOneSteps DEF Current
<1>8. CASE AnswerRecords(r)
  <2>1. task[r].pc = "listing" /\ UNCHANGED zone
      BY <1>8 DEF AnswerRecords, Awaits
  <2>2. \/ IdsOf(TypeFor[task[r].local]) = {} /\ reply.record = NoRecord
        \/ \E id \in IdsOf(TypeFor[task[r].local]) :
             reply.id = id /\ reply.record = zone[id] /\ zone[id] # NoRecord
      BY <1>8, AnswerSeen DEF AnswerRecords, IdsOf
  <2> QED BY <1>2, <2>1, <2>2 DEF Known, IdsOf
<1>9. CASE AnswerCreate(r)
  <2>1. PICK id \in Free : Creates(r, id) /\ Answered(r, "ok", id, Written(task[r].local))
      BY <1>9 DEF AnswerCreate
  <2>2. /\ reply.id = id /\ reply.record = Written(task[r].local)
        /\ reply.class = "ok" /\ task[r].pc = "creating"
      BY <1>9, <2>1, AnswerSeen DEF AnswerCreate, Awaits
  <2>3. id \in Ids /\ zone' = [zone EXCEPT ![id] = Written(task[r].local)]
      BY <2>1 DEF Creates, Free
  <2>4. zone'[id] = Written(task[r].local)
      BY <1>2, <2>3
  <2>5. zone'[id] # NoRecord /\ zone'[id].type = TypeFor[task[r].local]
      BY <1>6, <2>4
  <2>6. reply.record = zone'[id]
      BY <2>2, <2>4
  <2> QED BY <1>2, <2>2, <2>3, <2>5, <2>6 DEF Known, IdsOf
<1>10. CASE AnswerUpdate(r)
  <2>1. task[r].pc = "updating" /\ Updates(r) /\ Answered(r, "ok", task[r].id, zone'[task[r].id])
      BY <1>10 DEF AnswerUpdate, Awaits
  <2>2. reply.id = task[r].id /\ reply.record = zone'[task[r].id] /\ reply.class = "ok"
      BY <2>1, AnswerSeen
  <2>3. task[r].id \in IdsOf(TypeFor[task[r].local]) /\ task[r].id \in Ids
      BY <1>2, <1>7, <2>1 DEF Known, Aims
  <2>4. zone'[task[r].id] = [Written(task[r].local) EXCEPT !.type = zone[task[r].id].type]
      BY <1>2, <2>1, <2>3 DEF Updates
  <2>5. zone'[task[r].id].type = TypeFor[task[r].local] /\ zone'[task[r].id] # NoRecord
      BY <1>2, <1>6, <2>3, <2>4, ZoneAssumption DEF IdsOf, Record
  <2> QED BY <1>2, <2>1, <2>2, <2>3, <2>5 DEF Known, IdsOf
<1>11. CASE AnswerRefused(r) \/ RequestFails(r)
  <2>1. UNCHANGED zone /\ reply.class \in ErrorClasses
      BY <1>11, FaultsAssumption, AnswerSeen DEF AnswerRefused, RequestFails, ErrorClasses
  <2> QED BY <1>2, <1>7, <2>1 DEF Known, ErrorClasses, IdsOf
<1>12. CASE WriteAnswerLost(r)
  <2>1. reply.class = "error"
      BY <1>12, AnswerSeen DEF WriteAnswerLost
  <2>2. CASE task[r].pc = "creating"
      BY <1>2, <2>1, <2>2 DEF Known
  <2>3. CASE task[r].pc = "updating" /\ Updates(r)
    <3>1. task[r].id \in IdsOf(TypeFor[task[r].local]) /\ task[r].id \in Ids
        BY <1>2, <1>7, <2>3 DEF Known, Aims
    <3>2. zone'[task[r].id] = [Written(task[r].local) EXCEPT !.type = zone[task[r].id].type]
        BY <1>2, <2>3, <3>1 DEF Updates
    <3>3. zone'[task[r].id].type = TypeFor[task[r].local] /\ zone'[task[r].id] # NoRecord
        BY <1>2, <1>6, <3>1, <3>2, ZoneAssumption DEF IdsOf, Record
    <3> QED BY <1>2, <2>1, <2>3, <3>1, <3>3 DEF Known, IdsOf
  <2> QED BY <1>12, <2>2, <2>3 DEF WriteAnswerLost, Awaits
<1> QED BY <1>8, <1>9, <1>10, <1>11, <1>12 DEF Answer

\* A DNS half that ends.
LEMMA ReturnsCurrent ==
  ASSUME IInv, NEW r \in Refreshes, OthersIdle(r), task[r].pc # "idle",
         NEW local, NEW ip, NEW inSync, Returns(r, local, ip, inSync),
         UNCHANGED <<zone, drifted>>,
         ~drifted /\ inSync = "yes"
           => \E id \in IdsOf(TypeFor[local]) : Verified(zone[id], local)
  PROVE  Current'
<1>1. Alone(r) /\ task'[r].pc = "idle"
    BY DEF IInv, TasksOK, Alone, Returns, IdleTask
<1>2. report'.local = local /\ report'.inSync = inSync
    BY DEF Returns
<1>3. Known(task[r])'
    BY <1>1 DEF Known
<1>4. ~drifted' => InSync'
    BY <1>2 DEF InSync, IdsOf
<1> QED BY <1>1, <1>3, <1>4, OnlyOneSteps

LEMMA GoesToCurrent ==
  ASSUME IInv, NEW r \in Refreshes, OthersIdle(r), task[r].pc # "idle",
         NEW pc \in {"creating", "updating", "backoff"}, NEW id, GoesTo(r, pc, id),
         UNCHANGED <<zone, drifted>>,
         ~drifted /\ pc = "creating" => IdsOf(TypeFor[task[r].local]) = {},
         ~drifted /\ pc = "updating" => id \in IdsOf(TypeFor[task[r].local])
  PROVE  Current'
<1>1. /\ Alone(r) /\ task'[r].pc = pc /\ task'[r].local = task[r].local /\ task'[r].id = id
      /\ task'[r].reply.class = "none"
    BY DEF IInv, TasksOK, Task, Alone, GoesTo, NoReply
<1>2. InSync'
    BY <1>1 DEF InSync, AllIdle
<1>3. ~drifted' => Known(task[r])'
    BY <1>1 DEF Known, IdsOf
<1> QED BY <1>1, <1>2, <1>3, OnlyOneSteps

LEMMA AttemptFailsCurrent ==
  ASSUME IInv, NEW r \in Refreshes, OthersIdle(r), task[r].pc # "idle",
         AttemptFails(r), UNCHANGED <<zone, drifted>>
  PROVE  Current'
BY GoesToCurrent, ReturnsCurrent DEF AttemptFails, GivesUp

\* A success reports a record that is there.
LEMMA SuccessCurrent ==
  ASSUME IInv, NEW r \in Refreshes, OthersIdle(r), task[r].pc # "idle",
         NEW record, Succeeds(r, record), Verified(record, task[r].local),
         UNCHANGED <<zone, drifted>>,
         ~drifted => \E id \in IdsOf(TypeFor[task[r].local]) : zone[id] = record
  PROVE  Current'
BY ReturnsCurrent DEF Succeeds

LEMMA ResumeCurrent ==
  ASSUME IInv, Current, NEW r \in Refreshes, OthersIdle(r), Resume(r)
  PROVE  Current'
<1>1. ~drifted => Known(task[r])
    BY DEF Current
<1>2. CASE ListedNone(r)
    BY <1>1, <1>2, GoesToCurrent DEF ListedNone, Got, Known
<1>3. CASE ListedDiffers(r)
    BY <1>1, <1>3, GoesToCurrent DEF ListedDiffers, Got, Known
<1>4. CASE ListedMatches(r)
    BY <1>1, <1>4, SuccessCurrent, AttemptFailsCurrent DEF ListedMatches, Got, Known
<1>5. CASE WriteReturns(r)
    BY <1>1, <1>5, SuccessCurrent, AttemptFailsCurrent DEF WriteReturns, Got, Known
<1>6. CASE RequestBreaksAttempt(r)
    BY <1>6, AttemptFailsCurrent DEF RequestBreaksAttempt, Got, Requesting
<1>7. CASE TokenRejected(r)
    BY <1>7, ReturnsCurrent DEF TokenRejected, Got, Requesting, GivesUp
<1>8. CASE BackoffEnds(r)
  <2>1. /\ Alone(r) /\ task'[r].pc = "listing" /\ task[r].pc = "backoff"
        /\ task'[r].reply = NoReply /\ NoReply.class = "none"
      BY <1>8 DEF IInv, TasksOK, Task, Alone, BackoffEnds, Aims, NoReply
  <2>2. Known(task[r])' /\ InSync'
      BY <2>1 DEF Known, InSync, AllIdle
  <2> QED BY <2>1, <2>2, OnlyOneSteps
<1> QED BY <1>2, <1>3, <1>4, <1>5, <1>6, <1>7, <1>8 DEF Resume

LEMMA BeginCurrent ==
  ASSUME IInv, NEW r \in Refreshes, OthersIdle(r), Begin(r)
  PROVE  Current'
<1>1. PICK ip \in Addresses \cup {NoIP} :
        \/ \E inSync \in {"none", "no"} : Returns(r, ip, NoIP, inSync)
        \/ task' = [task EXCEPT ![r] =
             [pc |-> "listing", local |-> ip, id |-> NoId, attempt |-> 1,
              delay |-> InitialBackoff, reply |-> NoReply]]
    BY DEF Begin, GivesUp
<1>2. CASE \E inSync \in {"none", "no"} : Returns(r, ip, NoIP, inSync)
  <2>1. InSync'
      BY <1>2 DEF Returns, InSync
  <2>2. task'[r].pc = "idle" /\ Alone(r)
      BY <1>2 DEF Returns, IdleTask, IInv, TasksOK, Alone
  <2> QED BY <2>1, <2>2, OnlyOneSteps DEF Known
<1>3. CASE task' = [task EXCEPT ![r] =
             [pc |-> "listing", local |-> ip, id |-> NoId, attempt |-> 1,
              delay |-> InitialBackoff, reply |-> NoReply]]
  <2>1. task'[r].pc = "listing" /\ task'[r].reply.class = "none" /\ Alone(r)
      BY <1>3 DEF IInv, TasksOK, NoReply, Alone
  <2> QED BY <2>1, OnlyOneSteps DEF Known, InSync, AllIdle
<1> QED BY <1>1, <1>2, <1>3

LEMMA InitCurrent == Init => Current
BY DEF Init, Current, InSync, Known, IdleTask

\* Only a refresh that begins, or that is under way, takes a step.
LEMMA StepsAlone ==
  ASSUME IInv, Serial, NEW r \in Refreshes, Begin(r) \/ Answer(r) \/ Resume(r),
         Begin(r) => AllIdle
  PROVE  OthersIdle(r) /\ Alone(r)
<1>1. ASSUME NEW new, task' = [task EXCEPT ![r] = new] PROVE Alone(r)
    BY <1>1 DEF IInv, TasksOK, Alone
<1>2. ASSUME NEW local, NEW ip, NEW inSync, Returns(r, local, ip, inSync) PROVE Alone(r)
    BY <1>1, <1>2 DEF Returns
<1>3. ASSUME NEW ip, GivesUp(r, ip) PROVE Alone(r)
    BY <1>2, <1>3 DEF GivesUp
<1>4. ASSUME NEW pc, NEW id, GoesTo(r, pc, id) PROVE Alone(r)
    BY <1>4 DEF GoesTo, IInv, TasksOK, Alone
<1>5. CASE Begin(r)
    BY <1>1, <1>2, <1>3, <1>5 DEF Begin, AllIdle, OthersIdle
<1>6. CASE Answer(r)
  <2>1. PICK new : task' = [task EXCEPT ![r].reply = new]
      BY <1>6 DEF Answer, AnswerRecords, AnswerCreate, AnswerUpdate, AnswerRefused, RequestFails,
         WriteAnswerLost, Answered
  <2>2. task[r].pc # "idle"
      BY <1>6 DEF Answer, AnswerRecords, AnswerCreate, AnswerUpdate, AnswerRefused,
         RequestFails, WriteAnswerLost, Awaits, Requesting
  <2> QED BY <2>1, <2>2 DEF IInv, TasksOK, Alone, Serial, OthersIdle
<1>7. CASE Resume(r)
  <2>1. task[r].pc # "idle"
      BY <1>7 DEF Resume, ListedNone, ListedDiffers, ListedMatches, WriteReturns,
         RequestBreaksAttempt, TokenRejected, BackoffEnds, Got, Requesting
  <2>2. Alone(r)
      BY <1>2, <1>3, <1>4, <1>7
      DEF Resume, ListedNone, ListedDiffers, ListedMatches, WriteReturns, Succeeds,
          AttemptFails, RequestBreaksAttempt, TokenRejected, BackoffEnds, IInv, TasksOK, Alone
  <2> QED BY <2>1, <2>2 DEF Serial, OthersIdle
<1> QED BY <1>5, <1>6, <1>7

LEMMA NextCurrent ==
  IInv /\ Serial /\ Current /\ [Next]_vars /\ [\A r \in Refreshes : Begin(r) => AllIdle]_vars
    => Serial' /\ Current'
<1> SUFFICES ASSUME IInv, Serial, Current, [Next]_vars,
                    [\A r \in Refreshes : Begin(r) => AllIdle]_vars
             PROVE  Serial' /\ Current'
    OBVIOUS
<1>1. CASE ZoneEdited
    BY <1>1 DEF ZoneEdited, Current, Serial
<1>2. CASE UNCHANGED vars
    BY <1>2 DEF vars, Current, InSync, AllIdle, Known, IdsOf, Serial
<1>3. ASSUME NEW r \in Refreshes, Begin(r) \/ Answer(r) \/ Resume(r), ~UNCHANGED vars
      PROVE  Serial' /\ Current'
  <2>1. OthersIdle(r) /\ Alone(r)
      BY <1>3, StepsAlone
  <2>2. Serial'
      BY <2>1 DEF OthersIdle, Alone, Serial
  <2> QED BY <1>3, <2>1, <2>2, BeginCurrent, AnswerCurrent, ResumeCurrent
<1> QED BY <1>1, <1>2, <1>3 DEF Next

LEMMA InitSerial == Init => Serial /\ Current
BY InitCurrent DEF Init, Serial, IdleTask

\* Where DNS halves do not overlap, the published "in sync" of the record is true
\* of the zone until somebody else edits it, whatever answers were lost on the
\* way (_async_upsert_dns_record checks answers, never the zone).
THEOREM InSyncStaysCurrent == Spec /\ Exclusive => []InSyncIsCurrent
<1>1. Current => InSyncIsCurrent
    BY DEF Current, InSync, AllIdle, InSyncIsCurrent
<1> QED BY <1>1, InitSerial, NextCurrent, InitGood, NextGood, PTL DEF Spec, Good, Exclusive

\* A record is only added by the answer to a create, applied or lost.
LEMMA AddsOnlyByCreate ==
  ASSUME IInv, NEW r \in Refreshes, Begin(r) \/ Answer(r) \/ Resume(r),
         NEW id \in Ids, zone[id] = NoRecord, zone'[id] # NoRecord
  PROVE  /\ task[r].pc = "creating" /\ task[r].reply.class = "none" /\ drifted' = drifted
         /\ zone'[id].type = TypeFor[task[r].local]
<1>1. zone \in [Ids -> Record \cup {NoRecord}]
    BY DEF IInv, TypeOK
<1>2. UNCHANGED zone \/ Updates(r) \/ AnswerCreate(r) \/ WriteAnswerLost(r)
    BY DEF Begin, Resume, ListedNone, ListedDiffers, ListedMatches, WriteReturns,
       RequestBreaksAttempt, TokenRejected, BackoffEnds, Answer, AnswerRecords, AnswerUpdate,
       AnswerRefused, RequestFails
<1>3. ~UNCHANGED zone /\ ~Updates(r)
    BY <1>1 DEF Updates
<1>4. /\ task[r].pc = "creating" /\ task[r].reply = NoReply /\ drifted' = drifted
      /\ \E other \in Free : Creates(r, other)
    BY <1>2, <1>3 DEF AnswerCreate, WriteAnswerLost, Awaits
<1>5. zone'[id] = Written(task[r].local)
    BY <1>1, <1>4 DEF Creates, Free
<1> QED BY <1>4, <1>5 DEF Written, NoReply

\* Where DNS halves do not overlap, a record is only added where there is none of
\* its type: a create whose answer was lost is found by the next attempt
\* (_async_upsert_dns_record lists before it writes).
THEOREM CreatesWhereNone == Spec /\ Exclusive => CreatesOnlyIfNone
<1> DEFINE Adds == ~drifted' =>
             \A id \in Ids : zone[id] = NoRecord /\ zone'[id] # NoRecord
                              => IdsOf(zone'[id].type) = {}
<1>1. IInv /\ Current /\ [Next]_vars => [Adds]_vars
  <2> SUFFICES ASSUME IInv, Current, Next, ~drifted',
                      NEW id \in Ids, zone[id] = NoRecord, zone'[id] # NoRecord
               PROVE  IdsOf(zone'[id].type) = {}
      OBVIOUS
  <2>1. PICK r \in Refreshes : Begin(r) \/ Answer(r) \/ Resume(r)
      BY DEF Next, ZoneEdited
  <2>2. /\ task[r].pc = "creating" /\ task[r].reply.class = "none" /\ drifted' = drifted
        /\ zone'[id].type = TypeFor[task[r].local]
      BY <2>1, AddsOnlyByCreate
  <2> QED BY <2>2 DEF Current, Known
<1> QED BY <1>1, InitSerial, NextCurrent, InitGood, NextGood, PTL
        DEF Spec, Good, Exclusive, CreatesOnlyIfNone

--------------------------------------------------------------------------------
\* DNS halves that do overlap.

\* The zone has a record that needs no update.
Present(ip) == \E id \in IdsOf(TypeFor[ip]) : ~NeedsUpdate(zone[id], ip)

\* To write the address into the record destroys nothing: either it needs the update,
\* or Cloudflare keeps the address as it is written.
Harmless(id, ip) ==
  id \in IdsOf(TypeFor[ip]) /\ (NeedsUpdate(zone[id], ip) \/ Stored[ip] = ip)

\* What overlapping DNS halves for one address agree on.
Agrees(t, ip) ==
  /\ t.pc # "idle" => t.local = ip
  /\ t.pc = "updating" => Harmless(t.id, ip)
  /\ t.pc = "listing" /\ t.reply.record # NoRecord =>
       IF NeedsUpdate(t.reply.record, ip) THEN Harmless(t.reply.id, ip) ELSE Present(ip)
  /\ t.pc \in {"creating", "updating"} /\ t.reply.class = "ok" /\ Verified(t.reply.record, ip)
       => Present(ip)

Agreed(ip) == \A r \in Refreshes : Agrees(task[r], ip)

\* Nobody else edits the zone, and a DNS half that is under way is for ip.
Undisturbed(ip) ==
  ~ZoneEdited /\ \A r \in Refreshes : task'[r].pc # "idle" => task'[r].local = ip

\* A step undoes no right record, and a DNS half that ends "in sync" is right.
PresentStays(ip) == Present(ip) => Present(ip)'
Ending(r) == task[r].pc # "idle" /\ task'[r].pc = "idle"
ReportsTruly(ip) == \A r \in Refreshes : Ending(r) /\ report'.inSync = "yes" => Present(ip)'

\* What a step of r does to the zone, and what becomes of r.
Preserves(ip) == PresentStays(ip) /\ \A id : Harmless(id, ip) => Harmless(id, ip)'
Concurs(r, ip) ==
  /\ Alone(r) /\ Preserves(ip) /\ Agrees(task[r], ip)'
  /\ Ending(r) /\ report'.inSync = "yes" => Present(ip)'

LEMMA StepAgreed ==
  ASSUME NEW ip, Agreed(ip), NEW r \in Refreshes, Concurs(r, ip)
  PROVE  Agreed(ip)' /\ PresentStays(ip) /\ ReportsTruly(ip)
<1>1. ASSUME NEW s \in Refreshes \ {r} PROVE Agrees(task[s], ip)' /\ ~Ending(s)
  <2>1. Agrees(task[s], ip) /\ task'[s] = task[s]
      BY <1>1 DEF Agreed, Concurs, Alone
  <2> QED BY <2>1 DEF Agrees, Concurs, Preserves, PresentStays, Ending, NeedsUpdate, Verified
<1> QED BY <1>1 DEF Agreed, ReportsTruly, Concurs, Preserves

LEMMA ZonePreserved ==
  ASSUME NEW ip, UNCHANGED zone
  PROVE  Preserves(ip)
BY DEF Preserves, PresentStays, Present, Harmless, IdsOf, NeedsUpdate

\* A write into a free place, or one that destroys nothing.
LEMMA WritePreserves ==
  ASSUME IInv, NEW ip \in Addresses, NEW id \in Ids, NEW record \in Record,
         record.type = TypeFor[ip], record.content = Stored[ip],
         ~record.proxied, record.shortLived,
         zone' = [zone EXCEPT ![id] = record],
         zone[id] = NoRecord \/ Harmless(id, ip)
  PROVE  /\ Preserves(ip) /\ Harmless(id, ip)'
         /\ Verified(record, ip) => Present(ip)'
<1>1. /\ zone'[id] = record /\ record # NoRecord
      /\ \A other \in Ids \ {id} : zone'[other] = zone[other]
    BY ZoneAssumption DEF IInv, TypeOK
<1>2. NeedsUpdate(record, ip) <=> Stored[ip] # ip
    BY DEF NeedsUpdate
<1>3. Harmless(id, ip)'
    BY <1>1, <1>2 DEF Harmless, IdsOf, NeedsUpdate
<1>4. Stored[ip] = ip => Present(ip)'
    BY <1>1, <1>2 DEF Present, IdsOf, NeedsUpdate
<1>5. PresentStays(ip)
  <2> SUFFICES ASSUME Present(ip) PROVE Present(ip)'
      BY DEF PresentStays
  <2>1. PICK other \in IdsOf(TypeFor[ip]) : ~NeedsUpdate(zone[other], ip)
      BY DEF Present
  <2>2. CASE other = id
      BY <1>4, <2>1, <2>2 DEF Harmless, IdsOf
  <2>3. CASE other # id
      BY <1>1, <2>1, <2>3 DEF Present, IdsOf, NeedsUpdate
  <2> QED BY <2>2, <2>3
<1>6. ASSUME NEW other, Harmless(other, ip) PROVE Harmless(other, ip)'
  <2>1. CASE other = id
      BY <1>3, <2>1
  <2>2. CASE other # id
      BY <1>1, <1>6, <2>2 DEF Harmless, IdsOf, NeedsUpdate
  <2> QED BY <2>1, <2>2
<1>7. Verified(record, ip) => Stored[ip] = ip
    BY DEF Verified
<1> QED BY <1>3, <1>4, <1>5, <1>6, <1>7 DEF Preserves

LEMMA WrittenFits ==
  ASSUME NEW ip \in Addresses
  PROVE  /\ Written(ip) \in Record /\ Written(ip).type = TypeFor[ip]
         /\ Written(ip).content = Stored[ip] /\ ~Written(ip).proxied /\ Written(ip).shortLived
<1>1. Written(ip) \in Record
    BY ZoneAssumption DEF Written, Record
<1> QED BY <1>1 DEF Written

\* What a create or an update writes, answered or not.
LEMMA CreatePreserves ==
  ASSUME IInv, NEW r \in Refreshes, NEW ip \in Addresses, task[r].local = ip,
         NEW id \in Free, Creates(r, id)
  PROVE  Preserves(ip) /\ (Verified(Written(ip), ip) => Present(ip)')
BY WrittenFits, WritePreserves DEF Creates, Free

LEMMA UpdatePreserves ==
  ASSUME IInv, NEW r \in Refreshes, NEW ip \in Addresses, task[r].local = ip,
         NEW id, task[r].id = id, Harmless(id, ip), Updates(r)
  PROVE  /\ Preserves(ip) /\ Harmless(id, ip)'
         /\ Verified(zone'[id], ip) => Present(ip)'
<1> DEFINE record == [Written(ip) EXCEPT !.type = zone[id].type]
<1>1. id \in Ids /\ zone[id].type = TypeFor[ip]
    BY DEF Harmless, IdsOf
<1>2. record = Written(ip)
    BY <1>1, WrittenFits DEF Record
<1>3. zone' = [zone EXCEPT ![id] = record]
    BY DEF Updates
<1>4. zone'[id] = Written(ip)
    BY <1>1, <1>2, <1>3 DEF IInv, TypeOK
<1> HIDE DEF record
<1>5. Preserves(ip) /\ Harmless(id, ip)' /\ (Verified(Written(ip), ip) => Present(ip)')
    BY <1>1, <1>2, <1>3, WrittenFits, WritePreserves
<1> QED BY <1>4, <1>5

LEMMA AnswerConcurs ==
  ASSUME IInv, NEW ip \in Addresses, Agreed(ip), NEW r \in Refreshes, Answer(r)
  PROVE  Concurs(r, ip)
<1> DEFINE reply == task'[r].reply
<1>1. PICK new : task' = [task EXCEPT ![r].reply = new]
    BY DEF Answer, AnswerRecords, AnswerCreate, AnswerUpdate, AnswerRefused, RequestFails,
       WriteAnswerLost, Answered
<1>2. /\ Alone(r) /\ task'[r].pc = task[r].pc /\ task'[r].local = task[r].local
      /\ task'[r].id = task[r].id
    BY <1>1 DEF IInv, TasksOK, Task, Alone
<1>3. task[r].pc \in Requesting
    BY DEF Answer, AnswerRecords, AnswerCreate, AnswerUpdate, AnswerRefused, RequestFails,
       WriteAnswerLost, Awaits, Requesting
<1>4. task[r].local = ip /\ Agrees(task[r], ip) /\ ~Ending(r)
    BY <1>2, <1>3 DEF Agreed, Agrees, Requesting, Ending
<1>5. CASE AnswerRecords(r)
  <2>1. task[r].pc = "listing" /\ Preserves(ip)
      BY <1>5, ZonePreserved DEF AnswerRecords, Awaits
  <2>2. \/ reply.record = NoRecord
        \/ \E id \in IdsOf(TypeFor[ip]) : reply.id = id /\ reply.record = zone[id]
      BY <1>4, <1>5, AnswerSeen DEF AnswerRecords
  <2>3. UNCHANGED zone
      BY <1>5 DEF AnswerRecords
  <2>4. Agrees(task[r], ip)'
      BY <1>2, <1>4, <2>1, <2>2, <2>3 DEF Agrees, Harmless, Present, IdsOf, NeedsUpdate
  <2> QED BY <1>2, <1>4, <2>1, <2>4 DEF Concurs
<1>6. CASE AnswerCreate(r)
  <2>1. PICK id \in Free : Creates(r, id) /\ Answered(r, "ok", id, Written(ip))
      BY <1>4, <1>6 DEF AnswerCreate
  <2>2. reply.record = Written(ip) /\ task[r].pc = "creating"
      BY <1>6, <2>1, AnswerSeen DEF AnswerCreate, Awaits
  <2>3. Preserves(ip) /\ (Verified(Written(ip), ip) => Present(ip)')
      BY <1>4, <2>1, CreatePreserves
  <2>4. Agrees(task[r], ip)'
      BY <1>2, <1>4, <2>2, <2>3 DEF Agrees, Verified
  <2> QED BY <1>2, <1>4, <2>3, <2>4 DEF Concurs
<1>7. CASE AnswerUpdate(r)
  <2> DEFINE id == task[r].id
  <2>1. task[r].pc = "updating" /\ Updates(r) /\ Answered(r, "ok", id, zone'[id])
      BY <1>7 DEF AnswerUpdate, Awaits
  <2>2. PICK target : target = id
      OBVIOUS
  <2>3. reply.record = zone'[target] /\ task'[r].id = target /\ Harmless(target, ip)
      BY <1>2, <1>4, <2>1, <2>2, AnswerSeen DEF Agrees
  <2>4. /\ Preserves(ip) /\ Harmless(target, ip)'
        /\ Verified(zone'[target], ip) => Present(ip)'
      BY <1>4, <2>1, <2>2, <2>3, UpdatePreserves
  <2>5. Agrees(task[r], ip)'
      BY <1>2, <1>4, <2>1, <2>3, <2>4 DEF Agrees, Verified
  <2> QED BY <1>2, <1>4, <2>4, <2>5 DEF Concurs
<1>8. CASE AnswerRefused(r) \/ RequestFails(r)
  <2>1. reply.class \in ErrorClasses /\ reply.record = NoRecord /\ Preserves(ip)
      BY <1>8, FaultsAssumption, AnswerSeen, ZonePreserved
         DEF AnswerRefused, RequestFails, ErrorClasses
  <2>2. Agrees(task[r], ip)'
      BY <1>2, <1>4, <2>1 DEF Agrees, ErrorClasses, Preserves
  <2> QED BY <1>2, <1>4, <2>1, <2>2 DEF Concurs
<1>9. CASE WriteAnswerLost(r)
  <2>1. reply.class = "error" /\ reply.record = NoRecord
      BY <1>9, AnswerSeen DEF WriteAnswerLost
  <2>2. Preserves(ip)
    <3>1. PICK id : id = task[r].id
        OBVIOUS
    <3> QED BY <1>4, <1>9, <3>1, CreatePreserves, UpdatePreserves
            DEF WriteAnswerLost, Awaits, Agrees
  <2>3. Agrees(task[r], ip)'
      BY <1>2, <1>4, <2>1, <2>2 DEF Agrees, Preserves
  <2> QED BY <1>2, <1>4, <2>2, <2>3 DEF Concurs
<1> QED BY <1>5, <1>6, <1>7, <1>8, <1>9 DEF Answer

\* A DNS half that ends, or goes on.
LEMMA ReturnsConcurs ==
  ASSUME IInv, NEW ip, NEW r \in Refreshes, NEW local, NEW content, NEW inSync,
         Returns(r, local, content, inSync), UNCHANGED zone,
         inSync = "yes" => Present(ip)
  PROVE  Concurs(r, ip)
<1>1. Alone(r) /\ task'[r].pc = "idle" /\ report'.inSync = inSync
    BY DEF IInv, TasksOK, Alone, Returns, IdleTask
<1>2. Preserves(ip)
    BY ZonePreserved
<1> QED BY <1>1, <1>2 DEF Concurs, Agrees, Preserves, PresentStays

LEMMA GoesToConcurs ==
  ASSUME IInv, NEW ip, NEW r \in Refreshes, task[r].local = ip,
         NEW pc \in {"creating", "updating", "backoff"}, NEW id, GoesTo(r, pc, id),
         UNCHANGED zone, pc = "updating" => Harmless(id, ip)
  PROVE  Concurs(r, ip)
<1>1. /\ Alone(r) /\ task'[r].pc = pc /\ task'[r].local = task[r].local /\ task'[r].id = id
      /\ task'[r].reply = NoReply
    BY DEF IInv, TasksOK, Task, Alone, GoesTo
<1>2. Preserves(ip) /\ NoReply.class # "ok"
    BY ZonePreserved DEF NoReply
<1> QED BY <1>1, <1>2 DEF Concurs, Agrees, Ending, Preserves

LEMMA AttemptFailsConcurs ==
  ASSUME IInv, NEW ip, NEW r \in Refreshes, task[r].local = ip, AttemptFails(r), UNCHANGED zone
  PROVE  Concurs(r, ip)
BY GoesToConcurs, ReturnsConcurs DEF AttemptFails, GivesUp

LEMMA ResumeConcurs ==
  ASSUME IInv, NEW ip \in Addresses, Agreed(ip), NEW r \in Refreshes, Resume(r)
  PROVE  Concurs(r, ip)
<1>1. Agrees(task[r], ip)
    BY DEF Agreed
<1>2. task[r].pc # "idle" /\ task[r].local = ip
    BY <1>1 DEF Resume, ListedNone, ListedDiffers, ListedMatches, WriteReturns,
       RequestBreaksAttempt, TokenRejected, BackoffEnds, Got, Requesting, Agrees
<1>3. CASE ListedNone(r)
    BY <1>2, <1>3, GoesToConcurs DEF ListedNone
<1>4. CASE ListedDiffers(r)
    BY <1>1, <1>2, <1>4, GoesToConcurs DEF ListedDiffers, Got, Agrees
<1>5. CASE ListedMatches(r)
    BY <1>1, <1>2, <1>5, ReturnsConcurs, AttemptFailsConcurs
       DEF ListedMatches, Succeeds, Got, Agrees
<1>6. CASE WriteReturns(r)
    BY <1>1, <1>2, <1>6, ReturnsConcurs, AttemptFailsConcurs
       DEF WriteReturns, Succeeds, Got, Agrees
<1>7. CASE RequestBreaksAttempt(r)
    BY <1>2, <1>7, AttemptFailsConcurs DEF RequestBreaksAttempt
<1>8. CASE TokenRejected(r)
    BY <1>8, ReturnsConcurs DEF TokenRejected, GivesUp
<1>9. CASE BackoffEnds(r)
  <2>1. /\ Alone(r) /\ task'[r].pc = "listing" /\ task'[r].local = task[r].local
        /\ task'[r].reply = NoReply /\ NoReply.record = NoRecord
      BY <1>9 DEF IInv, TasksOK, Task, Alone, BackoffEnds, Aims, NoReply
  <2>2. Preserves(ip)
      BY <1>9, ZonePreserved DEF BackoffEnds
  <2> QED BY <1>2, <2>1, <2>2 DEF Concurs, Agrees, Ending
<1> QED BY <1>3, <1>4, <1>5, <1>6, <1>7, <1>8, <1>9 DEF Resume

LEMMA BeginConcurs ==
  ASSUME IInv, NEW ip, Undisturbed(ip), NEW r \in Refreshes, Begin(r)
  PROVE  Concurs(r, ip)
<1>1. Preserves(ip) /\ ~Ending(r)
    BY ZonePreserved DEF Begin, Ending
<1>2. PICK new : task' = [task EXCEPT ![r] = new] /\
        (new = IdleTask \/ \E local : new =
             [pc |-> "listing", local |-> local, id |-> NoId, attempt |-> 1,
              delay |-> InitialBackoff, reply |-> NoReply])
    BY DEF Begin, GivesUp, Returns
<1>3. Alone(r) /\ task'[r] = new
    BY <1>2 DEF IInv, TasksOK, Alone
<1>4. CASE new = IdleTask
    BY <1>1, <1>3, <1>4 DEF Concurs, Agrees, IdleTask
<1>5. CASE \E local : new =
             [pc |-> "listing", local |-> local, id |-> NoId, attempt |-> 1,
              delay |-> InitialBackoff, reply |-> NoReply]
  <2>1. task'[r].pc = "listing" /\ task'[r].reply.record = NoRecord
      BY <1>3, <1>5 DEF NoReply
  <2>2. task'[r].local = ip
      BY <2>1 DEF Undisturbed
  <2> QED BY <1>1, <1>3, <2>1, <2>2 DEF Concurs, Agrees
<1> QED BY <1>2, <1>4, <1>5

LEMMA NextAgreed ==
  ASSUME NEW ip \in Addresses
  PROVE  IInv /\ Agreed(ip) /\ [Next]_vars /\ [Undisturbed(ip)]_vars
           => Agreed(ip)' /\ [PresentStays(ip) /\ ReportsTruly(ip)]_vars
<1> SUFFICES ASSUME IInv, Agreed(ip), [Next]_vars, [Undisturbed(ip)]_vars
             PROVE  Agreed(ip)' /\ [PresentStays(ip) /\ ReportsTruly(ip)]_vars
    OBVIOUS
<1>1. CASE UNCHANGED vars
  <2>1. UNCHANGED task /\ Preserves(ip)
      BY <1>1, ZonePreserved DEF vars
  <2> QED BY <1>1, <2>1 DEF Agreed, Agrees, Preserves, PresentStays, NeedsUpdate, Verified
<1>2. ASSUME NEW r \in Refreshes, Begin(r) \/ Answer(r) \/ Resume(r), Undisturbed(ip)
      PROVE  Agreed(ip)' /\ PresentStays(ip) /\ ReportsTruly(ip)
    BY <1>2, BeginConcurs, AnswerConcurs, ResumeConcurs, StepAgreed
<1> QED BY <1>1, <1>2 DEF Next, Undisturbed

\* DNS halves for one address may overlap without losing a right record, any number of
\* them, whatever answers are lost: from rest on, and until others edit the zone or the
\* address changes, a record that needs no update stays one, and whoever publishes "in
\* sync" is right.  (That two of them may create a record each is another matter.)
THEOREM OverlapHarmless ==
  ASSUME NEW ip \in Addresses
  PROVE  Spec => [](AllIdle /\ [][Undisturbed(ip)]_vars
                      => [][PresentStays(ip) /\ ReportsTruly(ip)]_vars)
<1>1. AllIdle => Agreed(ip)
    BY DEF AllIdle, Agreed, Agrees
<1> QED BY <1>1, NextAgreed, InitGood, NextGood, PTL DEF Spec, Good

================================================================================
