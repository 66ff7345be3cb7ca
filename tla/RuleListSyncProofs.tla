--------------------------- MODULE RuleListSyncProofs ---------------------------
(***************************************************************************)
(* Proofs about the refreshes, for every set of overlapping refreshes,     *)
(* every list, every network function, every set of faults and every       *)
(* max_retries.                                                            *)
(*                                                                         *)
(* The inductive invariant is IInv.  Every step is shown to be one of a    *)
(* few shapes (a refresh gets an answer, goes on, goes idle...), and a     *)
(* lemma per shape says what becomes of the refresh.                       *)
(***************************************************************************)
EXTENDS RuleListSync, TLAPS

\* TypeOK without the refreshes and their operations.
WorldOK ==
  /\ source \in Readings
  /\ listed \in BOOLEAN
  /\ list \subseteq Items
  /\ strays \subseteq Hosts
  /\ data \in Report \cup {NoData}
  /\ outcome \in {"none", "success", "failed", "auth"}
  /\ lastSynced \in BOOLEAN
  /\ notified \subseteq {"list", "dns"}
  /\ issue \in BOOLEAN
  /\ drifted \in BOOLEAN

BulkStates == {"none", "pending", "completed", "failed"}

IInv == TypeOK /\ RefreshesUpheld /\ ReportIsCoherent

LEMMA TypeParts ==
  TypeOK <=> /\ WorldOK
             /\ bulk \in [Refreshes -> BulkStates]
             /\ task \in [Refreshes -> Task]
BY DEF TypeOK, WorldOK, BulkStates

\* A step of one refresh leaves the others and their operations alone.
Touches(r) ==
  /\ task' = [s \in Refreshes |-> task'[s]]
  /\ bulk' = [s \in Refreshes |-> bulk'[s]]
  /\ \A s \in Refreshes \ {r} : task'[s] = task[s] /\ bulk'[s] = bulk[s]
  /\ lastSynced => lastSynced'

\* What r has become, when the rest is dealt with.
Becomes(r) ==
  /\ task'[r] \in Task
  /\ bulk'[r] \in BulkStates
  /\ Upheld(task'[r], bulk'[r], lastSynced')

\* To preserve the invariant it is enough to look at the refresh that stepped.
LEMMA OneRefreshStep ==
  ASSUME IInv, NEW r \in Refreshes, Touches(r), Becomes(r), WorldOK', ReportIsCoherent'
  PROVE  IInv'
<1>1. TypeOK /\ WorldOK /\ bulk \in [Refreshes -> BulkStates] /\ task \in [Refreshes -> Task]
    BY TypeParts DEF IInv
<1>2. /\ bulk' \in [Refreshes -> BulkStates]
      /\ task' \in [Refreshes -> Task]
    BY <1>1 DEF Touches, Becomes
<1>3. TypeOK'
    BY <1>2 DEF TypeOK, WorldOK, BulkStates
<1>4. ASSUME NEW s \in Refreshes
      PROVE  Upheld(task'[s], bulk'[s], lastSynced')
  <2>1. CASE s = r
      BY <2>1 DEF Becomes
  <2>2. CASE s # r
    <3>1. Upheld(task[s], bulk[s], lastSynced) /\ (lastSynced => lastSynced')
        BY DEF IInv, RefreshesUpheld, Touches
    <3>2. task'[s] = task[s] /\ bulk'[s] = bulk[s]
        BY <2>2 DEF Touches
    <3> QED BY <3>1, <3>2 DEF Upheld
  <2> QED BY <2>1, <2>2
<1> QED BY <1>3, <1>4 DEF IInv, RefreshesUpheld

--------------------------------------------------------------------------------
\* The shapes.

LEMMA NoReplyType == NoReply \in Reply
BY DEF NoReply, Reply, Says, ErrorClasses

LEMMA IdleUpheld ==
  /\ IdleTask \in Task
  /\ \A synced : Upheld(IdleTask, "none", synced)
BY NoReplyType DEF IdleTask, Task, Upheld, InLoop, Requesting

\* A coroutine that only gets an answer.
LEMMA ReplySet ==
  ASSUME NEW t \in Task, NEW reply \in Reply, NEW u, u = [t EXCEPT !.reply = reply]
  PROVE  /\ u \in Task
         /\ u.pc = t.pc /\ u.local = t.local /\ u.seen = t.seen
         /\ u.attempt = t.attempt /\ u.delay = t.delay
         /\ u.failed = t.failed /\ u.reply = reply
BY DEF Task

\* What the invariant gives about one refresh.
LEMMA Before ==
  ASSUME IInv, NEW r \in Refreshes
  PROVE  /\ task[r] \in Task
         /\ bulk[r] \in BulkStates
         /\ Upheld(task[r], bulk[r], lastSynced)
         /\ task = [s \in Refreshes |-> task[s]]
         /\ bulk = [s \in Refreshes |-> bulk[s]]
         /\ WorldOK
         /\ ReportIsCoherent
BY TypeParts DEF IInv, RefreshesUpheld

\* An answer keeps the invariant when it agrees with the bulk operation.
LEMMA AnswerKeeps ==
  ASSUME IInv, NEW r \in Refreshes,
         NEW class \in {"ok"} \cup ErrorClasses, NEW items \in SUBSET Items, NEW says \in Says,
         Answered(r, class, items, says),
         task[r].pc \in Requesting, task[r].reply = NoReply,
         UNCHANGED <<bulk, lastSynced>>,
         ~(class = "ok" /\ task[r].pc = "replacing")
  PROVE  Touches(r) /\ Becomes(r)
<1>1. task'[r] = [task[r] EXCEPT !.reply = [class |-> class, items |-> items, says |-> says]]
    BY Before DEF Answered
<1>2. [class |-> class, items |-> items, says |-> says] \in Reply
    BY DEF Reply
<1>3. Touches(r)
    BY Before DEF Touches, Answered
<1>4. task'[r] \in Task /\ Upheld(task'[r], bulk'[r], lastSynced')
  <2> DEFINE u == task'[r]
  <2>1. /\ u \in Task
        /\ u.pc = task[r].pc /\ u.local = task[r].local /\ u.seen = task[r].seen
        /\ u.attempt = task[r].attempt /\ u.delay = task[r].delay
        /\ u.failed = task[r].failed /\ u.reply.class = class
      BY <1>1, <1>2, Before, ReplySet
  <2>2. task[r].reply.class = "none"
      BY DEF NoReply
  <2> HIDE DEF u
  <2> QED BY <2>1, <2>2, Before DEF Upheld, Requesting, u, InLoop
<1> QED BY <1>3, <1>4, Before DEF Becomes
\* A refresh goes on to an await outside its polling, and polls for nothing.
LEMMA GoesOnKeeps ==
  ASSUME IInv, NEW r \in Refreshes,
         NEW pc \in {"checking", "verifying", "backoff"},
         GoesTo(r, pc),
         pc \in {"verifying", "backoff"} <=> task[r].pc \in InLoop,
         pc = "backoff" => task[r].attempt < MaxRetries,
         bulk' = [s \in Refreshes |-> IF s = r THEN "none" ELSE bulk[s]],
         UNCHANGED lastSynced
  PROVE  Touches(r) /\ Becomes(r)
<1>1. task'[r] = [task[r] EXCEPT !.pc = pc, !.reply = NoReply]
    BY Before DEF GoesTo
<1>2. Touches(r)
    BY Before DEF Touches, GoesTo
<1>3. task'[r] \in Task /\ Upheld(task'[r], bulk'[r], lastSynced')
  <2> DEFINE u == task'[r]
  <2>1. /\ u \in Task
        /\ u.pc = pc /\ u.local = task[r].local /\ u.seen = task[r].seen
        /\ u.attempt = task[r].attempt /\ u.delay = task[r].delay
        /\ u.reply = NoReply
    <3>1. task[r] \in Task /\ pc \in Requesting \cup {"idle", "backoff", "dns"}
        BY Before DEF Requesting
    <3> HIDE DEF u
    <3>2. u = [task[r] EXCEPT !.pc = pc, !.reply = NoReply]
        BY <1>1 DEF u
    <3>3. u \in Task
        BY <3>1, <3>2, NoReplyType DEF Task
    <3> QED BY <3>1, <3>2, <3>3 DEF Task
  <2>2. bulk'[r] = "none"
      OBVIOUS
  <2> HIDE DEF u
  <2> QED BY <2>1, <2>2, Before DEF Upheld, Requesting, u, InLoop
<1> QED BY <1>2, <1>3 DEF Becomes, BulkStates

\* A refresh goes idle.
LEMMA IdleKeeps ==
  ASSUME IInv, NEW r \in Refreshes,
         task' = [task EXCEPT ![r] = IdleTask],
         bulk' = [s \in Refreshes |-> IF s = r THEN "none" ELSE bulk[s]],
         lastSynced => lastSynced'
  PROVE  Touches(r) /\ Becomes(r)
<1>1. task'[r] = IdleTask /\ bulk'[r] = "none"
    BY Before
<1>2. Touches(r)
    BY Before DEF Touches
<1> QED BY <1>1, <1>2, IdleUpheld DEF Becomes, BulkStates

\* What a refresh publishes hangs together.
LEMMA PublishesCoherently ==
  ASSUME IInv, NEW r \in Refreshes, NEW ips \in SUBSET Items,
         NEW failed \in BOOLEAN, NEW synced \in BOOLEAN, NEW dns \in {"none", "yes", "no"},
         Publishes(r, ips, failed, synced, dns),
         failed = (task[r].local # NoIP /\ ~IsInSync(task[r].local, ips)),
         IsInSync(task[r].local, ips) => synced,
         (dns # "none") = (DnsEnabled /\ task[r].local # NoIP)
  PROVE  data' \in Report /\ outcome' = "success" /\ ReportIsCoherent'
<1>1. task[r].local \in Hosts \cup {NoIP}
    BY Before DEF Task
<1>2. data' = [localIp |-> task[r].local, cloudflareIps |-> ips,
               inSync |-> task[r].local # NoIP /\ ~failed,
               lastSynced |-> synced, lastError |-> failed, dnsInSync |-> dns]
    BY DEF Publishes
<1>3. data' \in Report
    BY <1>1, <1>2 DEF Report
<1>4. IsInSync(task[r].local, ips) \in BOOLEAN /\ (IsInSync(task[r].local, ips) => task[r].local # NoIP)
    BY DEF IsInSync
<1>5. ReportIsCoherent'
    BY <1>2, <1>4 DEF ReportIsCoherent
<1> QED BY <1>3, <1>5 DEF Publishes

\* The list half ends in a coherent report, or goes on to the DNS half.
LEMMA ListHalfKeeps ==
  ASSUME IInv, NEW r \in Refreshes, NEW ips \in SUBSET Items,
         NEW failed \in BOOLEAN, NEW synced \in BOOLEAN,
         ListHalfEnds(r, ips, failed, synced),
         failed = (task[r].local # NoIP /\ ~IsInSync(task[r].local, ips)),
         IsInSync(task[r].local, ips) => synced,
         lastSynced => synced,
         bulk' = [s \in Refreshes |-> IF s = r THEN "none" ELSE bulk[s]]
  PROVE  /\ Touches(r) /\ Becomes(r) /\ ReportIsCoherent'
         /\ data' \in Report \cup {NoData}
         /\ outcome' \in {"none", "success", "failed", "auth"}
         /\ lastSynced' \in BOOLEAN
<1>1. lastSynced' = synced
    BY DEF ListHalfEnds
<1>2. CASE DnsEnabled /\ task[r].local # NoIP
  <2>1. /\ task' = [task EXCEPT ![r] =
             [pc |-> "dns", local |-> task[r].local, seen |-> ips, attempt |-> 0,
              delay |-> 0, failed |-> failed, reply |-> NoReply]]
        /\ UNCHANGED <<data, outcome>>
      BY <1>2 DEF ListHalfEnds
  <2> DEFINE u == task'[r]
  <2>2. u = [pc |-> "dns", local |-> task[r].local, seen |-> ips, attempt |-> 0,
             delay |-> 0, failed |-> failed, reply |-> NoReply]
      BY <2>1, Before
  <2>3. u \in Task
      BY <2>2, Before, NoReplyType DEF Task
  <2>4. /\ u.pc = "dns" /\ u.local = task[r].local /\ u.seen = ips /\ u.attempt = 0
        /\ u.delay = 0 /\ u.failed = failed /\ u.reply = NoReply
      BY <2>2, Before DEF Task
  <2>5. u.local \in Hosts
      BY <1>2, <2>4, Before DEF Task
  <2>6. bulk'[r] = "none"
      OBVIOUS
  <2>7. IsInSync(task[r].local, ips) \in BOOLEAN
      BY DEF IsInSync
  <2> HIDE DEF u
  <2>8. Upheld(u, bulk'[r], lastSynced')
      BY <1>1, <1>2, <2>4, <2>5, <2>6, <2>7 DEF Upheld, InLoop, Requesting
  <2>9. Touches(r)
      BY <1>1, <2>1, Before DEF Touches
  <2>10. ReportIsCoherent' /\ data' \in Report \cup {NoData}
         /\ outcome' \in {"none", "success", "failed", "auth"}
      BY <2>1, Before DEF ReportIsCoherent, WorldOK
  <2> QED BY <1>1, <2>3, <2>6, <2>8, <2>9, <2>10 DEF Becomes, BulkStates, u
<1>3. CASE ~(DnsEnabled /\ task[r].local # NoIP)
  <2>1. Publishes(r, ips, failed, synced, "none")
      BY <1>3 DEF ListHalfEnds
  <2>2. data' \in Report /\ outcome' = "success" /\ ReportIsCoherent'
      BY <1>3, <2>1, FaultsAssumption, PublishesCoherently
  <2>3. Touches(r) /\ Becomes(r)
      BY <1>1, <2>1, IdleKeeps DEF Publishes
  <2> QED BY <1>1, <2>2, <2>3
<1> QED BY <1>2, <1>3

--------------------------------------------------------------------------------
\* The steps.

\* A step that changes no refresh, no operation and no report.
LEMMA WorldStep ==
  ASSUME IInv, UNCHANGED <<bulk, task, data, lastSynced>>, WorldOK'
  PROVE  IInv'
<1>1. TypeOK'
    BY TypeParts DEF IInv, TypeOK, WorldOK
<1> QED BY <1>1 DEF IInv, RefreshesUpheld, ReportIsCoherent

LEMMA EnvironmentKeeps ==
  ASSUME IInv, Environment
  PROVE  IInv'
<1> USE DomainAssumption DEF IInv, TypeOK, WorldOK, cloudflare, published
<1>1. UNCHANGED <<bulk, task, data, lastSynced>>
    BY DEF Environment, SourceChanges, ListEdited, ListDeleted, ListRestored
<1>2. WorldOK'
  <2>1. CASE SourceChanges
      BY <2>1 DEF SourceChanges
  <2>2. CASE ListEdited
      BY <2>2 DEF ListEdited
  <2>3. CASE ListDeleted
      BY <2>3 DEF ListDeleted
  <2>4. CASE ListRestored
      BY <2>4 DEF ListRestored
  <2> QED BY <2>1, <2>2, <2>3, <2>4 DEF Environment
<1> QED BY <1>1, <1>2, WorldStep

LEMMA AnswerStepKeeps ==
  ASSUME IInv, NEW r \in Refreshes, Answer(r) \/ Fault(r)
  PROVE  IInv'
<1> USE DEF cloudflare, published
<1>0. /\ task[r] \in Task /\ Upheld(task[r], bulk[r], lastSynced)
      /\ bulk[r] \in BulkStates /\ WorldOK /\ ReportIsCoherent
    BY Before
<1>1. CASE AnswerItems(r)
  <2>1. Touches(r) /\ Becomes(r)
      BY <1>0, <1>1, AnswerKeeps DEF AnswerItems, Awaits, WorldOK, Requesting, Says
  <2>2. WorldOK' /\ ReportIsCoherent'
      BY <1>0, <1>1 DEF AnswerItems, WorldOK, ReportIsCoherent
  <2> QED BY <2>1, <2>2, OneRefreshStep
<1>2. CASE AnswerNoSuchList(r)
  <2>1. Touches(r) /\ Becomes(r)
      BY <1>0, <1>2, AnswerKeeps DEF AnswerNoSuchList, Awaits, Requesting, Says, ErrorClasses
  <2>2. WorldOK' /\ ReportIsCoherent'
      BY <1>0, <1>2 DEF AnswerNoSuchList, WorldOK, ReportIsCoherent
  <2> QED BY <2>1, <2>2, OneRefreshStep
<1>3. CASE AnswerLists(r)
  <2>1. Touches(r) /\ Becomes(r)
      BY <1>0, <1>3, AnswerKeeps DEF AnswerLists, Awaits, Requesting, Says
  <2>2. WorldOK' /\ ReportIsCoherent'
      BY <1>0, <1>3 DEF AnswerLists, WorldOK, ReportIsCoherent
  <2> QED BY <2>1, <2>2, OneRefreshStep
<1>4. CASE AnswerReplace(r)
  <2> DEFINE reply == [class |-> "ok", items |-> {}, says |-> "nothing"]
  <2>1. /\ task' = [task EXCEPT ![r].reply = reply]
        /\ task[r].pc = "replacing"
        /\ bulk' = [bulk EXCEPT ![r] = "pending"]
        /\ UNCHANGED <<source, listed, list, strays, data, outcome, lastSynced,
                       notified, issue, drifted>>
      BY <1>4 DEF AnswerReplace, Answered, Awaits
  <2>2. reply \in Reply /\ reply.class = "ok"
      BY DEF Reply, Says
  <2> HIDE DEF reply
  <2>3. task'[r] = [task[r] EXCEPT !.reply = reply] /\ bulk'[r] = "pending"
      BY <2>1, Before
  <2>4. Touches(r)
      BY <2>1, Before DEF Touches
  <2>5. task'[r] \in Task
      BY <1>0, <2>2, <2>3 DEF Task
  <2>6. /\ task'[r].pc = "replacing" /\ task'[r].local = task[r].local
        /\ task'[r].seen = task[r].seen /\ task'[r].attempt = task[r].attempt
        /\ task'[r].delay = task[r].delay /\ task'[r].reply = reply
      BY <1>0, <2>1, <2>3 DEF Task
  <2>7. Upheld(task'[r], bulk'[r], lastSynced')
      BY <1>0, <2>1, <2>2, <2>3, <2>6 DEF Upheld, InLoop, Requesting
  <2>8. WorldOK' /\ ReportIsCoherent'
      BY <1>0, <2>1 DEF WorldOK, ReportIsCoherent
  <2> QED BY <2>3, <2>4, <2>5, <2>7, <2>8, OneRefreshStep DEF Becomes, BulkStates
<1>5. CASE AnswerPoll(r)
  <2>1. bulk[r] \in Says
      BY <1>0, <1>5 DEF AnswerPoll, Awaits, Upheld, BulkStates, Says
  <2>2. Touches(r) /\ Becomes(r)
      BY <1>0, <1>5, <2>1, AnswerKeeps DEF AnswerPoll, Awaits, Requesting
  <2>3. WorldOK' /\ ReportIsCoherent'
      BY <1>0, <1>5 DEF AnswerPoll, WorldOK, ReportIsCoherent
  <2> QED BY <2>2, <2>3, OneRefreshStep
<1>6. CASE RequestFails(r)
  <2>1. PICK class \in Faults : Answered(r, class, {}, "nothing")
      BY <1>6 DEF RequestFails
  <2>2. class \in ErrorClasses /\ class # "ok"
      BY FaultsAssumption DEF ErrorClasses
  <2>3. Touches(r) /\ Becomes(r)
      BY <1>0, <1>6, <2>1, <2>2, AnswerKeeps DEF RequestFails, Awaits, Says
  <2>4. WorldOK' /\ ReportIsCoherent'
      BY <1>0, <1>6 DEF RequestFails, WorldOK, ReportIsCoherent
  <2> QED BY <2>3, <2>4, OneRefreshStep
<1>7. CASE ReplaceAnswerLost(r)
  <2>1. Touches(r) /\ Becomes(r)
      BY <1>0, <1>7, AnswerKeeps DEF ReplaceAnswerLost, Awaits, Requesting, Says, ErrorClasses
  <2>2. task[r].local \in Hosts
      BY <1>0, <1>7 DEF ReplaceAnswerLost, Awaits, Upheld, InLoop
  <2>3. WorldOK' /\ ReportIsCoherent'
      BY <1>0, <1>7, <2>2 DEF ReplaceAnswerLost, WorldOK, ReportIsCoherent
  <2> QED BY <2>1, <2>3, OneRefreshStep
<1> QED BY <1>1, <1>2, <1>3, <1>4, <1>5, <1>6, <1>7 DEF Answer, Fault

\* Cloudflare settles an operation somebody polls for.
LEMMA BulkSettlesKeeps ==
  ASSUME IInv, NEW r \in Refreshes, NEW state \in {"completed", "failed"},
         bulk[r] = "pending", bulk' = [bulk EXCEPT ![r] = state],
         UNCHANGED <<task, data, lastSynced>>, WorldOK'
  PROVE  IInv'
<1>1. bulk'[r] = state /\ state # "none" /\ task'[r] = task[r]
    BY Before
<1>2. Touches(r)
    BY Before DEF Touches
<1>3. Upheld(task'[r], bulk'[r], lastSynced')
    BY <1>1, Before DEF Upheld
<1>4. ReportIsCoherent'
    BY Before DEF ReportIsCoherent
<1> QED BY <1>1, <1>2, <1>3, <1>4, Before, OneRefreshStep DEF Becomes, BulkStates

LEMMA ApplyKeeps ==
  ASSUME IInv, Apply
  PROVE  IInv'
<1> USE DEF published, WorldOK
<1>0. WorldOK
    BY TypeParts DEF IInv
<1>1. ASSUME NEW r \in Refreshes, BulkCompletes(r)
      PROVE  IInv'
    BY <1>0, <1>1, BulkSettlesKeeps DEF BulkCompletes, Spellings
<1>2. ASSUME NEW r \in Refreshes, BulkFails(r)
      PROVE  IInv'
    BY <1>0, <1>2, BulkSettlesKeeps DEF BulkFails
<1>3. CASE StrayCompletes
  <2>1. PICK ip \in strays : StrayApplied(ip)
      BY <1>3 DEF StrayCompletes
  <2>2. WorldOK'
      BY <1>0, <2>1 DEF StrayApplied, OneDone, Spellings
  <2> QED BY <2>1, <2>2, WorldStep DEF StrayApplied
<1>4. CASE StrayFails
  <2>1. WorldOK'
      BY <1>0, <1>4 DEF StrayFails
  <2> QED BY <1>4, <2>1, WorldStep DEF StrayFails
<1> QED BY <1>1, <1>2, <1>3, <1>4 DEF Apply

\* The operation of r is dropped; only one still pending becomes a stray, and
\* only the address of a refresh in its loop does.
LEMMA ReleaseDrops ==
  ASSUME IInv, NEW r \in Refreshes, Releases(r)
  PROVE  /\ bulk' = [s \in Refreshes |-> IF s = r THEN "none" ELSE bulk[s]]
         /\ strays' \subseteq Hosts
<1>1. strays \subseteq Hosts /\ (bulk[r] # "none" => task[r].local \in Hosts)
    BY Before DEF WorldOK, Upheld, InLoop
<1> QED BY <1>1, Before DEF Releases

\* Outside its polling a refresh has no operation to drop.
LEMMA NothingToDrop ==
  ASSUME IInv, NEW r \in Refreshes, UNCHANGED bulk, task[r].pc # "polling",
         ~(task[r].pc = "replacing" /\ task[r].reply.class = "ok")
  PROVE  bulk' = [s \in Refreshes |-> IF s = r THEN "none" ELSE bulk[s]]
BY Before DEF Upheld

\* A refresh that ends with an exception.
LEMMA RaiseKeeps ==
  ASSUME IInv, NEW r \in Refreshes, NEW how \in {"failed", "auth"}, Raises(r, how),
         bulk' = [s \in Refreshes |-> IF s = r THEN "none" ELSE bulk[s]],
         UNCHANGED <<source, listed, list, notified, drifted>>,
         strays' \subseteq Hosts, issue' \in BOOLEAN
  PROVE  IInv'
<1>1. Touches(r) /\ Becomes(r)
    BY IdleKeeps DEF Raises
<1>2. WorldOK' /\ ReportIsCoherent'
    BY Before DEF Raises, WorldOK, ReportIsCoherent
<1> QED BY <1>1, <1>2, OneRefreshStep

\* An attempt that fails is followed by a sleep, or by giving up.
LEMMA AttemptFailsKeeps ==
  ASSUME IInv, NEW r \in Refreshes, AttemptFails(r),
         task[r].pc \in {"replacing", "polling", "verifying"}
  PROVE  IInv'
<1>1. /\ bulk' = [s \in Refreshes |-> IF s = r THEN "none" ELSE bulk[s]]
      /\ strays' \subseteq Hosts
    BY ReleaseDrops DEF AttemptFails
<1>2. UNCHANGED <<source, listed, list, issue, drifted>>
    BY DEF AttemptFails
<1>3. CASE task[r].attempt < MaxRetries
  <2>1. Touches(r) /\ Becomes(r)
      BY <1>1, <1>3, GoesOnKeeps DEF AttemptFails, InLoop
  <2>2. WorldOK' /\ ReportIsCoherent'
      BY <1>1, <1>2, <1>3, Before DEF AttemptFails, WorldOK, ReportIsCoherent
  <2> QED BY <2>1, <2>2, OneRefreshStep
<1>4. CASE ~(task[r].attempt < MaxRetries)
  <2>1. /\ notified' = notified \cup {"list"}
        /\ ListHalfEnds(r, task[r].seen, TRUE, lastSynced)
      BY <1>4 DEF AttemptFails, GivesUp
  <2>2. /\ task[r].local \in Hosts
        /\ ~IsInSync(task[r].local, task[r].seen)
      BY Before DEF Upheld, InLoop
  <2>3. task[r].seen \in SUBSET Items /\ lastSynced \in BOOLEAN
      BY Before DEF Task, WorldOK
  <2>4. task[r].local # NoIP
      BY <2>2, DomainAssumption
  <2>5. /\ Touches(r) /\ Becomes(r) /\ ReportIsCoherent'
        /\ data' \in Report \cup {NoData}
        /\ outcome' \in {"none", "success", "failed", "auth"}
        /\ lastSynced' \in BOOLEAN
      BY <1>1, <2>1, <2>2, <2>3, <2>4, ListHalfKeeps
  <2>6. WorldOK'
      BY <1>1, <1>2, <2>1, <2>5, Before DEF WorldOK
  <2> QED BY <2>5, <2>6, OneRefreshStep
<1> QED BY <1>3, <1>4

\* A list half that settles, at the read or after a write.
LEMMA SettleKeeps ==
  ASSUME IInv, NEW r \in Refreshes, NEW ips \in SUBSET Items, NEW synced \in BOOLEAN,
         Settles(r, ips, synced),
         task[r].local = NoIP \/ IsInSync(task[r].local, ips),
         IsInSync(task[r].local, ips) => synced,
         lastSynced => synced,
         bulk' = [s \in Refreshes |-> IF s = r THEN "none" ELSE bulk[s]],
         UNCHANGED <<source, listed, list, strays, drifted>>,
         issue' \in BOOLEAN
  PROVE  IInv'
<1>1. /\ notified' = notified \ {"list"}
      /\ ListHalfEnds(r, ips, FALSE, synced)
    BY DEF Settles
<1>2. FALSE = (task[r].local # NoIP /\ ~IsInSync(task[r].local, ips))
    OBVIOUS
<1>3. /\ Touches(r) /\ Becomes(r) /\ ReportIsCoherent'
      /\ data' \in Report \cup {NoData}
      /\ outcome' \in {"none", "success", "failed", "auth"}
      /\ lastSynced' \in BOOLEAN
    BY <1>1, <1>2, ListHalfKeeps
<1>4. WorldOK'
    BY <1>1, <1>3, Before DEF WorldOK
<1> QED BY <1>3, <1>4, OneRefreshStep

LEMMA BeginKeeps ==
  ASSUME IInv, NEW r \in Refreshes, Begin(r)
  PROVE  IInv'
<1> DEFINE u == task'[r]
<1>1. u = [task[r] EXCEPT !.pc = "reading", !.local = ReadSourceIp]
    BY Before DEF Begin
<1>2. /\ task[r] \in Task /\ bulk[r] \in BulkStates
      /\ Upheld(task[r], bulk[r], lastSynced) /\ task[r].pc = "idle"
    BY Before DEF Begin
<1>3. UNCHANGED <<bulk, lastSynced>>
    BY DEF Begin, cloudflare, published
<1> HIDE DEF u
<1>4. u \in Task
    BY <1>1, <1>2 DEF Task, ReadSourceIp, Requesting
<1>5. u.pc = "reading" /\ u.attempt = task[r].attempt /\ u.delay = task[r].delay
    BY <1>1, <1>2 DEF Task
<1>6. Upheld(u, bulk'[r], lastSynced')
    BY <1>2, <1>3, <1>5 DEF Upheld, InLoop, Requesting
<1>7. Touches(r)
    BY <1>3, Before DEF Touches, Begin
<1>8. WorldOK' /\ ReportIsCoherent'
    BY Before DEF Begin, WorldOK, ReportIsCoherent, cloudflare, published
<1> QED BY <1>2, <1>3, <1>4, <1>6, <1>7, <1>8, OneRefreshStep DEF Becomes, u

\* The read of the list, up to the retry loop.
LEMMA ReadKeeps ==
  ASSUME IInv, NEW r \in Refreshes,
         ReadBroken(r) \/ ReadRejected(r) \/ CheckReturns(r) \/ ReadSettles(r) \/ ReadDiffers(r)
  PROVE  IInv'
<1> USE DEF cloudflare, published
<1>0. /\ task[r] \in Task /\ Upheld(task[r], bulk[r], lastSynced) /\ WorldOK
      /\ ReportIsCoherent
    BY Before
<1>1. task[r].pc \in {"reading", "checking"} /\ UNCHANGED <<bulk, strays>>
    BY DEF ReadBroken, ReadRejected, CheckReturns, ReadSettles, ReadDiffers, Got
<1>2. bulk' = [s \in Refreshes |-> IF s = r THEN "none" ELSE bulk[s]]
    BY <1>1, NothingToDrop
<1>3. CASE ReadBroken(r)
    BY <1>0, <1>1, <1>2, <1>3, RaiseKeeps DEF ReadBroken, WorldOK
<1>4. CASE ReadRejected(r)
  <2>1. Touches(r) /\ Becomes(r)
      BY <1>2, <1>4, GoesOnKeeps DEF ReadRejected, Got, InLoop
  <2>2. WorldOK' /\ ReportIsCoherent'
      BY <1>0, <1>4 DEF ReadRejected, WorldOK, ReportIsCoherent
  <2> QED BY <2>1, <2>2, OneRefreshStep
<1>5. CASE CheckReturns(r)
    BY <1>0, <1>1, <1>2, <1>5, RaiseKeeps DEF CheckReturns, WorldOK
<1> DEFINE ips == task[r].reply.items
<1>6. ips \in SUBSET Items
    BY <1>0 DEF Task, Reply
<1>7. IsInSync(task[r].local, ips) \in BOOLEAN /\ lastSynced \in BOOLEAN
    BY <1>0 DEF IsInSync, WorldOK
<1>8. CASE ReadSettles(r)
  <2> DEFINE synced == lastSynced \/ IsInSync(task[r].local, ips)
  <2>1. synced \in BOOLEAN
      OBVIOUS
  <2>2. /\ Settles(r, ips, synced)
        /\ task[r].local = NoIP \/ IsInSync(task[r].local, ips)
        /\ issue' \in BOOLEAN
        /\ UNCHANGED <<source, listed, list, strays, drifted>>
      BY <1>8 DEF ReadSettles
  <2> QED BY <1>2, <1>6, <2>1, <2>2, SettleKeeps
<1>9. CASE ReadDiffers(r) /\ MaxRetries = 0
  <2>1. /\ notified' = notified \cup {"list"}
        /\ ListHalfEnds(r, ips, TRUE, lastSynced)
        /\ task[r].local # NoIP /\ ~IsInSync(task[r].local, ips)
        /\ issue' = FALSE
        /\ UNCHANGED <<source, listed, list, strays, drifted>>
      BY <1>9 DEF ReadDiffers, GivesUp
  <2>2. /\ Touches(r) /\ Becomes(r) /\ ReportIsCoherent'
        /\ data' \in Report \cup {NoData}
        /\ outcome' \in {"none", "success", "failed", "auth"}
        /\ lastSynced' \in BOOLEAN
      BY <1>2, <1>6, <1>7, <2>1, ListHalfKeeps
  <2>3. WorldOK'
      BY <1>0, <2>1, <2>2 DEF WorldOK
  <2> QED BY <2>2, <2>3, OneRefreshStep
<1>10. CASE ReadDiffers(r) /\ MaxRetries # 0
  <2>1. /\ task' = [task EXCEPT ![r] =
             [pc |-> "replacing", local |-> task[r].local, seen |-> ips, attempt |-> 1,
              delay |-> InitialBackoff, failed |-> FALSE, reply |-> NoReply]]
        /\ task[r].local # NoIP /\ ~IsInSync(task[r].local, ips)
        /\ issue' = FALSE
        /\ UNCHANGED <<source, cloudflare, data, outcome, lastSynced, notified, drifted>>
      BY <1>10 DEF ReadDiffers
  <2> DEFINE u == task'[r]
  <2>2. u = [pc |-> "replacing", local |-> task[r].local, seen |-> ips, attempt |-> 1,
             delay |-> InitialBackoff, failed |-> FALSE, reply |-> NoReply]
      BY <2>1, Before
  <2>3. task[r].local \in Hosts
      BY <1>0, <2>1 DEF Task
  <2>4. u \in Task
      BY <1>6, <2>2, <2>3, BackoffAssumption, NoReplyType DEF Task, Requesting
  <2>5. bulk'[r] = "none" /\ NoReply.class # "ok"
      BY <1>2 DEF NoReply
  <2> HIDE DEF ips, u
  <2>6. Upheld(u, bulk'[r], lastSynced')
      BY <1>10, <2>1, <2>2, <2>3, <2>5, MaxRetriesAssumption, BackoffAssumption
         DEF Upheld, InLoop, Requesting
  <2>7. Touches(r)
      BY <2>1, Before DEF Touches
  <2>8. WorldOK' /\ ReportIsCoherent'
      BY <1>0, <2>1 DEF WorldOK, ReportIsCoherent
  <2> QED BY <2>4, <2>5, <2>6, <2>7, <2>8, OneRefreshStep DEF Becomes, BulkStates, u
<1> QED BY <1>3, <1>4, <1>5, <1>8, <1>9, <1>10

\* The replace was accepted, or the operation is not over: on to the next poll.
LEMMA PollNextKeeps ==
  ASSUME IInv, NEW r \in Refreshes, ReplaceReturns(r) \/ PollAgain(r)
  PROVE  IInv'
<1> DEFINE u == task'[r]
<1>1. /\ task' = [task EXCEPT ![r].pc = "polling", ![r].reply = NoReply]
      /\ task[r].pc \in {"replacing", "polling"}
      /\ task[r].reply.class = "ok"
      /\ UNCHANGED <<source, cloudflare, published, drifted>>
    BY DEF ReplaceReturns, PollAgain, GoesTo, Got
<1>2. u = [task[r] EXCEPT !.pc = "polling", !.reply = NoReply]
    BY <1>1, Before
<1>3. /\ task[r] \in Task /\ bulk[r] \in BulkStates
      /\ Upheld(task[r], bulk[r], lastSynced)
    BY Before
<1> HIDE DEF u
<1>4. u \in Task
    BY <1>2, <1>3, NoReplyType DEF Task, Requesting
<1>5. /\ u.pc = "polling" /\ u.local = task[r].local /\ u.seen = task[r].seen
      /\ u.attempt = task[r].attempt /\ u.delay = task[r].delay
    BY <1>2, <1>3 DEF Task
<1>6. UNCHANGED <<bulk, lastSynced>>
    BY <1>1 DEF cloudflare, published
<1>7. Upheld(u, bulk'[r], lastSynced')
    BY <1>1, <1>3, <1>5, <1>6 DEF Upheld, InLoop, Requesting
<1>8. Touches(r)
    BY <1>1, <1>6, Before DEF Touches
<1>9. WorldOK' /\ ReportIsCoherent'
    BY <1>1, Before DEF WorldOK, ReportIsCoherent, cloudflare, published
<1> QED BY <1>3, <1>4, <1>6, <1>7, <1>8, <1>9, OneRefreshStep DEF Becomes, u

LEMMA BackoffEndsKeeps ==
  ASSUME IInv, NEW r \in Refreshes, BackoffEnds(r)
  PROVE  IInv'
<1> DEFINE u == task'[r]
<1>1. /\ task[r] \in Task /\ bulk[r] \in BulkStates
      /\ Upheld(task[r], bulk[r], lastSynced) /\ task[r].pc = "backoff"
    BY Before DEF BackoffEnds
<1>2. u = [task[r] EXCEPT !.pc = "replacing", !.attempt = task[r].attempt + 1,
                          !.delay = Doubled(task[r].delay)]
    BY Before DEF BackoffEnds
<1>3. Doubled(task[r].delay) \in InitialBackoff..MaxBackoff
    BY <1>1, BackoffAssumption DEF Upheld, InLoop, Doubled
<1>4. task[r].attempt + 1 \in 1..MaxRetries
    BY <1>1, MaxRetriesAssumption DEF Upheld, InLoop
<1> HIDE DEF u
<1>5. u \in Task
  <2>1. Doubled(task[r].delay) \in Nat /\ task[r].attempt + 1 \in Nat
      BY <1>3, <1>4, BackoffAssumption, MaxRetriesAssumption
  <2> QED BY <1>1, <1>2, <2>1 DEF Task, Requesting
<1>6. /\ u.pc = "replacing" /\ u.local = task[r].local /\ u.seen = task[r].seen
      /\ u.attempt = task[r].attempt + 1 /\ u.delay = Doubled(task[r].delay)
      /\ u.reply = task[r].reply
    BY <1>1, <1>2 DEF Task
<1>7. UNCHANGED <<bulk, lastSynced>>
    BY DEF BackoffEnds, cloudflare, published
<1>8. Upheld(u, bulk'[r], lastSynced')
    BY <1>1, <1>3, <1>4, <1>6, <1>7 DEF Upheld, InLoop, Requesting, NoReply
<1>9. Touches(r)
    BY <1>7, Before DEF Touches, BackoffEnds
<1>10. WorldOK' /\ ReportIsCoherent'
    BY Before DEF BackoffEnds, WorldOK, ReportIsCoherent, cloudflare, published
<1> QED BY <1>1, <1>5, <1>7, <1>8, <1>9, <1>10, OneRefreshStep DEF Becomes, u

LEMMA LoopKeeps ==
  ASSUME IInv, NEW r \in Refreshes,
         \/ RequestBreaksAttempt(r) \/ PollCompleted(r) \/ PollFailed(r) \/ BulkTimesOut(r)
         \/ VerifyMatches(r) \/ VerifyDiffers(r)
  PROVE  IInv'
<1> USE DEF cloudflare, published
<1>0. /\ task[r] \in Task /\ Upheld(task[r], bulk[r], lastSynced) /\ WorldOK
      /\ ReportIsCoherent
    BY Before
<1>1. CASE RequestBreaksAttempt(r) \/ PollFailed(r) \/ BulkTimesOut(r) \/ VerifyDiffers(r)
    BY <1>1, AttemptFailsKeeps
       DEF RequestBreaksAttempt, PollFailed, BulkTimesOut, VerifyDiffers, Got
<1>2. CASE PollCompleted(r)
  <2>1. /\ bulk' = [s \in Refreshes |-> IF s = r THEN "none" ELSE bulk[s]]
        /\ strays' \subseteq Hosts
      BY <1>2, ReleaseDrops DEF PollCompleted
  <2>2. Touches(r) /\ Becomes(r)
      BY <1>2, <2>1, GoesOnKeeps DEF PollCompleted, Got, InLoop
  <2>3. WorldOK' /\ ReportIsCoherent'
      BY <1>0, <1>2, <2>1 DEF PollCompleted, WorldOK, ReportIsCoherent
  <2> QED BY <2>2, <2>3, OneRefreshStep
<1>3. CASE VerifyMatches(r)
  <2> DEFINE ips == task[r].reply.items
  <2>1. ips \in SUBSET Items
      BY <1>0 DEF Task, Reply
  <2>2. /\ Settles(r, ips, TRUE)
        /\ IsInSync(task[r].local, ips)
        /\ task[r].pc = "verifying"
        /\ UNCHANGED <<source, listed, list, bulk, strays, issue, drifted>>
      BY <1>3 DEF VerifyMatches, Got
  <2>3. bulk' = [s \in Refreshes |-> IF s = r THEN "none" ELSE bulk[s]]
      BY <2>2, NothingToDrop
  <2> HIDE DEF ips
  <2> QED BY <1>0, <2>1, <2>2, <2>3, SettleKeeps DEF WorldOK
<1> QED BY <1>1, <1>2, <1>3

\* The token is rejected, wherever the refresh is.
LEMMA TokenRejectedKeeps ==
  ASSUME IInv, NEW r \in Refreshes, TokenRejected(r)
  PROVE  IInv'
BY Before, ReleaseDrops, RaiseKeeps DEF TokenRejected, WorldOK

LEMMA DnsKeeps ==
  ASSUME IInv, NEW r \in Refreshes, DnsReturns(r)
  PROVE  IInv'
<1>0. /\ task[r] \in Task /\ Upheld(task[r], bulk[r], lastSynced) /\ WorldOK
    BY Before
<1>1. PICK ok \in BOOLEAN :
        /\ notified' = IF ok THEN notified \ {"dns"} ELSE notified \cup {"dns"}
        /\ Publishes(r, task[r].seen, task[r].failed, lastSynced, IF ok THEN "yes" ELSE "no")
    BY DEF DnsReturns
<1>2. /\ task[r].pc = "dns"
      /\ UNCHANGED <<source, cloudflare, lastSynced, issue, drifted>>
    BY DEF DnsReturns
<1>3. /\ DnsEnabled /\ task[r].local \in Hosts /\ task[r].local # NoIP
      /\ task[r].failed = ~IsInSync(task[r].local, task[r].seen)
      /\ ~task[r].failed => lastSynced
    BY <1>0, <1>2, DomainAssumption DEF Upheld
<1>4. /\ task[r].seen \in SUBSET Items /\ task[r].failed \in BOOLEAN /\ lastSynced \in BOOLEAN
      /\ IsInSync(task[r].local, task[r].seen) \in BOOLEAN
    BY <1>0 DEF Task, WorldOK, IsInSync
<1>5. data' \in Report /\ outcome' = "success" /\ ReportIsCoherent'
    BY <1>1, <1>3, <1>4, PublishesCoherently
<1>6. UNCHANGED bulk
    BY <1>2 DEF cloudflare
<1>7. bulk' = [s \in Refreshes |-> IF s = r THEN "none" ELSE bulk[s]]
    BY <1>2, <1>6, NothingToDrop
<1>8. Touches(r) /\ Becomes(r)
    BY <1>1, <1>2, <1>7, IdleKeeps DEF Publishes
<1>9. WorldOK'
    BY <1>0, <1>1, <1>2, <1>5 DEF WorldOK, cloudflare
<1> QED BY <1>5, <1>8, <1>9, OneRefreshStep

--------------------------------------------------------------------------------
\* The theorems.

LEMMA InitInvariant == Init => IInv
<1> SUFFICES ASSUME Init PROVE IInv
    OBVIOUS
<1>1. WorldOK
    BY DomainAssumption DEF Init, WorldOK
<1>2. task \in [Refreshes -> Task] /\ bulk \in [Refreshes -> BulkStates]
    BY IdleUpheld DEF Init, BulkStates
<1>3. RefreshesUpheld
    BY IdleUpheld DEF Init, RefreshesUpheld
<1>4. ReportIsCoherent
    BY DEF Init, ReportIsCoherent
<1> QED BY <1>1, <1>2, <1>3, <1>4, TypeParts DEF IInv

LEMMA NextInvariant == IInv /\ [Next]_vars => IInv'
<1> SUFFICES ASSUME IInv, [Next]_vars PROVE IInv'
    OBVIOUS
<1>1. CASE Environment
    BY <1>1, EnvironmentKeeps
<1>2. CASE Apply
    BY <1>2, ApplyKeeps
<1>3. ASSUME NEW r \in Refreshes,
             Begin(r) \/ Answer(r) \/ Fault(r) \/ Resume(r) \/ BulkTimesOut(r)
      PROVE  IInv'
    BY <1>3, BeginKeeps, AnswerStepKeeps, ReadKeeps, PollNextKeeps, BackoffEndsKeeps,
       LoopKeeps, TokenRejectedKeeps, DnsKeeps DEF Resume
<1>4. CASE UNCHANGED vars
    BY <1>4, WorldStep, TypeParts DEF IInv, vars, cloudflare, published, WorldOK
<1> QED BY <1>1, <1>2, <1>3, <1>4 DEF Next

LEMMA Invariance == Spec => []IInv
BY InitInvariant, NextInvariant, PTL DEF Spec

\* Type correctness of refreshes, list, operations and report.
THEOREM TypeCorrect == Spec => []TypeOK
<1>1. IInv => TypeOK
    BY DEF IInv
<1> QED BY <1>1, Invariance, PTL

\* However many refreshes overlap and whatever fails, what _async_update_data
\* publishes hangs together: in_sync is what the published items say of the
\* published IP, last_error is there exactly when there was something to sync
\* and it is not, and the DNS verdict exactly when the DNS half ran.
THEOREM ReportCoherent == Spec => []ReportIsCoherent
<1>1. IInv => ReportIsCoherent
    BY DEF IInv
<1> QED BY <1>1, Invariance, PTL

\* At every await of every refresh: the list is only written by one that has a
\* usable IP and read a list that does not match it, in attempts counted from 1
\* to max_retries, polling exactly while it has an operation to poll for.
THEOREM RefreshesStayUpheld == Spec => []RefreshesUpheld
<1>1. IInv => RefreshesUpheld
    BY DEF IInv
<1> QED BY <1>1, Invariance, PTL

--------------------------------------------------------------------------------
\* The notification, without the DNS half.

NotificationInSync == ("list" \in notified) <=> (data # NoData /\ data.lastError)

\* Where the list half ends, notification and report change together.
LEMMA ListHalfNotifies ==
  ASSUME ~DnsEnabled, IInv, NEW r \in Refreshes, NEW ips \in SUBSET Items,
         NEW failed \in BOOLEAN, NEW synced \in BOOLEAN,
         ListHalfEnds(r, ips, failed, synced),
         failed <=> "list" \in notified'
  PROVE  NotificationInSync'
<1>1. data' = [localIp |-> task[r].local, cloudflareIps |-> ips,
               inSync |-> task[r].local # NoIP /\ ~failed,
               lastSynced |-> synced, lastError |-> failed, dnsInSync |-> "none"]
    BY DEF ListHalfEnds, Publishes
<1>2. task[r].local \in Hosts \cup {NoIP}
    BY Before DEF Task
<1>3. data' \in Report
    BY <1>1, <1>2 DEF Report
<1>4. data'.lastError = failed
    BY <1>1
<1>5. data' # NoData
    BY <1>3, NoDataAssumption
<1> QED BY <1>4, <1>5 DEF NotificationInSync

LEMMA NotificationStep ==
  ASSUME ~DnsEnabled, IInv, NotificationInSync, [Next]_vars
  PROVE  NotificationInSync'
<1> USE DEF published
<1>1. CASE UNCHANGED <<notified, data>>
    BY <1>1 DEF NotificationInSync
<1>2. ASSUME NEW r \in Refreshes, NEW ips \in SUBSET Items, NEW synced \in BOOLEAN,
             Settles(r, ips, synced)
      PROVE  NotificationInSync'
    BY <1>2, ListHalfNotifies DEF Settles
<1>3. ASSUME NEW r \in Refreshes, NEW ips \in SUBSET Items, GivesUp(r, ips)
      PROVE  NotificationInSync'
  <2>1. lastSynced \in BOOLEAN
      BY DEF IInv, TypeOK
  <2> QED BY <1>3, <2>1, ListHalfNotifies DEF GivesUp
<1>4. ASSUME NEW r \in Refreshes
      PROVE  /\ task[r].reply.items \in SUBSET Items
             /\ task[r].seen \in SUBSET Items
             /\ lastSynced \in BOOLEAN
             /\ IsInSync(task[r].local, task[r].reply.items) \in BOOLEAN
             /\ task[r].pc # "dns"
    BY <1>4, Before DEF Task, Reply, WorldOK, IsInSync, Upheld
<1>5. ASSUME NEW r \in Refreshes, AttemptFails(r)
      PROVE  NotificationInSync'
    BY <1>1, <1>3, <1>4, <1>5 DEF AttemptFails
<1>6. ASSUME NEW r \in Refreshes, ReadSettles(r) \/ VerifyMatches(r)
      PROVE  NotificationInSync'
  <2>1. CASE ReadSettles(r)
      BY <1>2, <1>4, <2>1 DEF ReadSettles
  <2>2. CASE VerifyMatches(r)
      BY <1>2, <1>4, <2>2 DEF VerifyMatches
  <2> QED BY <1>6, <2>1, <2>2
<1>7. ASSUME NEW r \in Refreshes, ReadDiffers(r)
      PROVE  NotificationInSync'
    BY <1>1, <1>3, <1>4, <1>7 DEF ReadDiffers
<1>8. ASSUME NEW r \in Refreshes,
             \/ Begin(r) \/ Answer(r) \/ Fault(r)
             \/ TokenRejected(r) \/ ReadBroken(r) \/ ReadRejected(r) \/ CheckReturns(r)
             \/ ReplaceReturns(r) \/ PollAgain(r) \/ PollCompleted(r) \/ BackoffEnds(r)
      PROVE  UNCHANGED <<notified, data>>
    BY <1>8 DEF Begin, Answer, Fault, AnswerItems, AnswerNoSuchList, AnswerLists,
       AnswerReplace, AnswerPoll, RequestFails, ReplaceAnswerLost, TokenRejected, ReadBroken,
       ReadRejected, CheckReturns, Raises, ReplaceReturns, PollAgain, PollCompleted, BackoffEnds
<1>9. CASE Environment \/ Apply \/ UNCHANGED vars
    BY <1>1, <1>9 DEF Environment, SourceChanges, ListEdited, ListDeleted, ListRestored,
       Apply, BulkCompletes, BulkFails, StrayCompletes, StrayApplied, StrayFails, vars
<1>10. ASSUME NEW r \in Refreshes,
              Begin(r) \/ Answer(r) \/ Fault(r) \/ Resume(r) \/ BulkTimesOut(r)
       PROVE  NotificationInSync'
    BY <1>1, <1>4, <1>5, <1>6, <1>7, <1>8, <1>10
       DEF Resume, DnsReturns, RequestBreaksAttempt, PollFailed, VerifyDiffers, BulkTimesOut
<1> QED BY <1>9, <1>10 DEF Next

\* Without the DNS half, and however many refreshes overlap, the notification is
\* up exactly while the published state carries an error
\* (_async_notify_sync_failure and _async_clear_sync_failure against last_error).
THEOREM NotificationMatches ==
  ASSUME ~DnsEnabled
  PROVE  Spec => []NotificationMatchesReport
<1>1. Init => NotificationInSync
    BY DEF Init, NotificationInSync
<1>2. IInv /\ NotificationInSync /\ [Next]_vars => NotificationInSync'
    BY NotificationStep
<1>3. NotificationInSync => NotificationMatchesReport
    BY DEF NotificationInSync, NotificationMatchesReport
<1> QED BY <1>1, <1>2, <1>3, Invariance, PTL DEF Spec

--------------------------------------------------------------------------------
\* The retry loop.

\* What the retry loop of refresh r looks like after a step that only r took.
Follows == [Loops!Next]_(Loops!vars)

Alone(r) == \A s \in Refreshes \ {r} : task'[s] = task[s]

LEMMA LoopUntouched ==
  ASSUME \A r \in Refreshes : /\ Phase(r)' = Phase(r)
                              /\ task'[r].attempt = task[r].attempt
                              /\ task'[r].delay = task[r].delay
  PROVE  Follows
BY DEF Follows, Loops!vars

LEMMA LoopStutters ==
  ASSUME NEW r \in Refreshes, Alone(r), Phase(r)' = Phase(r),
         task'[r].attempt = task[r].attempt, task'[r].delay = task[r].delay
  PROVE  Follows
BY LoopUntouched DEF Alone, Phase

LEMMA LoopEnters ==
  ASSUME NEW r \in Refreshes, Alone(r), MaxRetries > 0,
         Phase(r) = "outside", Phase(r)' = "trying",
         task'[r].attempt = 1, task'[r].delay = InitialBackoff
  PROVE  Follows
<1>1. Loops!Enter(r)
    BY DEF Alone, Phase, Loops!Enter
<1> QED BY <1>1 DEF Follows, Loops!Next

LEMMA LoopSleeps ==
  ASSUME NEW r \in Refreshes, Alone(r),
         Phase(r) = "trying", Phase(r)' = "sleeping", task[r].attempt < MaxRetries,
         task'[r].attempt = task[r].attempt, task'[r].delay = task[r].delay
  PROVE  Follows
<1>1. Loops!Sleep(r)
    BY DEF Alone, Phase, Loops!Sleep
<1> QED BY <1>1 DEF Follows, Loops!Next

LEMMA LoopWakes ==
  ASSUME NEW r \in Refreshes, Alone(r),
         Phase(r) = "sleeping", Phase(r)' = "trying",
         task'[r].attempt = task[r].attempt + 1, task'[r].delay = Doubled(task[r].delay)
  PROVE  Follows
<1>1. Loops!Wake(r)
    BY DEF Alone, Phase, Loops!Wake, Doubled, Loops!Doubled
<1> QED BY <1>1 DEF Follows, Loops!Next

LEMMA LoopLeaves ==
  ASSUME NEW r \in Refreshes, Alone(r),
         Phase(r) = "trying", Phase(r)' = "outside",
         task'[r].attempt = 0, task'[r].delay = 0
  PROVE  Follows
<1>1. Loops!Leave(r)
    BY DEF Alone, Phase, Loops!Leave
<1> QED BY <1>1 DEF Follows, Loops!Next

LEMMA InitFollows == Init => Loops!Init
BY DEF Init, Loops!Init, Phase, IdleTask

\* A refresh that ends its list half is out of its loop.
LEMMA EndsLoop ==
  ASSUME IInv, NEW r \in Refreshes, Alone(r), Phase(r) # "sleeping",
         task'[r].pc \in {"idle", "dns"}, task'[r].attempt = 0, task'[r].delay = 0
  PROVE  Follows
<1>1. Phase(r)' = "outside"
    BY DEF Phase
<1>2. CASE Phase(r) = "trying"
    BY <1>1, <1>2, LoopLeaves
<1>3. CASE Phase(r) # "trying"
  <2>1. Phase(r) = "outside" /\ task[r].pc \notin InLoop
      BY <1>3 DEF Phase, InLoop
  <2>2. task[r].attempt = 0 /\ task[r].delay = 0
      BY <2>1, Before DEF Upheld
  <2> QED BY <1>1, <2>1, <2>2, LoopStutters
<1> QED BY <1>2, <1>3

LEMMA IdleFollows ==
  ASSUME IInv, NEW r \in Refreshes, task[r].pc # "backoff",
         task' = [task EXCEPT ![r] = IdleTask]
  PROVE  Follows
<1>1. Alone(r) /\ task'[r] = IdleTask
    BY Before DEF Alone
<1>2. Phase(r) # "sleeping"
    BY DEF Phase
<1> QED BY <1>1, <1>2, EndsLoop DEF IdleTask

LEMMA ListHalfFollows ==
  ASSUME IInv, NEW r \in Refreshes, task[r].pc # "backoff",
         NEW ips, NEW failed, NEW synced, ListHalfEnds(r, ips, failed, synced)
  PROVE  Follows
<1>1. CASE DnsEnabled /\ task[r].local # NoIP
  <2>1. Alone(r) /\ task'[r] =
          [pc |-> "dns", local |-> task[r].local, seen |-> ips, attempt |-> 0,
           delay |-> 0, failed |-> failed, reply |-> NoReply]
      BY <1>1, Before DEF Alone, ListHalfEnds
  <2>2. Phase(r) # "sleeping"
      BY DEF Phase
  <2> QED BY <2>1, <2>2, EndsLoop
<1>2. CASE ~(DnsEnabled /\ task[r].local # NoIP)
    BY <1>2, IdleFollows DEF ListHalfEnds, Publishes
<1> QED BY <1>1, <1>2

LEMMA GoesToFollows ==
  ASSUME IInv, NEW r \in Refreshes, NEW pc \in {"checking", "polling", "verifying", "backoff"},
         GoesTo(r, pc), task[r].pc \in {"reading", "replacing", "polling", "verifying"},
         pc = "checking" <=> task[r].pc = "reading",
         pc = "backoff" => task[r].attempt < MaxRetries
  PROVE  Follows
<1>1. /\ Alone(r)
      /\ task'[r].pc = pc /\ task'[r].attempt = task[r].attempt /\ task'[r].delay = task[r].delay
    BY Before DEF Alone, GoesTo, Task
<1>2. CASE pc = "backoff"
    BY <1>1, <1>2, LoopSleeps DEF Phase
<1>3. CASE pc # "backoff"
    BY <1>1, <1>3, LoopStutters DEF Phase
<1> QED BY <1>2, <1>3

LEMMA AttemptFailsFollows ==
  ASSUME IInv, NEW r \in Refreshes, AttemptFails(r),
         task[r].pc \in {"replacing", "polling", "verifying"}
  PROVE  Follows
<1>1. CASE task[r].attempt < MaxRetries
    BY <1>1, GoesToFollows DEF AttemptFails
<1>2. CASE ~(task[r].attempt < MaxRetries)
    BY <1>2, ListHalfFollows DEF AttemptFails, GivesUp
<1> QED BY <1>1, <1>2

LEMMA AnswerFollows ==
  ASSUME IInv, NEW r \in Refreshes, NEW reply,
         task' = [task EXCEPT ![r].reply = reply]
  PROVE  Follows
<1>1. /\ Alone(r) /\ task'[r].pc = task[r].pc
      /\ task'[r].attempt = task[r].attempt /\ task'[r].delay = task[r].delay
    BY Before DEF Alone, Task
<1> QED BY <1>1, LoopStutters DEF Phase

LEMMA BeginFollows ==
  ASSUME IInv, NEW r \in Refreshes, Begin(r)
  PROVE  Follows
<1>1. /\ Alone(r) /\ task'[r].pc = "reading" /\ task[r].pc = "idle"
      /\ task'[r].attempt = task[r].attempt /\ task'[r].delay = task[r].delay
    BY Before DEF Alone, Task, Begin
<1> QED BY <1>1, LoopStutters DEF Phase

LEMMA ReadDiffersFollows ==
  ASSUME IInv, NEW r \in Refreshes, ReadDiffers(r)
  PROVE  Follows
<1>1. task[r].pc = "reading"
    BY DEF ReadDiffers, Got
<1>2. CASE MaxRetries = 0
    BY <1>1, <1>2, ListHalfFollows DEF ReadDiffers, GivesUp
<1>3. CASE MaxRetries # 0
  <2>1. /\ Alone(r) /\ task'[r].pc = "replacing"
        /\ task'[r].attempt = 1 /\ task'[r].delay = InitialBackoff
      BY <1>3, Before DEF Alone, ReadDiffers
  <2>2. MaxRetries > 0
      BY <1>3, MaxRetriesAssumption
  <2> QED BY <1>1, <2>1, <2>2, LoopEnters DEF Phase
<1> QED BY <1>2, <1>3

LEMMA BackoffEndsFollows ==
  ASSUME IInv, NEW r \in Refreshes, BackoffEnds(r)
  PROVE  Follows
<1>1. /\ Alone(r) /\ task'[r].pc = "replacing" /\ task[r].pc = "backoff"
      /\ task'[r].attempt = task[r].attempt + 1 /\ task'[r].delay = Doubled(task[r].delay)
    BY Before DEF Alone, Task, BackoffEnds
<1> QED BY <1>1, LoopWakes DEF Phase

LEMMA NextFollows == IInv /\ [Next]_vars => Follows
<1> SUFFICES ASSUME IInv, [Next]_vars PROVE Follows
    OBVIOUS
<1>1. CASE Environment \/ Apply \/ UNCHANGED vars
  <2>1. UNCHANGED task
      BY <1>1 DEF Environment, SourceChanges, ListEdited, ListDeleted, ListRestored,
         Apply, BulkCompletes, BulkFails, StrayCompletes, StrayApplied, StrayFails, vars
  <2> QED BY <2>1, LoopUntouched DEF Phase
<1>2. ASSUME NEW r \in Refreshes, Answer(r) \/ Fault(r)
      PROVE  Follows
    BY <1>2, AnswerFollows DEF Answer, Fault, Answered, AnswerItems, AnswerNoSuchList,
       AnswerLists, AnswerReplace, AnswerPoll, RequestFails, ReplaceAnswerLost
<1>3. ASSUME NEW r \in Refreshes,
             \/ TokenRejected(r) \/ ReadBroken(r) \/ CheckReturns(r) \/ DnsReturns(r)
      PROVE  Follows
    BY <1>3, IdleFollows DEF TokenRejected, ReadBroken, CheckReturns, DnsReturns, Got, Raises,
       Publishes
<1>4. ASSUME NEW r \in Refreshes, ReadSettles(r) \/ VerifyMatches(r)
      PROVE  Follows
    BY <1>4, ListHalfFollows DEF ReadSettles, VerifyMatches, Settles, Got
<1>5. ASSUME NEW r \in Refreshes,
             ReadRejected(r) \/ ReplaceReturns(r) \/ PollAgain(r) \/ PollCompleted(r)
      PROVE  Follows
    BY <1>5, GoesToFollows DEF ReadRejected, ReplaceReturns, PollAgain, PollCompleted, Got
<1>6. ASSUME NEW r \in Refreshes,
             RequestBreaksAttempt(r) \/ PollFailed(r) \/ VerifyDiffers(r) \/ BulkTimesOut(r)
      PROVE  Follows
    BY <1>6, AttemptFailsFollows
       DEF RequestBreaksAttempt, PollFailed, VerifyDiffers, BulkTimesOut, Got
<1> QED BY <1>1, <1>2, <1>3, <1>4, <1>5, <1>6, BeginFollows, ReadDiffersFollows,
       BackoffEndsFollows DEF Next, Resume

\* Every refresh keeps the promise of the retry loop: never more than max_retries
\* attempts, a sleep after every failed one but the last, and backoffs that
\* double up to SYNC_MAX_BACKOFF (_async_sync_with_retry).
THEOREM RetriesScheduled == Spec => RetriesFollowSchedule
BY InitFollows, NextFollows, Invariance, InitInvariant, PTL
   DEF Spec, Follows, RetriesFollowSchedule, Loops!Spec

================================================================================
