------------------------------ MODULE RuleListSync ------------------------------
(***************************************************************************)
(* CloudflareIpSyncCoordinator._async_update_data and everything it awaits *)
(* for the Rule List: the read, the check whether the list still exists,   *)
(* the replace / poll / verify attempt, the retries with backoff, the      *)
(* notification, the Repair issue and the SyncState it publishes.          *)
(*                                                                         *)
(* A refresh is one run of that coroutine.  Home Assistant may have more   *)
(* than one under way (a debounced refresh and a scheduled one), so the    *)
(* refreshes are a set, and the coroutine is cut at every await: a request *)
(* is under way until Cloudflare answers it (the Answer... actions), and   *)
(* the answer waits until the event loop resumes the coroutine (the client *)
(* actions).  Between the two the list, the source and the other refreshes *)
(* go on.                                                                  *)
(*                                                                         *)
(* Cloudflare is modelled from how the client uses it.  A Rule List is a   *)
(* set of texts; a replace is accepted at once and applied later, or       *)
(* never, whether or not somebody still polls for it.                      *)
(*                                                                         *)
(* The optional DNS half is abstracted to its outcome (DnsReturns).        *)
(***************************************************************************)
EXTENDS Backoff

CONSTANTS
  Refreshes,       \* the runs of _async_update_data that may overlap
  Items,           \* the texts a Rule List may hold
  Hosts,           \* the texts that are a valid IP address
  Readings,        \* the states the source entity may show
  NoIP,            \* None: no usable local IP
  Network,         \* what ipaddress.ip_network(..., strict=False) makes of a text
  NoNetwork,       \* None: the text is not a network
  Contents,        \* what somebody else may leave in the list
  Faults,          \* how a request may fail for no reason in the model
  DnsEnabled,      \* a DNS record name and its zone are configured
  NoData           \* coordinator.data before the first successful refresh

ErrorClasses == {"auth", "api", "error"}

ASSUME DomainAssumption ==
  /\ Hosts \subseteq Items
  /\ NoIP \notin Items
  /\ Contents \subseteq SUBSET Items
  /\ DOMAIN Network = Items
  /\ \A h \in Hosts : Network[h] # NoNetwork
ASSUME FaultsAssumption == Faults \subseteq ErrorClasses /\ DnsEnabled \in BOOLEAN

--------------------------------------------------------------------------------
\* Types.

\* An answer: the exception class the client maps it to ("ok" if none), the
\* items it carries, and what else it says.
Says == {"nothing", "listed", "missing", "pending", "completed", "failed"}
Reply == [class : {"none", "ok"} \cup ErrorClasses, items : SUBSET Items, says : Says]
NoReply == [class |-> "none", items |-> {}, says |-> "nothing"]

\* Where a refresh is suspended: in a request, in a backoff sleep or in the
\* DNS half; and the locals of the coroutine that survive the awaits.
Requesting == {"reading", "checking", "replacing", "polling", "verifying"}
InLoop == {"replacing", "polling", "verifying", "backoff"}
Task == [pc : Requesting \cup {"idle", "backoff", "dns"},
         local : Hosts \cup {NoIP},    \* local_ip
         seen : SUBSET Items,          \* cloudflare_ips
         attempt : Nat,                \* the variables of _async_sync_with_retry
         delay : Nat,
         failed : BOOLEAN,             \* last_error is not None
         reply : Reply]
IdleTask == [pc |-> "idle", local |-> NoIP, seen |-> {}, attempt |-> 0, delay |-> 0,
             failed |-> FALSE, reply |-> NoReply]

\* SyncState; errors and times are kept as "there is one".
Report == [localIp : Hosts \cup {NoIP}, cloudflareIps : SUBSET Items, inSync : BOOLEAN,
           lastSynced : BOOLEAN, lastError : BOOLEAN,
           dnsInSync : {"none", "yes", "no"}]

ASSUME NoDataAssumption == NoData \notin Report

VARIABLES
  source,      \* the state of the source entity
  listed,      \* the Rule List exists
  list,        \* the texts it holds
  bulk,        \* per refresh, the bulk operation it polls for
  strays,      \* addresses of accepted operations nobody polls for any more
  task,        \* per refresh, its coroutine
  data,        \* coordinator.data
  outcome,     \* how the last refresh to end did
  lastSynced,  \* _last_synced is not None
  notified,    \* the persistent notifications that are up: "list", "dns"
  issue,       \* the Repair issue that the Rule List is missing is up
  drifted      \* history: source or list moved by itself since the last Begin

cloudflare == <<listed, list, bulk, strays>>
published == <<data, outcome, lastSynced, notified, issue>>
vars == <<source, cloudflare, task, published, drifted>>

--------------------------------------------------------------------------------
\* Pure helpers of the coordinator.

\* Slip: an unavailable or malformed state is taken for an address.
ReadSourceUnchecked == source

\* _read_source_ip: the state if it is a valid address, else None.
ReadSourceIp == IF source \in Hosts THEN source ELSE NoIP

\* _is_in_sync: the list names exactly the network of the local IP; texts that
\* are not a network are ignored.
Networks(items) == {Network[i] : i \in items} \ {NoNetwork}
IsInSync(ip, items) == ip # NoIP /\ Networks(items) = {Network[ip]}

Init ==
  /\ source \in Readings
  /\ listed = TRUE
  /\ list \in Contents
  /\ bulk = [r \in Refreshes |-> "none"]
  /\ strays = {}
  /\ task = [r \in Refreshes |-> IdleTask]
  /\ data = NoData
  /\ outcome = "none"
  /\ lastSynced = FALSE
  /\ notified = {}
  /\ issue = FALSE
  /\ drifted = FALSE

--------------------------------------------------------------------------------
\* The environment: the source entity, and other users of the list.

SourceChanges ==
  /\ source' \in Readings \ {source}
  /\ drifted' = TRUE
  /\ UNCHANGED <<cloudflare, task, published>>

ListEdited ==
  /\ listed
  /\ list' \in Contents \ {list}
  /\ drifted' = TRUE
  /\ UNCHANGED <<source, listed, bulk, strays, task, published>>

ListDeleted ==
  /\ listed
  /\ listed' = FALSE
  /\ list' = {}
  /\ drifted' = TRUE
  /\ UNCHANGED <<source, bulk, strays, task, published>>

\* The token regains access to the list, or the check was wrong to miss it.
ListRestored ==
  /\ ~listed
  /\ listed' = TRUE
  /\ list' \in Contents
  /\ drifted' = TRUE
  /\ UNCHANGED <<source, bulk, strays, task, published>>

--------------------------------------------------------------------------------
\* Cloudflare: it answers a request, and applies what it accepted.

Awaits(r, pcs) == task[r].pc \in pcs /\ task[r].reply = NoReply

Answered(r, class, items, says) ==
  task' = [task EXCEPT ![r].reply = [class |-> class, items |-> items, says |-> says]]

AnswerItems(r) ==
  /\ Awaits(r, {"reading", "verifying"})
  /\ listed
  /\ Answered(r, "ok", list, "nothing")
  /\ UNCHANGED <<source, cloudflare, published, drifted>>

\* Every request about a list that does not exist is an API error.
AnswerNoSuchList(r) ==
  /\ Awaits(r, {"reading", "replacing", "verifying"})
  /\ ~listed
  /\ Answered(r, "api", {}, "nothing")
  /\ UNCHANGED <<source, cloudflare, published, drifted>>

\* The lists of the account, which hold the configured one or not.
AnswerLists(r) ==
  /\ Awaits(r, {"checking"})
  /\ Answered(r, "ok", {}, IF listed THEN "listed" ELSE "missing")
  /\ UNCHANGED <<source, cloudflare, published, drifted>>

AnswerReplace(r) ==
  /\ Awaits(r, {"replacing"})
  /\ listed
  /\ Answered(r, "ok", {}, "nothing")
  /\ bulk' = [bulk EXCEPT ![r] = "pending"]
  /\ UNCHANGED <<source, listed, list, strays, published, drifted>>

AnswerPoll(r) ==
  /\ Awaits(r, {"polling"})
  /\ Answered(r, "ok", {}, bulk[r])
  /\ UNCHANGED <<source, cloudflare, published, drifted>>

\* A connection error, a rate limit, a rejected token, an error envelope...
RequestFails(r) ==
  /\ Awaits(r, Requesting)
  /\ \E class \in Faults : Answered(r, class, {}, "nothing")
  /\ UNCHANGED <<source, cloudflare, published, drifted>>

\* The replace is accepted and its answer lost: the operation id is unknown.
ReplaceAnswerLost(r) ==
  /\ Awaits(r, {"replacing"})
  /\ listed
  /\ "error" \in Faults
  /\ Answered(r, "error", {}, "nothing")
  /\ strays' = strays \cup {task[r].local}
  /\ UNCHANGED <<source, listed, list, bulk, published, drifted>>

\* Cloudflare may keep the address in another spelling of the same network.
Spellings(ip) == {i \in Items : Network[i] = Network[ip]}

BulkCompletes(r) ==
  /\ bulk[r] = "pending"
  /\ listed
  /\ \E i \in Spellings(task[r].local) : list' = {i}
  /\ bulk' = [bulk EXCEPT ![r] = "completed"]
  /\ UNCHANGED <<source, listed, strays, task, published, drifted>>

BulkFails(r) ==
  /\ bulk[r] = "pending"
  /\ bulk' = [bulk EXCEPT ![r] = "failed"]
  /\ UNCHANGED <<source, listed, list, strays, task, published, drifted>>

\* One operation less for the address, of which there may be others.
OneDone(ip) == strays' = strays \/ strays' = strays \ {ip}

StrayApplied(ip) ==
  /\ listed
  /\ OneDone(ip)
  /\ \E i \in Spellings(ip) : list' = {i}
  /\ drifted' = TRUE
  /\ UNCHANGED <<source, listed, bulk, task, published>>

StrayCompletes == \E ip \in strays : StrayApplied(ip)

\* (With others outstanding for the address this changes nothing.)
StrayFails ==
  /\ \E ip \in strays : strays' = strays \ {ip}
  /\ UNCHANGED <<source, listed, list, bulk, task, published, drifted>>

--------------------------------------------------------------------------------
\* How a refresh goes on and ends.

\* The coroutine consumes its answer and goes on to pc.
GoesTo(r, pc) == task' = [task EXCEPT ![r].pc = pc, ![r].reply = NoReply]

Got(r, pc, class) == task[r].pc = pc /\ task[r].reply.class = class

\* An exception leaves _async_update_data: nothing is published.
Raises(r, how) ==
  /\ task' = [task EXCEPT ![r] = IdleTask]
  /\ outcome' = how
  /\ UNCHANGED <<data, lastSynced>>

\* _async_update_data returns a SyncState and Home Assistant publishes it.
Publishes(r, ips, failed, synced, dns) ==
  /\ task' = [task EXCEPT ![r] = IdleTask]
  /\ outcome' = "success"
  /\ data' = [localIp |-> task[r].local, cloudflareIps |-> ips,
              inSync |-> task[r].local # NoIP /\ ~failed,
              lastSynced |-> synced, lastError |-> failed, dnsInSync |-> dns]

\* The list half is over; the DNS half follows when there is one to run.
ListHalfEnds(r, ips, failed, synced) ==
  /\ lastSynced' = synced
  /\ IF DnsEnabled /\ task[r].local # NoIP
       THEN /\ task' = [task EXCEPT ![r] =
                 [pc |-> "dns", local |-> task[r].local, seen |-> ips, attempt |-> 0,
                  delay |-> 0, failed |-> failed, reply |-> NoReply]]
            /\ UNCHANGED <<data, outcome>>
       ELSE Publishes(r, ips, failed, synced, "none")

\* Slip: the notification is left up.
SettlesSilently(r, ips, synced) ==
  /\ UNCHANGED notified
  /\ ListHalfEnds(r, ips, FALSE, synced)

\* _async_clear_sync_failure, and the refresh ends without an error.
Settles(r, ips, synced) ==
  /\ notified' = notified \ {"list"}
  /\ ListHalfEnds(r, ips, FALSE, synced)

\* The attempts are used up: _async_notify_sync_failure and last_error.
GivesUp(r, ips) ==
  /\ notified' = notified \cup {"list"}
  /\ ListHalfEnds(r, ips, TRUE, lastSynced)

\* The refresh stops polling for its operation.
Releases(r) ==
  /\ bulk' = [bulk EXCEPT ![r] = "none"]
  /\ strays' = IF bulk[r] = "pending" THEN strays \cup {task[r].local} ELSE strays

--------------------------------------------------------------------------------
\* _async_update_data up to the first decision.

Begin(r) ==
  /\ task[r].pc = "idle"
  /\ task' = [task EXCEPT ![r].pc = "reading", ![r].local = ReadSourceIp]
  /\ drifted' = FALSE
  /\ UNCHANGED <<source, cloudflare, published>>

\* CloudflareAuthError -> ConfigEntryAuthFailed, from the read or an attempt.
TokenRejected(r) ==
  /\ \E pc \in {"reading", "replacing", "polling", "verifying"} : Got(r, pc, "auth")
  /\ Raises(r, "auth")
  /\ Releases(r)
  /\ UNCHANGED <<source, listed, list, notified, issue, drifted>>

\* A transient failure of the read -> UpdateFailed; the issue stays as it is.
ReadBroken(r) ==
  /\ Got(r, "reading", "error")
  /\ Raises(r, "failed")
  /\ UNCHANGED <<source, cloudflare, notified, issue, drifted>>

ReadRejected(r) ==
  /\ Got(r, "reading", "api")
  /\ GoesTo(r, "checking")
  /\ UNCHANGED <<source, cloudflare, published, drifted>>

\* _async_is_rule_list_missing returns; a check that fails counts as "not missing".
CheckReturns(r) ==
  /\ task[r].pc = "checking"
  /\ task[r].reply # NoReply
  /\ issue' = (task[r].reply.says = "missing")
  /\ Raises(r, "failed")
  /\ UNCHANGED <<source, cloudflare, notified, drifted>>

\* In sync, or nothing to compare with.
ReadSettles(r) ==
  LET ips == task[r].reply.items
      inSync == IsInSync(task[r].local, ips)
  IN  /\ Got(r, "reading", "ok")
      /\ inSync \/ task[r].local = NoIP
      /\ issue' = FALSE
      /\ Settles(r, ips, lastSynced \/ inSync)
      /\ UNCHANGED <<source, cloudflare, drifted>>

\* Slip: the list is written whatever was read.
ReadAlwaysDiffers(r) ==
  /\ Got(r, "reading", "ok")
  /\ issue' = FALSE
  /\ task' = [task EXCEPT ![r].pc = "replacing", ![r].reply = NoReply,
                          ![r].seen = task[r].reply.items, ![r].attempt = 1,
                          ![r].delay = InitialBackoff]
  /\ UNCHANGED <<source, cloudflare, data, outcome, lastSynced, notified, drifted>>

\* Out of sync: the retry loop begins, or with max_retries = 0 ends at once.
ReadDiffers(r) ==
  LET ips == task[r].reply.items
  IN  /\ Got(r, "reading", "ok")
      /\ task[r].local # NoIP
      /\ ~IsInSync(task[r].local, ips)
      /\ issue' = FALSE
      /\ IF MaxRetries = 0
           THEN GivesUp(r, ips)
           ELSE /\ task' = [task EXCEPT ![r] =
                     [pc |-> "replacing", local |-> task[r].local, seen |-> ips, attempt |-> 1,
                      delay |-> InitialBackoff, failed |-> FALSE, reply |-> NoReply]]
                /\ UNCHANGED <<data, outcome, lastSynced, notified>>
      /\ UNCHANGED <<source, cloudflare, drifted>>

--------------------------------------------------------------------------------
\* _async_sync_with_retry: one attempt is replace, poll, verify.

\* Slip: one attempt too many.
AttemptFailsOnceMore(r) ==
  /\ Releases(r)
  /\ IF task[r].attempt <= MaxRetries
       THEN GoesTo(r, "backoff") /\ UNCHANGED <<data, outcome, lastSynced, notified>>
       ELSE GivesUp(r, task[r].seen)
  /\ UNCHANGED <<source, listed, list, issue, drifted>>

\* The attempt raised CloudflareError or _SyncVerificationFailed.
AttemptFails(r) ==
  /\ Releases(r)
  /\ IF task[r].attempt < MaxRetries
       THEN GoesTo(r, "backoff") /\ UNCHANGED <<data, outcome, lastSynced, notified>>
       ELSE GivesUp(r, task[r].seen)
  /\ UNCHANGED <<source, listed, list, issue, drifted>>

\* Slip: the accepted replace is trusted, neither polled for nor verified.
ReplaceTrusted(r) ==
  /\ Got(r, "replacing", "ok")
  /\ Settles(r, {task[r].local}, TRUE)
  /\ UNCHANGED <<source, cloudflare, issue, drifted>>

ReplaceReturns(r) ==
  /\ Got(r, "replacing", "ok")
  /\ GoesTo(r, "polling")
  /\ UNCHANGED <<source, cloudflare, published, drifted>>

RequestBreaksAttempt(r) ==
  /\ \E pc \in {"replacing", "polling", "verifying"}, class \in {"api", "error"} :
       Got(r, pc, class)
  /\ AttemptFails(r)

\* Any status but completed and failed: sleep BULK_OPERATION_POLL_INTERVAL, ask again.
PollAgain(r) ==
  /\ Got(r, "polling", "ok")
  /\ task[r].reply.says = "pending"
  /\ GoesTo(r, "polling")
  /\ UNCHANGED <<source, cloudflare, published, drifted>>

PollCompleted(r) ==
  /\ Got(r, "polling", "ok")
  /\ task[r].reply.says = "completed"
  /\ GoesTo(r, "verifying")
  /\ Releases(r)
  /\ UNCHANGED <<source, listed, list, published, drifted>>

PollFailed(r) ==
  /\ Got(r, "polling", "ok")
  /\ task[r].reply.says = "failed"
  /\ AttemptFails(r)

\* asyncio.timeout(BULK_OPERATION_TIMEOUT), in the poll request or its sleep.
BulkTimesOut(r) ==
  /\ task[r].pc = "polling"
  /\ AttemptFails(r)

\* Slip: cloudflare_ips keeps what was read before the write.
VerifyMatchesStale(r) ==
  /\ Got(r, "verifying", "ok")
  /\ IsInSync(task[r].local, task[r].reply.items)
  /\ Settles(r, task[r].seen, TRUE)
  /\ UNCHANGED <<source, cloudflare, issue, drifted>>

VerifyMatches(r) ==
  LET ips == task[r].reply.items
  IN  /\ Got(r, "verifying", "ok")
      /\ IsInSync(task[r].local, ips)
      /\ Settles(r, ips, TRUE)
      /\ UNCHANGED <<source, cloudflare, issue, drifted>>

VerifyDiffers(r) ==
  /\ Got(r, "verifying", "ok")
  /\ ~IsInSync(task[r].local, task[r].reply.items)
  /\ AttemptFails(r)

\* Slip: the attempt is not counted.
BackoffForgets(r) ==
  /\ task[r].pc = "backoff"
  /\ task' = [task EXCEPT ![r].pc = "replacing", ![r].delay = Doubled(@)]
  /\ UNCHANGED <<source, cloudflare, published, drifted>>

BackoffEnds(r) ==
  /\ task[r].pc = "backoff"
  /\ task' = [task EXCEPT ![r].pc = "replacing", ![r].attempt = @ + 1,
                          ![r].delay = Doubled(@)]
  /\ UNCHANGED <<source, cloudflare, published, drifted>>

\* _async_reconcile_dns, which never raises: it ends in sync or gives up.
DnsReturns(r) ==
  /\ task[r].pc = "dns"
  /\ \E ok \in BOOLEAN :
       /\ notified' = IF ok THEN notified \ {"dns"} ELSE notified \cup {"dns"}
       /\ Publishes(r, task[r].seen, task[r].failed, lastSynced,
                    IF ok THEN "yes" ELSE "no")
  /\ UNCHANGED <<source, cloudflare, lastSynced, issue, drifted>>

--------------------------------------------------------------------------------
Environment == SourceChanges \/ ListEdited \/ ListDeleted \/ ListRestored

Answer(r) == AnswerItems(r) \/ AnswerNoSuchList(r) \/ AnswerLists(r)
             \/ AnswerReplace(r) \/ AnswerPoll(r)

Fault(r) == RequestFails(r) \/ ReplaceAnswerLost(r)

Apply == \/ \E r \in Refreshes : BulkCompletes(r) \/ BulkFails(r)
         \/ StrayCompletes \/ StrayFails

\* The event loop resumes the coroutine, or its timeout fires.
Resume(r) ==
  \/ TokenRejected(r) \/ ReadBroken(r) \/ ReadRejected(r) \/ CheckReturns(r)
  \/ ReadSettles(r) \/ ReadDiffers(r)
  \/ ReplaceReturns(r) \/ RequestBreaksAttempt(r)
  \/ PollAgain(r) \/ PollCompleted(r) \/ PollFailed(r)
  \/ VerifyMatches(r) \/ VerifyDiffers(r) \/ BackoffEnds(r) \/ DnsReturns(r)

Next ==
  \/ Environment \/ Apply
  \/ \E r \in Refreshes :
       Begin(r) \/ Answer(r) \/ Fault(r) \/ Resume(r) \/ BulkTimesOut(r)

Spec == Init /\ [][Next]_vars

(***************************************************************************)
(* Every request ends (the client's own timeout turns silence into a       *)
(* failure), the event loop resumes whoever can run, and a poll loop that  *)
(* goes on is cut off by its timeout.  Nothing obliges Cloudflare to apply *)
(* an operation, or anybody to begin a refresh.                            *)
(***************************************************************************)
Fairness ==
  \A r \in Refreshes :
    /\ WF_vars(Answer(r) \/ Fault(r))
    /\ WF_vars(Resume(r))
    /\ WF_vars(BulkTimesOut(r))

FairSpec == Spec /\ Fairness

--------------------------------------------------------------------------------
\* Properties.

TypeOK ==
  /\ source \in Readings
  /\ listed \in BOOLEAN
  /\ list \subseteq Items
  /\ bulk \in [Refreshes -> {"none", "pending", "completed", "failed"}]
  /\ strays \subseteq Hosts
  /\ task \in [Refreshes -> Task]
  /\ data \in Report \cup {NoData}
  /\ outcome \in {"none", "success", "failed", "auth"}
  /\ lastSynced \in BOOLEAN
  /\ notified \subseteq {"list", "dns"}
  /\ issue \in BOOLEAN
  /\ drifted \in BOOLEAN

\* What is published hangs together, however refreshes overlap: in_sync says
\* exactly that the published items name the published local IP, an error is
\* published exactly when there was something to sync and it did not get done,
\* in sync implies a time of the last sync, and the DNS verdict is there
\* exactly when the DNS half ran.  (cloudflare_ips and in_sync are assigned at
\* four places around the awaits of _async_update_data.)
ReportIsCoherent ==
  data # NoData =>
    /\ data.inSync = IsInSync(data.localIp, data.cloudflareIps)
    /\ data.lastError = (data.localIp # NoIP /\ ~data.inSync)
    /\ data.inSync => data.lastSynced
    /\ (data.dnsInSync # "none") = (DnsEnabled /\ data.localIp # NoIP)

\* What holds of one refresh, its bulk operation and _last_synced at every await.
\* Own-the-list, but never needlessly: while a refresh replaces, polls, verifies
\* or sleeps, it has a usable local IP, the list it read did not match it, and
\* it is in one of its max_retries attempts.  It polls exactly while it has an
\* operation to poll for, and it carries a verdict into the DNS half that agrees
\* with the items it will publish.
Upheld(t, b, synced) ==
  /\ t.pc \in InLoop =>
       /\ t.local \in Hosts
       /\ ~IsInSync(t.local, t.seen)
       /\ t.attempt \in 1..MaxRetries
       /\ t.delay \in InitialBackoff..MaxBackoff
  /\ t.pc \notin InLoop => t.attempt = 0 /\ t.delay = 0
  /\ t.pc = "backoff" => t.attempt < MaxRetries
  /\ t.pc \notin Requesting => t.reply = NoReply
  /\ t.pc = "dns" =>
       /\ DnsEnabled
       /\ t.local \in Hosts
       /\ t.failed = ~IsInSync(t.local, t.seen)
       /\ ~t.failed => synced
  /\ (b # "none") = (t.pc = "polling" \/ (t.pc = "replacing" /\ t.reply.class = "ok"))

RefreshesUpheld == \A r \in Refreshes : Upheld(task[r], bulk[r], lastSynced)

\* Unless a refresh is between its list half and its report, the notification
\* that the list sync failed is up exactly when the published state carries an
\* error: nobody is left with a notification about a sync that was repaired,
\* nor with a published failure and no notification.
NotificationMatchesReport ==
  (\A r \in Refreshes : task[r].pc # "dns") =>
    (("list" \in notified) <=> (data # NoData /\ data.lastError))

\* The published "in sync" is true of the world: when no refresh is under way,
\* the last one published, and neither the source nor the list has moved since
\* the last one began, in_sync means that the list matches the source now.
InSyncIsCurrent ==
  /\ \A r \in Refreshes : task[r].pc = "idle"
  /\ outcome = "success"
  /\ ~drifted
  /\ data.inSync
  => IsInSync(ReadSourceIp, list)

\* README: "How many times to retry a failed sync ... before giving up": the
\* notification is only raised by a refresh that has made an attempt.
GiveUpOnlyAfterAttempt ==
  [][\A r \in Refreshes :
       "list" \notin notified /\ "list" \in notified' /\ task'[r] # task[r]
         => task[r].attempt > 0]_vars

\* README, of the Repair issue: "It clears automatically once the list is
\* reachable again".  The refresh that clears it has reached the list, or found
\* it among the lists of the account.
IssueClearsOnlyWhenReachable ==
  [][\A r \in Refreshes :
       issue /\ ~issue' /\ task'[r] # task[r] => task[r].reply.class = "ok"]_vars

\* Every refresh follows the promise of the retry loop: bounded attempts, a
\* sleep after every failed one but the last, exponential backoff with a cap.
Phase(r) == IF task[r].pc \in {"replacing", "polling", "verifying"} THEN "trying"
            ELSE IF task[r].pc = "backoff" THEN "sleeping" ELSE "outside"

Loops == INSTANCE RetryLoop
  WITH Runs <- Refreshes,
       phase <- [r \in Refreshes |-> Phase(r)],
       attempt <- [r \in Refreshes |-> task[r].attempt],
       delay <- [r \in Refreshes |-> task[r].delay]

RetriesFollowSchedule == Loops!Spec

\* A refresh that began ends, whatever Cloudflare does: the request timeouts,
\* the bulk-operation timeout and the bound on the attempts see to it.
RefreshEnds ==
  \A r \in Refreshes : task[r].pc # "idle" ~> task[r].pc = "idle"

================================================================================
