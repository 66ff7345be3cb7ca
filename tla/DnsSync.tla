--------------------------------- MODULE DnsSync ---------------------------------
(***************************************************************************)
(* _async_reconcile_dns and what it awaits: the lookup of the record, its  *)
(* creation or update, the check of Cloudflare's answer, and the retries   *)
(* with backoff.  It is the half of a refresh that RuleListSync abstracts. *)
(*                                                                         *)
(* Each await is cut as in RuleListSync: a request, its answer, and the    *)
(* step of the coroutine that consumes it.  The local IP is whatever the   *)
(* refresh read before its list half.                                      *)
(*                                                                         *)
(* Cloudflare's zone is modelled from how the client uses it: the records  *)
(* under the configured name.  A write is applied before it is answered,   *)
(* also when the answer is lost.                                           *)
(***************************************************************************)
EXTENDS Backoff

CONSTANTS
  Refreshes,    \* the runs of _async_update_data that may overlap
  Addresses,    \* the texts that are a valid IP address
  NoIP,         \* None: no usable local IP
  TypeFor,      \* the record type of an address
  Stored,       \* the text Cloudflare keeps for an address
  Ids,          \* bound: the records the zone has room for under the name
  NoId,         \* there is no such record
  NoRecord,
  Foreign,      \* what somebody else may leave in the zone
  Faults        \* how a request may fail for no reason in the model

ErrorClasses == {"auth", "api", "error"}
Types == {"A", "AAAA"}
Record == [type : Types, content : Addresses, proxied : BOOLEAN, shortLived : BOOLEAN]

ASSUME ZoneAssumption ==
  /\ TypeFor \in [Addresses -> Types]
  /\ Stored \in [Addresses -> Addresses]
  /\ \A ip \in Addresses : TypeFor[Stored[ip]] = TypeFor[ip]
  /\ NoIP \notin Addresses
  /\ NoId \notin Ids
  /\ NoRecord \notin Record
  /\ Foreign \subseteq Record
ASSUME FaultsAssumption == Faults \subseteq ErrorClasses

--------------------------------------------------------------------------------
\* Types.

Reply == [class : {"none", "ok"} \cup ErrorClasses, id : Ids \cup {NoId},
          record : Record \cup {NoRecord}]
NoReply == [class |-> "none", id |-> NoId, record |-> NoRecord]

Requesting == {"listing", "creating", "updating"}
Task == [pc : Requesting \cup {"idle", "backoff"},
         local : Addresses \cup {NoIP},
         id : Ids \cup {NoId},          \* records[0].id
         attempt : Nat,
         delay : Nat,
         reply : Reply]
IdleTask == [pc |-> "idle", local |-> NoIP, id |-> NoId, attempt |-> 0, delay |-> 0,
             reply |-> NoReply]

\* What _async_reconcile_dns returns, beside the IP it was called with.
Report == [local : Addresses \cup {NoIP}, recordIp : Addresses \cup {NoIP},
           inSync : {"none", "yes", "no"}]

VARIABLES
  zone,      \* per id, the record under the configured name
  task,      \* per refresh, the coroutine of its DNS half
  report,    \* the dns_* fields as last published
  notified,  \* the DNS notification is up
  drifted    \* history: somebody else edited the zone since the last Begin

vars == <<zone, task, report, notified, drifted>>

IdsOf(type) == {id \in Ids : zone[id] # NoRecord /\ zone[id].type = type}
Free == {id \in Ids : zone[id] = NoRecord}

Init ==
  /\ zone \in [Ids -> Foreign \cup {NoRecord}]
  /\ task = [r \in Refreshes |-> IdleTask]
  /\ report = [local |-> NoIP, recordIp |-> NoIP, inSync |-> "none"]
  /\ notified = FALSE
  /\ drifted = FALSE

--------------------------------------------------------------------------------
\* Somebody else edits, removes or adds a record.

ZoneEdited ==
  /\ \E id \in Ids, record \in Foreign \cup {NoRecord} :
       /\ record # zone[id]
       /\ zone' = [zone EXCEPT ![id] = record]
  /\ drifted' = TRUE
  /\ UNCHANGED <<task, report, notified>>

--------------------------------------------------------------------------------
\* Cloudflare answers.

Awaits(r, pc) == task[r].pc = pc /\ task[r].reply = NoReply

Answered(r, class, id, record) ==
  task' = [task EXCEPT ![r].reply = [class |-> class, id |-> id, record |-> record]]

Written(ip) ==
  [type |-> TypeFor[ip], content |-> Stored[ip], proxied |-> FALSE, shortLived |-> TRUE]

\* The records of the type, in an order of Cloudflare's own: any may be the first.
AnswerRecords(r) ==
  LET ids == IdsOf(TypeFor[task[r].local])
  IN  /\ Awaits(r, "listing")
      /\ \/ ids = {} /\ Answered(r, "ok", NoId, NoRecord)
         \/ \E id \in ids : Answered(r, "ok", id, zone[id])
      /\ UNCHANGED <<zone, report, notified, drifted>>

Creates(r, id) == zone' = [zone EXCEPT ![id] = Written(task[r].local)]

AnswerCreate(r) ==
  /\ Awaits(r, "creating")
  /\ \E id \in Free : Creates(r, id) /\ Answered(r, "ok", id, Written(task[r].local))
  /\ UNCHANGED <<report, notified, drifted>>

Updates(r) ==
  /\ zone[task[r].id] # NoRecord
  /\ zone' = [zone EXCEPT ![task[r].id] =
                [Written(task[r].local) EXCEPT !.type = zone[task[r].id].type]]

AnswerUpdate(r) ==
  /\ Awaits(r, "updating")
  /\ Updates(r)
  /\ Answered(r, "ok", task[r].id, zone'[task[r].id])
  /\ UNCHANGED <<report, notified, drifted>>

\* There is no room for the record, or no record to update any more.
AnswerRefused(r) ==
  /\ \/ Awaits(r, "creating") /\ Free = {}
     \/ Awaits(r, "updating") /\ zone[task[r].id] = NoRecord
  /\ Answered(r, "api", NoId, NoRecord)
  /\ UNCHANGED <<zone, report, notified, drifted>>

RequestFails(r) ==
  /\ \E pc \in Requesting : Awaits(r, pc)
  /\ \E class \in Faults : Answered(r, class, NoId, NoRecord)
  /\ UNCHANGED <<zone, report, notified, drifted>>

\* The write is applied and its answer lost.
WriteAnswerLost(r) ==
  /\ "error" \in Faults
  /\ \/ Awaits(r, "creating") /\ \E id \in Free : Creates(r, id)
     \/ Awaits(r, "updating") /\ Updates(r)
  /\ Answered(r, "error", NoId, NoRecord)
  /\ UNCHANGED <<report, notified, drifted>>

--------------------------------------------------------------------------------
\* How the DNS half goes on and ends.

GoesTo(r, pc, id) ==
  /\ task' = [task EXCEPT ![r].pc = pc, ![r].id = id, ![r].reply = NoReply]
  /\ UNCHANGED <<report, notified>>

Got(r, pc, class) == task[r].pc = pc /\ task[r].reply.class = class

Returns(r, local, ip, inSync) ==
  /\ task' = [task EXCEPT ![r] = IdleTask]
  /\ report' = [local |-> local, recordIp |-> ip, inSync |-> inSync]

\* The record that _async_upsert_dns_record returned.
Succeeds(r, record) ==
  /\ Returns(r, task[r].local, record.content, "yes")
  /\ notified' = FALSE

GivesUp(r, local) ==
  /\ Returns(r, local, NoIP, "no")
  /\ notified' = TRUE

\* The attempt raised CloudflareError or _SyncVerificationFailed.
AttemptFails(r) ==
  IF task[r].attempt < MaxRetries
    THEN GoesTo(r, "backoff", NoId)
    ELSE GivesUp(r, task[r].local)

\* Slip: it is not asked whether there is a local IP.
BeginUnchecked(r) ==
  /\ task[r].pc = "idle"
  /\ \E ip \in Addresses \cup {NoIP} :
       task' = [task EXCEPT ![r] =
         [pc |-> "listing", local |-> ip, id |-> NoId, attempt |-> 1,
          delay |-> InitialBackoff, reply |-> NoReply]]
  /\ drifted' = FALSE
  /\ UNCHANGED <<zone, report, notified>>

\* local_ip is passed in; without one there is nothing to do, and with
\* max_retries = 0 the loop ends before it begins.
Begin(r) ==
  /\ task[r].pc = "idle"
  /\ \E ip \in Addresses \cup {NoIP} :
       CASE ip = NoIP ->
              Returns(r, NoIP, NoIP, "none") /\ UNCHANGED notified
         [] ip # NoIP /\ MaxRetries = 0 ->
              GivesUp(r, ip)
         [] OTHER ->
              /\ task' = [task EXCEPT ![r] =
                   [pc |-> "listing", local |-> ip, id |-> NoId, attempt |-> 1,
                    delay |-> InitialBackoff, reply |-> NoReply]]
              /\ UNCHANGED <<report, notified>>
  /\ drifted' = FALSE
  /\ UNCHANGED zone

--------------------------------------------------------------------------------
\* _async_upsert_dns_record and the loop around it.

ListedNone(r) ==
  /\ Got(r, "listing", "ok")
  /\ task[r].reply.record = NoRecord
  /\ GoesTo(r, "creating", NoId)
  /\ UNCHANGED <<zone, drifted>>

NeedsUpdate(record, ip) == record.content # ip \/ record.proxied \/ ~record.shortLived

Verified(record, ip) == record.content = ip /\ ~record.proxied

ListedDiffers(r) ==
  LET record == task[r].reply.record
  IN  /\ Got(r, "listing", "ok")
      /\ record # NoRecord
      /\ NeedsUpdate(record, task[r].local)
      /\ GoesTo(r, "updating", task[r].reply.id)
      /\ UNCHANGED <<zone, drifted>>

\* Nothing to write: the record that was listed is checked like a written one.
ListedMatches(r) ==
  LET record == task[r].reply.record
  IN  /\ Got(r, "listing", "ok")
      /\ record # NoRecord
      /\ ~NeedsUpdate(record, task[r].local)
      /\ IF Verified(record, task[r].local) THEN Succeeds(r, record) ELSE AttemptFails(r)
      /\ UNCHANGED <<zone, drifted>>

\* Slip: a write that was answered is taken to have done what it said.
WriteTrusted(r) ==
  /\ \E pc \in {"creating", "updating"} : Got(r, pc, "ok")
  /\ Succeeds(r, [task[r].reply.record EXCEPT !.content = task[r].local])
  /\ UNCHANGED <<zone, drifted>>

WriteReturns(r) ==
  LET record == task[r].reply.record
  IN  /\ \E pc \in {"creating", "updating"} : Got(r, pc, "ok")
      /\ IF Verified(record, task[r].local) THEN Succeeds(r, record) ELSE AttemptFails(r)
      /\ UNCHANGED <<zone, drifted>>

RequestBreaksAttempt(r) ==
  /\ \E pc \in Requesting, class \in {"api", "error"} : Got(r, pc, class)
  /\ AttemptFails(r)
  /\ UNCHANGED <<zone, drifted>>

\* Slip: the exception goes through to Home Assistant, as in the list half.
TokenRaises(r) ==
  /\ \E pc \in Requesting : Got(r, pc, "auth")
  /\ task' = [task EXCEPT ![r] = IdleTask]
  /\ UNCHANGED <<zone, report, notified, drifted>>

\* Not retried, but reported like any other failure: no reauth flow is started.
TokenRejected(r) ==
  /\ \E pc \in Requesting : Got(r, pc, "auth")
  /\ GivesUp(r, task[r].local)
  /\ UNCHANGED <<zone, drifted>>

\* Slip: the next attempt writes at once.
BackoffEndsCreating(r) ==
  /\ task[r].pc = "backoff"
  /\ task' = [task EXCEPT ![r].pc = "creating", ![r].attempt = @ + 1, ![r].delay = Doubled(@)]
  /\ UNCHANGED <<zone, report, notified, drifted>>

\* Slip: the attempt is not counted.
BackoffForgets(r) ==
  /\ task[r].pc = "backoff"
  /\ task' = [task EXCEPT ![r].pc = "listing", ![r].delay = Doubled(@)]
  /\ UNCHANGED <<zone, report, notified, drifted>>

\* Slip: the sleep keeps growing.
BackoffUncapped(r) ==
  /\ task[r].pc = "backoff"
  /\ task' = [task EXCEPT ![r].pc = "listing", ![r].attempt = @ + 1, ![r].delay = 2 * @]
  /\ UNCHANGED <<zone, report, notified, drifted>>

BackoffEnds(r) ==
  /\ task[r].pc = "backoff"
  /\ task' = [task EXCEPT ![r].pc = "listing", ![r].attempt = @ + 1, ![r].delay = Doubled(@)]
  /\ UNCHANGED <<zone, report, notified, drifted>>

--------------------------------------------------------------------------------
Answer(r) == \/ AnswerRecords(r) \/ AnswerCreate(r) \/ AnswerUpdate(r) \/ AnswerRefused(r)
             \/ RequestFails(r) \/ WriteAnswerLost(r)

Resume(r) == \/ ListedNone(r) \/ ListedDiffers(r) \/ ListedMatches(r) \/ WriteReturns(r)
             \/ RequestBreaksAttempt(r) \/ TokenRejected(r) \/ BackoffEnds(r)

Next == ZoneEdited \/ \E r \in Refreshes : Begin(r) \/ Answer(r) \/ Resume(r)

Spec == Init /\ [][Next]_vars

\* As in RuleListSync: every request ends, and the event loop resumes the coroutine.
FairSpec == Spec /\ \A r \in Refreshes : WF_vars(Answer(r)) /\ WF_vars(Resume(r))

--------------------------------------------------------------------------------
\* Properties.

\* Types, and: whatever is written to the zone, it is an address.
TypeOK ==
  /\ zone \in [Ids -> Record \cup {NoRecord}]
  /\ task \in [Refreshes -> Task]
  /\ \A r \in Refreshes : task[r].pc # "idle" => task[r].local # NoIP
  /\ report \in Report
  /\ notified \in BOOLEAN
  /\ drifted \in BOOLEAN

\* What a published "in sync" is worth: when no refresh is under way and nobody
\* has edited the zone since the last one began, the name has an un-proxied
\* record of the right type with exactly the source IP.  (The check at the end
\* of _async_upsert_dns_record looks at answers; this looks at the zone.)
InSyncIsCurrent ==
  /\ \A r \in Refreshes : task[r].pc = "idle"
  /\ ~drifted
  /\ report.inSync = "yes"
  => \E id \in IdsOf(TypeFor[report.local]) : Verified(zone[id], report.local)

\* However its answers get lost and its attempts repeat, a refresh adds a record
\* only where there is none of the type: as long as nobody else edits the zone, a
\* create whose answer was lost is found again and not repeated.
CreatesOnlyIfNone ==
  [][~drifted' =>
       \A id \in Ids : zone[id] = NoRecord /\ zone'[id] # NoRecord
                        => IdsOf(zone'[id].type) = {}]_vars

\* The retry loop of the DNS half keeps the promise of RetryLoop too.
Phase(r) == IF task[r].pc \in Requesting THEN "trying"
            ELSE IF task[r].pc = "backoff" THEN "sleeping" ELSE "outside"

Loops == INSTANCE RetryLoop
  WITH Runs <- Refreshes,
       phase <- [r \in Refreshes |-> Phase(r)],
       attempt <- [r \in Refreshes |-> task[r].attempt],
       delay <- [r \in Refreshes |-> task[r].delay]

RetriesFollowSchedule == Loops!Spec

\* Seen from the update it is part of, the DNS half is what DnsOutcome says: it
\* never raises, ends in a verdict, and verdict and notification agree, also
\* when several refreshes are in their DNS half at once.
Outcome == INSTANCE DnsOutcome
  WITH active <- [r \in Refreshes |-> task[r].pc # "idle"], verdict <- report.inSync

ImplementsOutcome == Outcome!Spec

\* A DNS half that began ends.
DnsHalfEnds == \A r \in Refreshes : task[r].pc # "idle" ~> task[r].pc = "idle"

================================================================================
