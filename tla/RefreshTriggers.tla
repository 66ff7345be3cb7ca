---------------------------- MODULE RefreshTriggers ----------------------------
(***************************************************************************)
(* When refreshes run: the first refresh of async_setup_entry, the listener *)
(* on the source entity and the force_sync service, which both ask the     *)
(* debouncer, and the reconcile interval.  The refreshes themselves are    *)
(* those of RuleListSync.                                                  *)
(*                                                                         *)
(* Debouncer and interval are Home Assistant's, modelled from how the      *)
(* coordinator configures and calls them: cooldown SYNC_DEBOUNCE_SECONDS,  *)
(* immediate=False, update_interval.  A request while the debouncer's lock *)
(* is held is dropped.  Whether an interval refresh takes that lock        *)
(* depends on the Home Assistant release, hence ScheduledLocks.            *)
(***************************************************************************)
EXTENDS RuleListSync

CONSTANTS
  Debounced,       \* the refresh the debouncer runs
  Scheduled,       \* the first refresh, and those of the interval: one at a time
  ScheduledLocks   \* an interval refresh holds the debouncer's lock

ASSUME RefreshesAssumption ==
  /\ Debounced # Scheduled
  /\ Refreshes = {Debounced, Scheduled}
  /\ ScheduledLocks \in BOOLEAN

VARIABLES
  loaded,     \* the first refresh succeeded and the listeners are registered
  timer,      \* the debouncer: no timer, a cooldown, or a call when it ends
  interval,   \* the interval timer is set
  unserved,   \* history: whether the source changed since a refresh last began,
              \* and if nobody heard it or it was dropped for the DNS half
  calm        \* history: from now on nothing interferes and nothing fails

triggers == <<loaded, timer, interval, unserved>>
allVars == <<vars, triggers, calm>>

Running(r) == task[r].pc # "idle"
AtRest == \A r \in Refreshes : ~Running(r)
\* Slip: only the debouncer's own calls hold its lock.
LockedByDebounced == loaded /\ Running(Debounced)
Locked == loaded /\ (Running(Debounced) \/ (ScheduledLocks /\ Running(Scheduled)))

TInit ==
  /\ Init
  /\ loaded = FALSE
  /\ timer = "off"
  /\ interval = FALSE
  /\ unserved = "nothing"
  /\ calm = FALSE

--------------------------------------------------------------------------------
\* Requests: async_request_refresh, that is Debouncer.async_call.

ListHalvesOver == \A r \in Refreshes : task[r].pc \in {"idle", "dns"}
Dropped == timer = "off" /\ Locked

\* Slip: the lock is not looked at.
RequestedAnyway == timer' = "armed"

\* With a timer running the call is made when it ends; while a call runs under
\* the lock the request is dropped; otherwise the timer is started for it.
Requested == timer' = IF Dropped THEN "off" ELSE "armed"

\* The listener exists only once the entry is loaded.
SourceEvent ==
  /\ ~calm
  /\ SourceChanges
  /\ IF loaded THEN Requested ELSE UNCHANGED timer
  /\ unserved' = CASE ~loaded -> "unheard"
                   [] loaded /\ Dropped /\ ListHalvesOver -> "dns"
                   [] OTHER -> "change"
  /\ UNCHANGED <<loaded, interval, calm>>

\* The service wants the entry to be loaded.
ForceSync ==
  /\ ~calm
  /\ loaded
  /\ Requested
  /\ UNCHANGED <<vars, loaded, interval, unserved, calm>>

--------------------------------------------------------------------------------
\* How refreshes begin: each one cancels the interval and the debouncer's timer.

Begins(r) ==
  /\ Begin(r)
  /\ timer' = "off"
  /\ interval' = FALSE
  /\ unserved' = "nothing"

\* async_config_entry_first_refresh; setup is retried while it fails, but not
\* when the token was rejected.
FirstRefresh ==
  /\ ~loaded
  /\ AtRest
  /\ outcome # "auth"
  /\ Begins(Scheduled)
  /\ UNCHANGED <<loaded, calm>>

CooldownEnds ==
  /\ timer = "cooldown"
  /\ timer' = "off"
  /\ UNCHANGED <<vars, loaded, interval, unserved, calm>>

DebounceEnds ==
  /\ timer = "armed"
  /\ ~Locked
  /\ Begins(Debounced)
  /\ UNCHANGED <<loaded, calm>>

\* Where it takes the lock, the lock is free: whoever holds it has cancelled the
\* interval, and only sets it again when it is done.
IntervalFires ==
  /\ interval
  /\ ~Running(Scheduled)
  /\ ScheduledLocks => ~Locked
  /\ Begins(Scheduled)
  /\ UNCHANGED <<loaded, calm>>

--------------------------------------------------------------------------------
\* How they end: the interval is set again, unless the token was rejected; the
\* debouncer cools down after a call of its own; the first success loads the
\* entry, and the sensor that subscribes sets the interval.

\* Slip: only a refresh that succeeded sets the interval again.
EndsSetIfOk(r) ==
  /\ loaded' = (loaded \/ outcome' = "success")
  /\ interval' = (interval \/ (loaded' /\ outcome' = "success"))
  /\ timer' = IF r = Debounced THEN "cooldown" ELSE timer
  /\ UNCHANGED unserved

Ends(r) ==
  /\ loaded' = (loaded \/ outcome' = "success")
  /\ interval' = (interval \/ (loaded' /\ outcome' # "auth"))
  /\ timer' = IF r = Debounced THEN "cooldown" ELSE timer
  /\ UNCHANGED unserved

Runs(r) ==
  /\ \/ Answer(r) \/ Resume(r)
     \/ ~calm /\ (Fault(r) \/ BulkTimesOut(r))
  /\ IF Running(r) /\ ~Running(r)' THEN Ends(r) ELSE UNCHANGED triggers
  /\ UNCHANGED calm

ListMoves ==
  /\ ~calm
  /\ ListEdited \/ ListDeleted \/ ListRestored
  /\ UNCHANGED <<triggers, calm>>

Applied ==
  /\ \/ \E r \in Refreshes : BulkCompletes(r) \/ (~calm /\ BulkFails(r))
     \/ StrayCompletes \/ StrayFails
  /\ UNCHANGED <<triggers, calm>>

CalmsDown ==
  /\ ~calm
  /\ calm' = TRUE
  /\ UNCHANGED <<vars, triggers>>

TNext ==
  \/ SourceEvent \/ ForceSync \/ ListMoves \/ Applied
  \/ FirstRefresh \/ CooldownEnds \/ DebounceEnds \/ IntervalFires
  \/ \E r \in Refreshes : Runs(r)

TSpec == TInit /\ [][TNext]_allVars

\* Timers fire, setup is retried, the event loop resumes what can run.  Once it
\* is calm, Cloudflare answers and applies what it accepted, down to the last.
TFairness ==
  /\ WF_allVars(FirstRefresh) /\ WF_allVars(CooldownEnds) /\ WF_allVars(DebounceEnds)
  /\ WF_allVars(IntervalFires)
  /\ WF_allVars(Applied) /\ WF_allVars(Applied /\ strays' # strays)
  /\ \A r \in Refreshes : WF_allVars(Runs(r))

TFairSpec == TInit /\ [][TNext \/ CalmsDown]_allVars /\ TFairness

--------------------------------------------------------------------------------
\* Properties.

\* Types, and: a timer of the debouncer never runs beside its call, and where
\* interval refreshes take the lock none is ever due while it is held.
TTypeOK ==
  /\ loaded \in BOOLEAN
  /\ timer \in {"off", "cooldown", "armed"}
  /\ interval \in BOOLEAN
  /\ unserved \in {"nothing", "change", "dns", "unheard"}
  /\ calm \in BOOLEAN
  /\ timer # "off" => ~Running(Debounced)
  /\ ScheduledLocks /\ interval => ~Locked

\* The safety net never tears: a loaded entry at rest always has its next
\* refresh ahead of it, unless the token was rejected.  (Every refresh cancels
\* the interval when it begins, and only the way it ends brings it back.)
SafetyNetHolds ==
  loaded /\ AtRest /\ outcome # "auth" => interval \/ timer = "armed"

\* Others edit the list, or an operation for a former address is applied after
\* its refresh stopped polling for it.
ListOverwritten ==
  \/ ListMoves
  \/ \E ip \in strays \ {ReadSourceIp} : StrayApplied(ip)

\* A list that is right stays right, where refreshes do not overlap because all of
\* them take the lock: if the source has not changed since the last refresh began,
\* no step turns a match into a mismatch but those in which others overwrite the
\* list.  Whatever they did to it before, the operation a refresh polls for, and
\* one for the same address that nobody polls for, do not.  (A refresh works with
\* the IP it read when it began.)
LockKeepsMatch ==
  [][ScheduledLocks /\ unserved' = "nothing" /\ ~ListOverwritten
       => (IsInSync(ReadSourceIp, list) => IsInSync(ReadSourceIp', list'))]_allVars

\* README: "syncs immediately (debounced) when the source IP entity changes".
\* When nothing runs and the debouncer has no call to make, the source has not
\* changed since the last refresh began, unless nobody was listening yet.
SourceChangeServed ==
  loaded /\ AtRest /\ timer # "armed" => unserved \in {"nothing", "unheard"}

\* The same of a change of the source while the entry is being set up.
StartupChangeServed ==
  loaded /\ AtRest /\ timer # "armed" => unserved # "unheard"

\* README: "DNS failures never block the Rule List sync".  No change of the source
\* is left behind because a refresh was busy with its DNS half when it came.
DnsNeverBlocksListSync ==
  loaded /\ AtRest /\ timer # "armed" => unserved # "dns"

\* Once nothing interferes and nothing fails any more, the list ends up
\* holding the source IP for good, and the report says so - unless the token
\* was rejected, there is no list, or there is no usable source IP.
Settled ==
  \/ outcome = "auth" \/ ~listed \/ ReadSourceIp = NoIP
  \/ /\ IsInSync(ReadSourceIp, list)
     /\ data # NoData /\ data.inSync /\ data.localIp = source

Converges == calm ~> []Settled

================================================================================
