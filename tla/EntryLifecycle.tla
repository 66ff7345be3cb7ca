----------------------------- MODULE EntryLifecycle -----------------------------
(***************************************************************************)
(* The life of a config entry: async_setup_entry with its first refresh,   *)
(* retried or not; the listeners; reload (service, options, reauth),       *)
(* removal and a restart of Home Assistant; and the coordinators it has    *)
(* one after the other.  Unloading does not wait for a refresh under way,  *)
(* so a coordinator may go on writing for an entry that has another one by *)
(* now, or that is gone.                                                   *)
(*                                                                         *)
(* A refresh is that of RuleListSync with one attempt, cut where the rest  *)
(* of the world can tell: the read, the accepted replace, the              *)
(* verification.  One coordinator runs one refresh at a time here; that    *)
(* two may overlap is the subject of RefreshTriggers.                      *)
(*                                                                         *)
(* Entry states, timers and unload callbacks are Home Assistant's,         *)
(* modelled from how __init__.py and the coordinator register them.  Setup,*)
(* reload and removal of an entry exclude one another (its setup lock).    *)
(***************************************************************************)

EXTENDS Naturals

CONSTANTS
  Coordinators,   \* coordinator objects that may be at work at once (a bound)
  NoCoordinator,  \* the entry has none
  Tokens,         \* API tokens
  Ips,            \* addresses: of the source, and in the list
  MaxEvents,      \* how often users and the world interfere (a bound)
  Nothing         \* no address, no token

ASSUME LifecycleAssumption ==
  /\ NoCoordinator \notin Coordinators
  /\ Nothing \notin Ips \cup Tokens
  /\ MaxEvents \in Nat

VARIABLES
  state,      \* of the entry
  current,    \* entry.runtime_data, or the coordinator of the setup under way
  token,      \* entry.data[CONF_API_TOKEN]
  built,      \* the token current was built with
  config,     \* history: whether the entry was updated since current was built,
              \* and if somebody was listening
  reload,     \* a reload waits for the setup lock
  reauth,     \* a reauth flow is open, and stays so until the user gives a token
  subscribed, \* the sensor listens to current
  interval,   \* current's interval timer is set
  asked,      \* current's debouncer has a call to make
  run,        \* per coordinator, its refresh
  shown,      \* the sync-status sensor
  notified,   \* the notification of this entry is up
  source,     \* the address the source shows
  list,       \* the address the Rule List holds
  accepted,   \* replaces Cloudflare has accepted and not applied
  valid,      \* tokens Cloudflare accepts
  events,     \* history: how often somebody interfered
  calm        \* history: from now on nothing interferes and nothing fails

entry == <<state, current, token, built, config, reload>>
timers == <<subscribed, interval, asked>>
world == <<source, list, accepted, valid>>
lvars == <<entry, reauth, timers, run, shown, notified, world, events, calm>>

States == {"absent", "not_loaded", "setup", "platforms", "loaded", "retry", "error"}
Refresh == [pc : {"idle", "reading", "writing", "polling"},
            ip : Ips \cup {Nothing}, token : Tokens \cup {Nothing}]
NoRefresh == [pc |-> "idle", ip |-> Nothing, token |-> Nothing]

Idle(c) == run[c] = NoRefresh
Quiet == \A c \in Coordinators : Idle(c)

LInit ==
  /\ state = "not_loaded"
  /\ current = NoCoordinator
  /\ token \in Tokens
  /\ built = Nothing
  /\ config = "fresh"
  /\ reload = FALSE
  /\ reauth = FALSE
  /\ subscribed = FALSE
  /\ interval = FALSE
  /\ asked = FALSE
  /\ run = [c \in Coordinators |-> NoRefresh]
  /\ shown = "none"
  /\ notified = FALSE
  /\ source \in Ips
  /\ list \in Ips
  /\ accepted = {}
  /\ valid = Tokens
  /\ events = 0
  /\ calm = FALSE

Interferes == ~calm /\ events < MaxEvents /\ events' = events + 1 /\ UNCHANGED calm

--------------------------------------------------------------------------------
\* Setup, unload, and what asks for them.

Begins(c, tok) == run' = [run EXCEPT ![c] = [pc |-> "reading", ip |-> source, token |-> tok]]

\* async_setup_entry, for the first time, after an unload or when its retry is due:
\* a new client and coordinator from entry.data and options, and its first refresh.
\* A reload that waits for the lock is served before the next retry.
SetupBegins ==
  /\ state \in {"not_loaded", "retry"}
  /\ state = "retry" => ~reload
  /\ \E c \in Coordinators :
       /\ Idle(c)
       /\ current' = c
       /\ Begins(c, token)
  /\ state' = "setup"
  /\ built' = token
  /\ config' = "fresh"
  /\ UNCHANGED <<token, reload, reauth, timers, shown, notified, world, events, calm>>

\* The platform is set up - the sensor subscribes, which sets the interval - and the
\* update listener is registered.
SetupFinishes ==
  /\ state = "platforms"
  /\ state' = "loaded"
  /\ subscribed' = TRUE
  /\ interval' = TRUE
  /\ UNCHANGED <<current, token, built, config, reload, reauth, asked, run, shown,
                 notified, world, events, calm>>

\* Slip: the interval timer is forgotten.
UnloadsButTimer ==
  /\ current' = NoCoordinator
  /\ built' = Nothing
  /\ subscribed' = FALSE
  /\ asked' = FALSE
  /\ shown' = "none"
  /\ UNCHANGED <<interval, run>>

\* Slip: nothing was handed to async_on_unload.
UnloadsNothing == UNCHANGED <<current, built, timers, shown, run>>

\* async_unload_entry and the callbacks of async_on_unload: listeners, timers and
\* sensor go.  Whether a refresh under way is cancelled depends on how it was
\* started; whatever it got accepted by Cloudflare stays accepted.
Unloads ==
  /\ current' = NoCoordinator
  /\ built' = Nothing
  /\ subscribed' = FALSE
  /\ interval' = FALSE
  /\ asked' = FALSE
  /\ shown' = "none"
  /\ run' \in {run, [c \in Coordinators |-> IF c = current THEN NoRefresh ELSE run[c]]}

SetupLocked == state \in {"setup", "platforms"}

Reloads ==
  /\ reload
  /\ state # "absent" /\ ~SetupLocked
  /\ Unloads
  /\ reload' = FALSE
  /\ state' = "not_loaded"
  /\ UNCHANGED <<token, config, reauth, notified, world, events, calm>>

Removed ==
  /\ Interferes
  /\ state # "absent" /\ ~SetupLocked
  /\ Unloads
  /\ reload' = FALSE
  /\ state' = "absent"
  /\ reauth' = FALSE
  /\ UNCHANGED <<token, config, notified, world>>

\* Home Assistant restarts, at any point: what is in memory is gone, with
\* coordinators, flows and notifications; the entry and the list remain.
Restarts ==
  /\ Interferes
  /\ state # "absent"
  /\ state' = "not_loaded"
  /\ current' = NoCoordinator
  /\ built' = Nothing
  /\ reload' = FALSE
  /\ reauth' = FALSE
  /\ subscribed' = FALSE
  /\ interval' = FALSE
  /\ asked' = FALSE
  /\ run' = [c \in Coordinators |-> NoRefresh]
  /\ shown' = "none"
  /\ notified' = FALSE
  /\ UNCHANGED <<token, config, world>>

\* The reload service wants a loaded entry, the user interface does not.
ReloadAsked ==
  /\ Interferes
  /\ state # "absent" /\ ~reload
  /\ reload' = TRUE
  /\ UNCHANGED <<state, current, token, built, config, reauth, timers, run, shown,
                 notified, world>>

--------------------------------------------------------------------------------
\* Updates of the entry.

\* Slip: nobody reloads when the options change.
UpdatedSilently ==
  /\ config' = "updated"
  /\ UNCHANGED reload

\* The update listener exists once the entry is loaded.  Without a coordinator there
\* is nothing to be out of date.
Updated ==
  /\ config' = CASE current = NoCoordinator -> config
                 [] state = "loaded" -> "updated"
                 [] OTHER -> "unheard"
  /\ reload' = (reload \/ state = "loaded")

\* The options flow stores options.
OptionsSaved ==
  /\ Interferes
  /\ state # "absent"
  /\ Updated
  /\ UNCHANGED <<state, current, token, built, reauth, timers, run, shown, notified,
                 world>>

\* async_step_reauth_confirm with a token Cloudflare accepts: the entry is updated
\* and reloaded, whoever listens.
ReauthConfirmed ==
  /\ ~calm
  /\ reauth
  /\ reauth' = FALSE
  /\ \E t \in valid : token' = t
  /\ config' = IF current = NoCoordinator THEN config ELSE "updated"
  /\ reload' = TRUE
  /\ UNCHANGED <<state, current, built, timers, run, shown, notified, world, events, calm>>

--------------------------------------------------------------------------------
\* Triggers: the listener lives from the end of the first refresh to the unload.  A
\* request while a refresh runs is dropped.

Requested == asked' = (asked \/ (state \in {"platforms", "loaded"} /\ Idle(current)))

SourceChanges ==
  /\ Interferes
  /\ source' \in Ips \ {source}
  /\ Requested
  /\ UNCHANGED <<entry, reauth, subscribed, interval, run, shown, notified, list, accepted, valid>>

\* The service refuses an entry that is not loaded.
ForceSync ==
  /\ ~calm
  /\ state = "loaded"
  /\ Requested
  /\ UNCHANGED <<entry, reauth, subscribed, interval, run, shown, notified, world, events,
                 calm>>

\* The debouncer's cooldown or the interval ends: a refresh, which cancels both.
TimerFires ==
  /\ asked \/ interval
  /\ current # NoCoordinator /\ Idle(current)
  /\ Begins(current, built)
  /\ asked' = FALSE
  /\ interval' = FALSE
  /\ UNCHANGED <<entry, reauth, subscribed, shown, notified, world, events, calm>>

--------------------------------------------------------------------------------
\* How a refresh ends: for the entry whose coordinator it belongs to, or for nobody.

AsksForToken == reauth' = (reauth \/ state # "absent")

\* Slip: a setup that failed is not retried, whatever the reason.
FirstEndsForGood(c, how, shows) ==
  /\ c = current /\ state = "setup"
  /\ state' = IF how = "success" THEN "platforms" ELSE "error"
  /\ IF how = "success"
       THEN shown' = shows /\ UNCHANGED <<current, built>>
       ELSE current' = NoCoordinator /\ built' = Nothing /\ UNCHANGED shown
  /\ UNCHANGED interval

\* The first refresh decides about the setup: on a failure it is retried later
\* (ConfigEntryNotReady), with a rejected token it is not.
FirstEnds(c, how, shows) ==
  /\ c = current /\ state = "setup"
  /\ state' = CASE how = "success" -> "platforms"
                [] how = "failed" -> "retry"
                [] how = "auth" -> "error"
  /\ IF how = "success"
       THEN shown' = shows /\ UNCHANGED <<current, built>>
       ELSE current' = NoCoordinator /\ built' = Nothing /\ UNCHANGED shown
  /\ UNCHANGED interval

\* Slip: only a refresh that left the list in sync sets the interval again.
LaterEndsContent(c, how, shows) ==
  /\ c = current /\ state # "setup"
  /\ shown' = shows
  /\ interval' = (interval \/ (subscribed /\ shows = "in_sync"))
  /\ UNCHANGED <<state, current, built>>

\* A later one publishes, and sets the interval again if somebody listens, unless the
\* token was rejected.
LaterEnds(c, how, shows) ==
  /\ c = current /\ state # "setup"
  /\ shown' = shows
  /\ interval' = (interval \/ (subscribed /\ how # "auth"))
  /\ UNCHANGED <<state, current, built>>

\* Nobody looks at the data of a coordinator that was unloaded.
OrphanEnds(c) ==
  /\ c # current
  /\ UNCHANGED <<state, current, built, shown, interval>>

Ends(c, how, shows) ==
  /\ run' = [run EXCEPT ![c] = NoRefresh]
  /\ FirstEnds(c, how, shows) \/ LaterEnds(c, how, shows) \/ OrphanEnds(c)
  /\ IF how = "auth" THEN AsksForToken ELSE UNCHANGED reauth
  /\ UNCHANGED <<token, config, reload, subscribed, asked>>

Rejected(c) ==
  /\ ~Idle(c)
  /\ run[c].token \notin valid
  /\ Ends(c, "auth", "unavailable")
  /\ UNCHANGED <<notified, world, events, calm>>

ReadFails(c) ==
  /\ ~calm
  /\ run[c].pc = "reading"
  /\ Ends(c, "failed", "unavailable")
  /\ UNCHANGED <<notified, world, events, calm>>

\* In sync at the read, or after the write: the notification is dismissed.
Matches(c) ==
  /\ run[c].pc \in {"reading", "polling"}
  /\ run[c].token \in valid
  /\ list = run[c].ip
  /\ notified' = FALSE
  /\ Ends(c, "success", "in_sync")
  /\ UNCHANGED <<world, events, calm>>

ReadDiffers(c) ==
  /\ run[c].pc = "reading"
  /\ run[c].token \in valid
  /\ list # run[c].ip
  /\ run' = [run EXCEPT ![c].pc = "writing"]
  /\ UNCHANGED <<entry, reauth, timers, shown, notified, world, events, calm>>

Replaces(c) ==
  /\ run[c].pc = "writing"
  /\ run[c].token \in valid
  /\ accepted' = accepted \cup {run[c].ip}
  /\ run' = [run EXCEPT ![c].pc = "polling"]
  /\ UNCHANGED <<entry, reauth, timers, shown, notified, source, list, valid, events, calm>>

\* Slip: no timeout around the poll loop.
PollsOn(c) ==
  /\ \/ ~calm /\ run[c].pc = "writing"
     \/ run[c].pc = "polling" /\ list # run[c].ip /\ run[c].ip \notin accepted
  /\ run[c].token \in valid
  /\ notified' = TRUE
  /\ Ends(c, "success", "out_of_sync")
  /\ UNCHANGED <<world, events, calm>>

\* The attempt failed: a request did, the operation took too long, or the list holds
\* something else.  In a calm world only the last, after somebody else's write.
GivesUp(c) ==
  /\ \/ ~calm /\ run[c].pc \in {"writing", "polling"}
     \/ run[c].pc = "polling" /\ list # run[c].ip /\ run[c].ip \notin accepted
  /\ run[c].token \in valid
  /\ notified' = TRUE
  /\ Ends(c, "success", "out_of_sync")
  /\ UNCHANGED <<world, events, calm>>

Runs(c) == Rejected(c) \/ ReadFails(c) \/ Matches(c) \/ ReadDiffers(c)
           \/ Replaces(c) \/ GivesUp(c)

--------------------------------------------------------------------------------
\* Cloudflare and its users.

Applied ==
  /\ \E ip \in accepted : list' = ip /\ accepted' = accepted \ {ip}
  /\ UNCHANGED <<entry, reauth, timers, run, shown, notified, source, valid, events, calm>>

NeverApplied ==
  /\ ~calm
  /\ \E ip \in accepted : accepted' = accepted \ {ip}
  /\ UNCHANGED <<entry, reauth, timers, run, shown, notified, source, list, valid, events, calm>>

ListEdited ==
  /\ Interferes
  /\ list' \in Ips \ {list}
  /\ UNCHANGED <<entry, reauth, timers, run, shown, notified, source, accepted, valid>>

TokenRevoked ==
  /\ Interferes
  /\ \E t \in valid : valid' = valid \ {t}
  /\ UNCHANGED <<entry, reauth, timers, run, shown, notified, source, list, accepted>>

CalmsDown ==
  /\ ~calm
  /\ calm' = TRUE
  /\ UNCHANGED <<entry, reauth, timers, run, shown, notified, world, events>>

LNext ==
  \/ SetupBegins \/ SetupFinishes \/ Reloads \/ Removed \/ Restarts \/ ReloadAsked
  \/ OptionsSaved \/ ReauthConfirmed
  \/ SourceChanges \/ ForceSync \/ TimerFires
  \/ \E c \in Coordinators : Runs(c)
  \/ Applied \/ NeverApplied \/ ListEdited \/ TokenRevoked \/ CalmsDown

LSpec == LInit /\ [][LNext]_lvars

\* Home Assistant sets up and reloads what waits for it, timers fire, every await of
\* a refresh ends; a calm Cloudflare applies what it accepted.
LFairness ==
  /\ WF_lvars(SetupBegins) /\ WF_lvars(SetupFinishes) /\ WF_lvars(Reloads)
  /\ WF_lvars(TimerFires)
  /\ WF_lvars(calm /\ Applied)
  /\ \A c \in Coordinators : WF_lvars(Runs(c))

LFairSpec == LSpec /\ LFairness

--------------------------------------------------------------------------------
\* Properties.

\* Types, and what goes together: a coordinator exists from the beginning of a setup
\* to its failure or the unload, timers belong to it, and while a setup is under way
\* so is its first refresh.
LTypeOK ==
  /\ state \in States
  /\ current \in Coordinators \cup {NoCoordinator}
  /\ token \in Tokens
  /\ built \in Tokens \cup {Nothing}
  /\ config \in {"fresh", "updated", "unheard"}
  /\ reload \in BOOLEAN /\ reauth \in BOOLEAN
  /\ subscribed \in BOOLEAN /\ interval \in BOOLEAN /\ asked \in BOOLEAN
  /\ run \in [Coordinators -> Refresh]
  /\ shown \in {"none", "in_sync", "out_of_sync", "unavailable"}
  /\ notified \in BOOLEAN
  /\ source \in Ips /\ list \in Ips
  /\ accepted \subseteq Ips /\ valid \subseteq Tokens
  /\ events \in 0..MaxEvents /\ calm \in BOOLEAN
  /\ (current # NoCoordinator) <=> (state \in {"setup", "platforms", "loaded"})
  /\ (current # NoCoordinator) <=> (built # Nothing)
  /\ subscribed <=> (state = "loaded")
  /\ interval => subscribed
  /\ asked => state \in {"platforms", "loaded"}
  /\ state = "setup" => ~Idle(current)
  /\ \A c \in Coordinators : ~Idle(c) => run[c].pc # "idle" /\ run[c].ip \in Ips

\* What is stored takes effect: a loaded entry with no reload ahead runs on the
\* token that is stored, whenever it was replaced, and on the options that are
\* stored - unless they were saved while the setup was under way, when the update
\* listener was not registered yet.
StoredTakesEffect ==
  state = "loaded" /\ ~reload => built = token /\ config # "updated"

\* An entry is never forgotten: while nothing runs for it there is something that
\* will - a setup, a reload, a retry or a timer - or the user is being asked for a
\* token.
NeverForgotten ==
  Quiet /\ state # "absent" =>
    \/ state \in {"not_loaded", "retry", "platforms"} \/ reload
    \/ interval \/ asked
    \/ reauth

\* Nothing acts for ever for an entry that was removed: the refreshes its unload
\* left behind end, and none follows.
GoneIsQuiet == <>[](state = "absent" => Quiet)

\* A reload happens, however long the setup takes that it waits for: the first
\* refresh, with all of its retries, runs under the lock of the entry.
ReloadServed == []<>(~reload)

\* Across reloads, restarts and the refreshes they leave behind: once nothing
\* interferes any more the list ends up holding the address of the source for
\* good, the sensor says so, and no notification of an earlier life is left - or
\* the token was rejected, or there is no entry any more.
LSettled ==
  \/ state = "absent" \/ token \notin valid
  \/ list = source /\ state = "loaded" /\ shown = "in_sync" /\ ~notified

LifeConverges == <>[](calm => LSettled)

================================================================================
