-------------------------- MODULE EntryLifecycleProofs --------------------------
(***************************************************************************)
(* An entry that is loaded runs on what is stored, and none is forgotten,  *)
(* for any number of coordinators, tokens, addresses and interferences.    *)
(*                                                                         *)
(* The first property is about loaded entries; its inductive form (Stored) *)
(* has to speak of every coordinator from the beginning of its setup,      *)
(* because token and options may be replaced while the first refresh runs. *)
(* The second is about moments when nothing runs; its inductive form       *)
(* (Remembered) is about those when nothing runs for this entry, whatever  *)
(* former coordinators still do.                                           *)
(***************************************************************************)
EXTENDS EntryLifecycle, TLAPS

Stored == current # NoCoordinator /\ ~reload => built = token /\ config # "updated"

IInv == LTypeOK /\ Stored

USE LifecycleAssumption DEF LifecycleAssumption

LEMMA InitHolds == ASSUME LInit PROVE IInv
<1>1. /\ reload \in BOOLEAN /\ reauth \in BOOLEAN /\ subscribed \in BOOLEAN
      /\ interval \in BOOLEAN /\ asked \in BOOLEAN /\ notified \in BOOLEAN
      /\ calm \in BOOLEAN
    BY Zenon DEF LInit
<1> QED
    BY <1>1 DEF LInit, IInv, LTypeOK, Stored, States, Refresh, NoRefresh, Idle

\* What a refresh may be, for the steps that start or change one.
LEMMA RefreshTypes ==
  /\ NoRefresh \in Refresh
  /\ \A ip \in Ips, tok \in Tokens \cup {Nothing} :
       /\ [pc |-> "reading", ip |-> ip, token |-> tok] \in Refresh
       /\ [pc |-> "reading", ip |-> ip, token |-> tok] # NoRefresh
BY DEF NoRefresh, Refresh

\* Only SetupBegins makes a coordinator, from what is stored.
LEMMA SetupKeeps == ASSUME IInv, SetupBegins PROVE IInv'
<1>1. PICK c \in Coordinators : Idle(c) /\ current' = c /\ Begins(c, token)
    BY DEF SetupBegins
<1>2. run'[c] = [pc |-> "reading", ip |-> source, token |-> token] /\ run' \in [Coordinators -> Refresh]
    BY <1>1, RefreshTypes DEF Begins, IInv, LTypeOK
<1>3. \A d \in Coordinators : run'[d] # NoRefresh => run'[d].pc # "idle" /\ run'[d].ip \in Ips
    BY <1>1, <1>2, RefreshTypes DEF Begins, IInv, LTypeOK, Idle
<1> QED
    BY <1>1, <1>2, <1>3, RefreshTypes
    DEF SetupBegins, IInv, LTypeOK, Stored, States, Idle, timers, world

LEMMA FinishKeeps == ASSUME IInv, SetupFinishes PROVE IInv'
BY DEF SetupFinishes, IInv, LTypeOK, Stored, States, Idle, world

\* An unload leaves refreshes as they were, or ends that of its coordinator.
LEMMA UnloadKeepsRefreshes == ASSUME IInv, Unloads
  PROVE /\ run' \in [Coordinators -> Refresh]
        /\ \A c \in Coordinators : run'[c] # NoRefresh => run'[c].pc # "idle" /\ run'[c].ip \in Ips
BY RefreshTypes DEF IInv, LTypeOK, Unloads, Idle

LEMMA ReloadKeeps == ASSUME IInv, Reloads PROVE IInv'
<1>1. Unloads
    BY DEF Reloads
<1> QED
    BY <1>1, UnloadKeepsRefreshes DEF Reloads, Unloads, IInv, LTypeOK, Stored, States, Idle, world

LEMMA RemovalKeeps == ASSUME IInv, Removed PROVE IInv'
<1>1. Unloads
    BY DEF Removed
<1>2. /\ reload' \in BOOLEAN /\ reauth' \in BOOLEAN /\ subscribed' \in BOOLEAN
      /\ interval' \in BOOLEAN /\ asked' \in BOOLEAN /\ calm' \in BOOLEAN
    BY Zenon DEF Removed, Unloads, Interferes, IInv, LTypeOK
<1>3. /\ state' = "absent" /\ current' = NoCoordinator /\ built' = Nothing
      /\ ~subscribed' /\ ~interval' /\ ~asked' /\ shown' = "none"
      /\ events' \in 0..MaxEvents
      /\ UNCHANGED <<token, config, notified, source, list, accepted, valid>>
    BY DEF Removed, Unloads, Interferes, IInv, LTypeOK, world
<1> QED
    BY <1>1, <1>2, <1>3, UnloadKeepsRefreshes DEF IInv, LTypeOK, Stored, States, Idle

LEMMA RestartKeeps == ASSUME IInv, Restarts PROVE IInv'
<1>1. /\ reload' \in BOOLEAN /\ reauth' \in BOOLEAN /\ subscribed' \in BOOLEAN
      /\ interval' \in BOOLEAN /\ asked' \in BOOLEAN /\ notified' \in BOOLEAN
    BY Zenon DEF Restarts
<1> QED
    BY <1>1, RefreshTypes DEF Restarts, Interferes, IInv, LTypeOK, Stored, States, Idle, world

LEMMA AskKeeps == ASSUME IInv, ReloadAsked PROVE IInv'
BY DEF ReloadAsked, Interferes, IInv, LTypeOK, Stored, States, Idle, timers, world

\* Updates: heard, and then a reload is ahead, or not heard, and told apart.
LEMMA OptionsKeep == ASSUME IInv, OptionsSaved PROVE IInv'
BY DEF OptionsSaved, Updated, Interferes, IInv, LTypeOK, Stored, States, Idle, timers, world

LEMMA ReauthKeeps == ASSUME IInv, ReauthConfirmed PROVE IInv'
BY DEF ReauthConfirmed, IInv, LTypeOK, Stored, States, Idle, timers, world

LEMMA SourceKeeps == ASSUME IInv, SourceChanges PROVE IInv'
BY DEF SourceChanges, Requested, Interferes, IInv, LTypeOK, Stored, States, Idle, entry

LEMMA ForceKeeps == ASSUME IInv, ForceSync PROVE IInv'
BY DEF ForceSync, Requested, IInv, LTypeOK, Stored, States, Idle, entry, world

LEMMA TimerKeeps == ASSUME IInv, TimerFires PROVE IInv'
<1>1. current \in Coordinators /\ Begins(current, built)
    BY DEF TimerFires, IInv, LTypeOK
<1>2. run'[current] = [pc |-> "reading", ip |-> source, token |-> built]
      /\ run' \in [Coordinators -> Refresh]
    BY <1>1, RefreshTypes DEF Begins, IInv, LTypeOK
<1>3. \A d \in Coordinators : run'[d] # NoRefresh => run'[d].pc # "idle" /\ run'[d].ip \in Ips
    BY <1>1, <1>2, RefreshTypes DEF Begins, IInv, LTypeOK, Idle
<1> QED
    BY <1>1, <1>2, <1>3, RefreshTypes
    DEF TimerFires, IInv, LTypeOK, Stored, States, Idle, entry, world

\* A refresh ends; everything about the entry that it may change.
LEMMA EndKeeps ==
  ASSUME IInv, NEW c \in Coordinators, NEW how \in {"success", "failed", "auth"},
         NEW shows \in {"in_sync", "out_of_sync", "unavailable"}, Ends(c, how, shows),
         ~Idle(c), notified' \in BOOLEAN, UNCHANGED <<world, events, calm>>
  PROVE  IInv'
<1>1. /\ run' \in [Coordinators -> Refresh]
      /\ run'[c] = NoRefresh
      /\ \A d \in Coordinators \ {c} : run'[d] = run[d]
      /\ \A d \in Coordinators : run'[d] # NoRefresh => run'[d].pc # "idle" /\ run'[d].ip \in Ips
    BY RefreshTypes DEF Ends, IInv, LTypeOK, Idle
<1>2. reauth' \in BOOLEAN /\ UNCHANGED <<token, config, reload, subscribed, asked>>
    BY DEF Ends, AsksForToken, IInv, LTypeOK
<1>3. CASE FirstEnds(c, how, shows)
    BY <1>1, <1>2, <1>3 DEF FirstEnds, IInv, LTypeOK, Stored, States, Idle, world
<1>4. CASE LaterEnds(c, how, shows)
    BY <1>1, <1>2, <1>4 DEF LaterEnds, IInv, LTypeOK, Stored, States, Idle, world
<1>5. CASE OrphanEnds(c)
    BY <1>1, <1>2, <1>5 DEF OrphanEnds, IInv, LTypeOK, Stored, States, Idle, world
<1> QED
    BY <1>3, <1>4, <1>5 DEF Ends

\* A refresh goes on.
LEMMA GoingOnKeeps ==
  ASSUME IInv, NEW c \in Coordinators, NEW pc \in {"writing", "polling"}, ~Idle(c),
         run' = [run EXCEPT ![c].pc = pc], accepted' \subseteq Ips,
         UNCHANGED <<entry, reauth, timers, shown, notified, source, list, valid, events, calm>>
  PROVE  IInv'
<1>1. run[c] \in Refresh /\ run[c].ip \in Ips
    BY DEF IInv, LTypeOK
<1>2. [run[c] EXCEPT !.pc = pc] \in Refresh
    BY <1>1 DEF Refresh
<1>3. run' \in [Coordinators -> Refresh]
    BY <1>2 DEF IInv, LTypeOK
<1>4. run'[c].pc = pc /\ run'[c].ip = run[c].ip /\ run'[c] # NoRefresh
    BY <1>1 DEF IInv, LTypeOK, Refresh, NoRefresh
<1>5. \A d \in Coordinators \ {c} : run'[d] = run[d]
    BY DEF IInv, LTypeOK
<1> QED
    BY <1>1, <1>3, <1>4, <1>5 DEF IInv, LTypeOK, Stored, States, Idle, entry, timers

LEMMA RefreshKeeps == ASSUME IInv, NEW c \in Coordinators, Runs(c) PROVE IInv'
<1>0. run[c].pc \in {"reading", "writing", "polling"} => ~Idle(c)
    BY DEF Idle, NoRefresh
<1>1. CASE Rejected(c)
    BY <1>1, EndKeeps DEF Rejected, IInv, LTypeOK
<1>2. CASE ReadFails(c)
    BY <1>0, <1>2, EndKeeps DEF ReadFails, IInv, LTypeOK
<1>3. CASE Matches(c)
    BY <1>0, <1>3, EndKeeps DEF Matches
<1>4. CASE ReadDiffers(c)
    BY <1>0, <1>4, GoingOnKeeps DEF ReadDiffers, IInv, LTypeOK, world
<1>5. CASE Replaces(c)
  <2>1. ~Idle(c) /\ run[c].ip \in Ips
      BY <1>0, <1>5 DEF Replaces, IInv, LTypeOK
  <2> QED
      BY <1>5, <2>1, GoingOnKeeps DEF Replaces, IInv, LTypeOK
<1>6. CASE GivesUp(c)
    BY <1>0, <1>6, EndKeeps DEF GivesUp
<1> QED
    BY <1>1, <1>2, <1>3, <1>4, <1>5, <1>6 DEF Runs

LEMMA WorldKeeps ==
  ASSUME IInv, Applied \/ NeverApplied \/ ListEdited \/ TokenRevoked \/ CalmsDown
  PROVE  IInv'
<1>1. calm' \in BOOLEAN
    BY Zenon DEF Applied, NeverApplied, ListEdited, TokenRevoked, CalmsDown, Interferes,
                 IInv, LTypeOK
<1> USE <1>1 DEF IInv, LTypeOK, Stored, States, Idle, entry, timers
<1>2. CASE Applied
    BY <1>2 DEF Applied
<1>3. CASE NeverApplied
    BY <1>3 DEF NeverApplied
<1>4. CASE ListEdited
    BY <1>4 DEF ListEdited, Interferes
<1>5. CASE TokenRevoked
    BY <1>5 DEF TokenRevoked, Interferes
<1>6. CASE CalmsDown
    BY <1>6 DEF CalmsDown, world
<1> QED
    BY <1>2, <1>3, <1>4, <1>5, <1>6

LEMMA StutterKeeps == ASSUME IInv, UNCHANGED lvars PROVE IInv'
BY DEF lvars, entry, timers, world, IInv, LTypeOK, Stored, Idle

LEMMA InvariantHolds == LSpec => []IInv
<1>1. IInv /\ [LNext]_lvars => IInv'
    BY SetupKeeps, FinishKeeps, ReloadKeeps, RemovalKeeps, RestartKeeps, AskKeeps,
       OptionsKeep, ReauthKeeps, SourceKeeps, ForceKeeps, TimerKeeps, RefreshKeeps,
       WorldKeeps, StutterKeeps DEF LNext
<1> QED
    BY InitHolds, <1>1, PTL DEF LSpec

\* Types, and that coordinator, timers and entry state belong together, whatever
\* happens during setup, unload and the refreshes of former coordinators.
THEOREM TypeCorrect == LSpec => []LTypeOK
<1>1. IInv => LTypeOK
    BY DEF IInv
<1> QED
    BY InvariantHolds, <1>1, PTL

\* A loaded entry with no reload ahead runs on the stored token and on the stored
\* options, but for those saved during its setup: the update listener and the reload
\* of the reauth dialog miss nothing else.
THEOREM TakesEffect == LSpec => []StoredTakesEffect
<1>1. IInv => StoredTakesEffect
    BY DEF IInv, LTypeOK, Stored, StoredTakesEffect
<1> QED
    BY InvariantHolds, <1>1, PTL

--------------------------------------------------------------------------------
\* Nothing is forgotten.  The two states out of which Home Assistant does nothing by
\* itself are a setup that failed for good, and a loaded entry between two refreshes.
Remembered ==
  /\ state = "error" => reauth \/ reload
  /\ state = "loaded" /\ Idle(current) => interval \/ asked \/ reauth \/ reload

LEMMA InitRemembers == ASSUME LInit PROVE Remembered
BY DEF LInit, Remembered

\* Setup, unload and updates: a reload replaces what the unload drops.
LEMMA EntryRemembers ==
  ASSUME IInv, Remembered,
         \/ SetupBegins \/ SetupFinishes \/ Reloads \/ Removed \/ Restarts
         \/ ReloadAsked \/ OptionsSaved \/ ReauthConfirmed
  PROVE  Remembered'
<1>1. CASE SetupBegins
    BY <1>1 DEF SetupBegins, Remembered
<1>2. CASE SetupFinishes
    BY <1>2 DEF SetupFinishes, Remembered
<1>3. CASE Reloads \/ Removed \/ Restarts
    BY <1>3 DEF Reloads, Removed, Restarts, Remembered
<1>4. CASE ReloadAsked \/ ReauthConfirmed
    BY <1>4 DEF ReloadAsked, ReauthConfirmed, Remembered
<1>5. CASE OptionsSaved
  <2>1. reload => reload'
      BY <1>5 DEF OptionsSaved, Updated
  <2> QED
      BY <1>5, <2>1 DEF OptionsSaved, Remembered, Idle, timers
<1> QED
    BY <1>1, <1>2, <1>3, <1>4, <1>5

\* Triggers: a timer is only consumed by the refresh it starts.
LEMMA TriggersRemember ==
  ASSUME IInv, Remembered, SourceChanges \/ ForceSync \/ TimerFires PROVE Remembered'
<1>1. CASE SourceChanges \/ ForceSync
  <2>1. asked => asked'
      BY <1>1 DEF SourceChanges, ForceSync, Requested
  <2> QED
      BY <1>1, <2>1 DEF SourceChanges, ForceSync, Remembered, Idle, entry
<1>2. CASE TimerFires
  <2>1. current \in Coordinators /\ Begins(current, built) /\ source \in Ips
        /\ built \in Tokens \cup {Nothing}
      BY <1>2 DEF TimerFires, IInv, LTypeOK
  <2>2. run'[current] # NoRefresh
      BY <2>1, RefreshTypes DEF Begins, IInv, LTypeOK
  <2> QED
      BY <1>2, <2>2 DEF TimerFires, Remembered, Idle, entry
<1> QED
    BY <1>1, <1>2

\* A refresh ends: the first one leaves a setup that goes on, is retried or has asked
\* for a token; a later one sets the interval or has asked for a token.
LEMMA EndRemembers ==
  ASSUME IInv, Remembered, NEW c \in Coordinators, NEW how \in {"success", "failed", "auth"},
         NEW shows, Ends(c, how, shows)
  PROVE  Remembered'
<1>1. /\ reauth => reauth'
      /\ how = "auth" /\ state # "absent" => reauth'
    BY DEF Ends, AsksForToken
<1>2. UNCHANGED <<reload, subscribed, asked>>
      /\ \A d \in Coordinators \ {c} : run'[d] = run[d]
    BY DEF Ends, IInv, LTypeOK
<1>3. CASE FirstEnds(c, how, shows)
    BY <1>1, <1>3 DEF FirstEnds, Remembered
<1>4. CASE LaterEnds(c, how, shows)
  <2>1. state \in {"platforms", "loaded"} /\ UNCHANGED state
      BY <1>4 DEF LaterEnds, IInv, LTypeOK
  <2>2. state = "loaded" /\ how # "auth" => interval'
      BY <1>4 DEF LaterEnds, IInv, LTypeOK
  <2> QED
      BY <1>1, <2>1, <2>2 DEF Remembered
<1>5. CASE OrphanEnds(c)
  <2>1. state = "loaded" => current \in Coordinators \ {c}
      BY <1>5 DEF OrphanEnds, IInv, LTypeOK
  <2> QED
      BY <1>1, <1>2, <1>5, <2>1 DEF OrphanEnds, Remembered, Idle
<1> QED
    BY <1>3, <1>4, <1>5 DEF Ends

LEMMA RefreshRemembers ==
  ASSUME IInv, Remembered, NEW c \in Coordinators, Runs(c) PROVE Remembered'
<1>1. CASE Rejected(c) \/ ReadFails(c) \/ Matches(c) \/ GivesUp(c)
    BY <1>1, EndRemembers DEF Rejected, ReadFails, Matches, GivesUp
<1>2. CASE ReadDiffers(c) \/ Replaces(c)
  <2>1. run[c].pc # "idle" /\ \A d \in Coordinators \ {c} : run'[d] = run[d]
      BY <1>2 DEF ReadDiffers, Replaces, IInv, LTypeOK
  <2>2. ~Idle(c)
      BY <2>1 DEF Idle, NoRefresh
  <2>3. state = "loaded" => current \in Coordinators
      BY DEF IInv, LTypeOK
  <2>4. UNCHANGED <<entry, reauth, timers>>
      BY <1>2 DEF ReadDiffers, Replaces
  <2>5. state = "loaded" /\ Idle(current)' => Idle(current)
    <3> SUFFICES ASSUME state = "loaded", Idle(current)' PROVE Idle(current)
        OBVIOUS
    <3>1. CASE current # c
        BY <2>1, <2>3, <2>4, <3>1 DEF Idle, entry
    <3>2. CASE current = c
      <4>1. run'[c] # NoRefresh
        <5>1. run'[c].pc \in {"writing", "polling"}
            BY <1>2 DEF ReadDiffers, Replaces, IInv, LTypeOK, Refresh
        <5> QED
            BY <5>1 DEF NoRefresh
      <4> QED
          BY <2>4, <3>2, <4>1 DEF Idle, entry
    <3> QED
        BY <3>1, <3>2
  <2> QED
      BY <2>4, <2>5 DEF Remembered, entry, timers
<1> QED
    BY <1>1, <1>2 DEF Runs

LEMMA RestRemembers ==
  ASSUME Remembered,
         Applied \/ NeverApplied \/ ListEdited \/ TokenRevoked \/ CalmsDown
         \/ UNCHANGED lvars
  PROVE  Remembered'
<1>1. UNCHANGED <<entry, reauth, timers, run>>
    BY DEF Applied, NeverApplied, ListEdited, TokenRevoked, CalmsDown, lvars
<1> QED
    BY <1>1 DEF Remembered, Idle, entry, timers

\* No entry is forgotten: whatever the order of setups, failures, reloads, updates and
\* refreshes, in a quiet moment something is still to come for it - a setup, a retry, a
\* reload, a timer - or the user is being asked for a token.
THEOREM NoneForgotten == LSpec => []NeverForgotten
<1>1. IInv /\ Remembered /\ [LNext]_lvars => Remembered'
    BY EntryRemembers, TriggersRemember, RefreshRemembers, RestRemembers DEF LNext
<1>2. LInit => Remembered
    BY InitRemembers
<1>3. IInv /\ Remembered => NeverForgotten
    BY DEF IInv, LTypeOK, States, Remembered, NeverForgotten, Quiet
<1> QED
    BY InvariantHolds, <1>1, <1>2, <1>3, PTL DEF LSpec

================================================================================
