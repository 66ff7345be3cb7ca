# Cloudflare Dynamic IP Sync, in TLA+

A formal model of the Home Assistant integration `cloudflare_ip_sync`
(`src/custom_components/cloudflare_ip_sync/`): what it does to a Cloudflare Rule List
and, optionally, to a DNS record, so that both follow the IP address a Home Assistant
entity shows. The modules are checked on small instances with TLC, and the theorems
are proved for every value of the constants with TLAPS.

```
tlc -workers 2 -config single.cfg MCRuleListSync.tla
tlapm RuleListSyncProofs.tla
```

`PROJECT.json` lists the runs with their modules and configurations, the source lines of
every definition, the hazards and the theorems.

## 1. The system

| Component | State | Operations | Talks to |
| --- | --- | --- | --- |
| Coordinator, Rule List half (`coordinator.py`) | `_last_synced`, `data` (the published `SyncState`), the persistent notification, the Repair issue; in each running refresh `local_ip`, `cloudflare_ips`, the loop variables | `_async_update_data` and all it awaits | API client, Home Assistant (state of the source, notifications, issues) |
| Coordinator, DNS half (`coordinator.py`) | its loop variables, the DNS notification, the `dns_*` fields of `data` | `_async_reconcile_dns`, `_async_sync_dns_with_retry`, `_async_upsert_dns_record` | API client |
| Triggers (`__init__.py`, `coordinator.py`, `services.py`) | debouncer, interval timer, listener (all Home Assistant's) | first refresh, source event, `force_sync`, interval | coordinator |
| Entry lifecycle (`__init__.py`, `services.py`) | the entry's state, data and options; its runtime data (the coordinator) | setup and its retries, unload, reload, removal, restart, update listener | triggers, coordinator |
| API client (`api.py`) | none but token and session | one method per endpoint, `_request` | Cloudflare |
| Config, options, reauth flows (`config_flow.py`) | the form's data, the entry's data and options | the steps of the flows | API client, lifecycle |
| Sensor (`sensor.py`, `entity.py`) | none, reads `data` | `native_value`, attributes | coordinator |
| Diagnostics (`diagnostics.py`) | none | dump with the token redacted | coordinator |

What is hard here is not any single function but time. One refresh is a coroutine with
up to a few dozen awaits: it may take minutes (a poll of up to 30 s per attempt, backoff
of 5 to 60 s between them, then the same retries for DNS), all the while working with an IP it
read at its first line. Meanwhile the source changes, somebody edits the list,
Cloudflare applies an operation nobody waits for any more, another refresh starts or is
refused, and requests fail or lose their answers. What must be true in spite of that:

* **Rule List half.** A list is only written if it was read and differs. What is published
  is coherent, and "in sync" is true of the list. The notification is up exactly while there
  is an error. Attempts and sleeps follow the schedule. Every refresh ends.
* **DNS half.** It never raises; it ends in a verdict; "in sync" is true of the zone; a create
  whose answer got lost is not repeated.
* **Triggers.** There is always a next refresh; a list that matches is not broken by a
  refresh; once the world rests, the list follows the source for good.
* **Lifecycle.** A loaded entry runs on what is stored. It is never forgotten. What an unload leaves
  behind dies down, and across all of it list, sensor and notification end up right.
* **Client.** A paged read repeats and skips nothing, and is whole if every answer says what follows; no class of answer makes the validation of
  a token accept a false one, or call one invalid that has the permissions it needs.
* **Flows.** One entry per list; only tokens Cloudflare issued; the DNS zone that is stored is the closest
  one that owns the record name.
* **Sensor.** What it shows and what the notifications say agree once a refresh has ended.

## 2. The modules

```
Backoff ── RetryLoop ── RetryLoopProofs             the retry schedule, abstract
   │            ▲ implemented by (RetriesFollowSchedule)
   ├── RuleListSync ── RuleListSyncProofs           one refresh, and several at once
   │        ├── SyncSensor ── SerialRefreshProofs   what the user sees; what is published, and the world
   │        └── RefreshTriggers ── RefreshTriggersProofs   when refreshes run
   └── DnsSync ── DnsSyncProofs                     the DNS half in detail
            ▲ implements
        DnsOutcome                                  what the DNS half promises

EntryLifecycle ── EntryLifecycleProofs              coordinators one after the other

ApiErrors                                           answers of Cloudflare, and what they become
   ├── ApiClient ── OptionsFlow ── OptionsFlowProofs   paged reads, and the dialog that needs one
   └── SetupFlow ── SetupFlowProofs                 setup and reauth dialogs
```

`MC…` modules hold the values of the constants for TLC.

**Backoff, RetryLoop.** `_async_sync_with_retry` and `_async_sync_dns_with_retry` are the same
loop twice. `RetryLoop` states its promise without saying what an attempt does: `Enter`, `Sleep`, `Wake`,
`Leave`, for any number of loops side by side (`Runs`), of which one at most moves at a time. `RuleListSync` and
`DnsSync` are each checked, and proved, to implement it (`Loops`), by a refinement mapping from the place where each
coroutine is suspended (`Phase`) and its two loop variables.

**RuleListSync.** The coroutine is cut at its awaits. `task[r]` holds where refresh `r` is
suspended (`reading` at line 199, `checking` 488, `replacing` 295, `polling` 315 and 324,
`verifying` 302, `backoff` 287, `dns` 247) and those locals that survive. A request is under
way while `reply` is `NoReply`; an `Answer…` action of Cloudflare (or `RequestFails`) fills it
in, and a client action consumes it when the event loop resumes the coroutine. Everything a
client action does runs without an await in the code, so it is one step: including the
notification, the issue, `_last_synced` and, at the end, publishing `data`. `GoesTo`, `Raises`,
`ListHalfEnds` and `Publishes` are the ways a step can end, `Settles` and `GivesUp` the two
verdicts of the list half.

Answers are classed by what the code does with them: `auth` (`CloudflareAuthError`), `api`
(`CloudflareApiError`) and `error` (any other `CloudflareError`: connection, rate limit,
malformed result). Errors, times and messages are kept as "there is one".

Cloudflare is external. A Rule List is a set of texts, `Network` says what
`ipaddress.ip_network` makes of a text, and Cloudflare may store an address in any spelling of
the same network. A replace is accepted (`AnswerReplace`, or `ReplaceAnswerLost`) and
applied later (`BulkCompletes`), fails, or never ends. Accepted operations nobody polls
for any more are in `strays` by their address, one or more for each, and may still be applied at any time.

`drifted` is a history variable: the source or the list has moved by itself since the last
`Begin`. Properties about "the list is right" are conditional on it, since no program can
promise anything about a list others edit.

**RefreshTriggers** extends it with the two sources of refreshes, `Debounced` and `Scheduled`
(first refresh and interval; these never overlap one another). The debouncer is Home
Assistant's: a request starts the cooldown timer, or is merged into a running one, or is
dropped while a call holds its lock. Whether an interval refresh takes that lock differs
between Home Assistant releases; `ScheduledLocks` covers both. `Ends` sets the interval again after
every refresh unless the token was rejected, `Begins` cancels it.

**DnsSync, DnsOutcome.** `DnsSync` is the DNS half in the style of `RuleListSync`. The zone is a
table of the records under the configured name; each has type, content, proxy flag and
whether its TTL is the wanted one. Which of several records comes first is Cloudflare's choice.
`Stored` says which text Cloudflare keeps for an address, so an IPv6 address in a
spelling that Cloudflare normalises is part of the runs (it never verifies, since the comparison
at coordinator.py:439 is textual). `DnsOutcome` is the promise that `RuleListSync` builds on: its `DnsReturns`
picks a verdict, moves the notification with it, publishes, and never raises.

**EntryLifecycle.** The other modules are about one coordinator; this one is about an entry and
the coordinators it has one after the other. `state` is Home Assistant's entry state, with the
setup cut at its awaits: `setup` (the first refresh, `__init__.py:40`), `platforms` (the source
listener is registered, the update listener is not, lines 43 to 46), `loaded`. `current` is
`runtime_data`, `run[c]` the refresh of coordinator `c`, which goes on after `c` was
unloaded (`OrphanEnds`) with the token and address it has. A refresh is that of `RuleListSync` with
one attempt, cut down to the steps the rest of the world can tell: the read, the accepted replace,
the verification. `built` and `config` say what `current` was made of, `token` what is stored;
`config = "unheard"` marks options saved while the setup was under way, when nobody was listening.
Reload, removal and setup exclude one another, because Home Assistant holds a lock per entry
over each of them (`SetupLocked`).

**ApiErrors, ApiClient.** `ClassOf` translates `_request`, `_require_result` and `_require_list` for all
combinations of status and body, in the order of the code: body first, then status. `ClassesTo` is
what a request can become whose token Cloudflare rejects, whose token lacks the permission for it (a 403 as well), or has it (`Standings`). `ApiClient` has the two calls that
need several requests (`async_get_list_items` by cursor, `async_get_zones` by page number); each page
is a step, and others add and remove objects in between. An answer may come without the cursor or the number of pages, or with one that
cannot be read; `_next_cursor` and `_total_pages` then take the page for the last one (`Reads`). `told` is a history variable: every page so far said what follows it. `objects` is the sequence Cloudflare lists, in an order an edit does not
change; `Only` is the loop that collects what has an `ip` or `id`, as a recursive function, so that `Only(seq, set)` keeps order and
repetitions.

**OptionsFlow.** The options dialog with `_async_find_zone` on top of `ApiClient`: a name is a sequence of
labels, root first, so that `strip(". ")` removes empty labels at both ends, `lower()` is a function on labels (`LowerCase`), and "owns" is a prefix.
Label boundaries are thus part of the data. A zone without a name owns nothing. The numeric options are left out.

**SetupFlow.** The setup dialog (token, account, Rule List, entity) and the reauth dialog, several side by side.
`flows[f].at` is the form it shows, or the request it waits for (`verify` and `fallback` of
`_async_validate_token`, `accounts`, `lists`). `granted` is what each token is good for: to be accepted at all, to list the
accounts, to list the Rule Lists of an account; it may lose any of it on the way. A dialog that is aborted keeps its reason. A dialog has its unique id once it is at `entity`;
`InProgress` and `Configured` are Home Assistant's two ways to reject a second one.

**SyncSensor.** `NativeValue` and the availability of `sensor.py` over the state of `RuleListSync`.

**MCFlows** runs `SetupFlow` and `OptionsFlow` in one go. They share only `ApiErrors`, so a behaviour is one
of either, while the other rests in its initial state.

Operators commented "Slip" are not part of the specification. Each is a bug somebody could
make in the definition that follows it, and is used to see that a property notices.

## 3. The runs

| Run | Bounds | Shows |
| --- | --- | --- |
| `single` | one refresh; one source IP or none; four texts: two spellings of the source's address, a foreign address, one that is no network; all classes of failure; `max_retries` 3; DNS half on; fair | `TypeOK`, `ReportIsCoherent`, `NotificationMatchesReport`, `InSyncIsCurrent`, `RetriesFollowSchedule`, `RefreshEnds`, `SensorAgreesWithNotifications` |
| `overlap` | two interchangeable refreshes; two IPs; `max_retries` 2; lost answers and broken connections, lost lists, failed and timed-out operations | `RefreshesUpheld`, `ReportIsCoherent`, `NotificationMatchesReport` |
| `triggers` | interval refreshes do not lock; one IP or none; token and connection failures | `TTypeOK`, `SafetyNetHolds` |
| `converges` | interval refreshes lock; two IPs; token failures; fair | also `LockKeepsMatch`, `Converges` |
| `dns` | one DNS half; four addresses of two types, one in a spelling Cloudflare normalises; room for two records; wrong content, proxy or TTL left by others; all classes of failure; `max_retries` 2; fair | `TypeOK`, `InSyncIsCurrent`, `CreatesOnlyIfNone`, `RetriesFollowSchedule`, `ImplementsOutcome`, `DnsHalfEnds` |
| `lifecycle` | two coordinators, two tokens, two addresses; three events (`MaxEvents`) out of change of the source, edit of the list, revoked token, options, reload, removal, restart; failing requests and lost operations without bound until the world is calm; fair | `LTypeOK`, `StoredTakesEffect`, `NeverForgotten`, `GoneIsQuiet`, `ReloadServed`, `LifeConverges` |
| `flows` | two dialogs; a user's token, an account-owned and a mistyped one, and their permissions; two lists; two entries. Five objects in pages of two, one of them without id; as zones a domain, two zones within it and one without a name; five inputs, one in upper case | `FTypeOK`, `OTypeOK`, `OneEntryPerList`, `OnlyGenuineTokens`, `AllowedNotRefused`, `ReadIsWhole`, `KeptAreSeen`, `ZoneIsClosest`, `CallEnds` |

Why the bounds are enough: three attempts have a first, a middle and a last one, and with
backoff bounds 5 and 8 the second sleep hits the cap. Two IPs are what it takes for a stale
local IP to do harm, two texts of one network and one of another decide every comparison, two refreshes are the most
Home Assistant runs at once. `overlap` gives each a second attempt, so that an operation whose answer was lost, or that was given up, meets
the next attempt of its own refresh and of the other. `triggers` and `converges` keep one, because a further attempt
repeats the same awaits; a refresh of theirs meets the operations of the one before. Attempts are bounded by the code itself; no other counter grows.

In `lifecycle`, two coordinators are a current one and one that outlived its unload; a third setup waits
there until one of them is done. Three events are enough for the sequences that matter: a
reload, a reauth after a revoked token (the reauth itself is no event) and a change of the source meanwhile;
requests may fail any number of times beside them. The addresses and tokens are interchangeable, so the run
fixes the first of each. In `flows` two dialogs are what a uniqueness check can get wrong, and `MaxEntries` bounds
entries and open setups together. Three pages have a first, an inner and a last one, and a listing that shrinks or
grows by a page while it is read.

The five remaining runs look for something a document says and the code does not do; TLC
finds a counterexample for each.

| Run | Counterexample |
| --- | --- |
| `no_retries` | `max_retries` 0 is accepted by the options form, and then an out-of-sync list is given up on, with a notification, without one attempt |
| `issue_lost` | the list is gone and the issue up; the next read fails, the existence check fails as well, and the issue is cleared |
| `dropped_change` | the source changes while a debounced refresh is under way; the debouncer drops the request, and the new IP waits for the interval |
| `startup_change` | the source changes during the first refresh, before the listener is registered |
| `dns_blocks` | the source changes while a refresh is in its DNS half: the list waits for the interval |

Deadlock is checked everywhere except in `triggers`, `converges` and `lifecycle`, where the system may really stop:
if the token is rejected at setup, nothing runs until the user reauthenticates, and nothing runs for an entry
that was removed.

**Fairness.** `RuleListSync!Fairness`: every request ends, because `_request` runs under
`asyncio.timeout`; the event loop resumes whoever can run; and the timeout around the poll loop fires
(`BulkTimesOut`), for which reason a poll that goes on forever is no counterexample. Nothing
obliges Cloudflare to apply an operation. `TFairness`: Home Assistant's timers fire and setup is
retried; for `Converges` only, once the environment is calm Cloudflare answers and applies what it
accepted, down to the last operation nobody polls for. An ordinary timeout then does not occur any more (`calm` excludes it), so `Converges`
is about a Cloudflare that is fast enough, from some moment on.

`LFairness`: Home Assistant sets up and reloads an entry that waits for it (a retry of the setup is a timer), the debouncer's and the interval
timer fire, every await of a refresh ends (a request by its timeout, a poll by the one around the loop), and a
calm Cloudflare applies what it accepted. Nobody is obliged to reauthenticate. `CFairness`: every request is
answered in the end, and as a page, unless it fails and ends the call.

**What does not hold**, and is not claimed: with two refreshes at once, and different IPs, an older
replace may undo a newer match (hence `LockKeepsMatch` where interval refreshes lock); also under the lock, an
operation for a former address that was given up and is applied late overwrites the list (`ListOverwritten`), until the next refresh; two DNS halves at
once may both create a record (`CreatesOnlyIfNone` is about one); with the DNS half on, two
refreshes can publish in the other order than they notified (`overlap` has it off). Further:

* Options saved while the setup is under way are stored, and take effect only with the next reload
  (`StoredTakesEffect` exempts them by `config = "unheard"`).
* A refresh that outlived its coordinator may find its old token rejected and open a reauth dialog for an entry
  that has a new one already.
* There is no `async_remove_entry`: notification and issue of a removed entry stay (`LifeConverges` is about
  entries that exist).
* With objects removed between two pages, others that stay may be missed (`KeptAreSeen`, `ZoneIsClosest`).
* A paged read whose answer does not say what follows returns what it has so far, and nobody can tell (`ReadIsWhole`). The
  options dialog then knows the first zones only.
* A token that lacks a permission is an auth error like one that is rejected (api.py:443). An account-owned token that may not list
  the accounts is refused with `invalid_auth` on the token form, because that request stands in for the verification, although README.md:298
  does not count that permission among the causes and README.md:300 has the account step fail; a user's token
  validates, and its dialog is aborted with `invalid_auth` at the next. `AllowedNotRefused` is about tokens that have
  the permission for what is asked.
* The setup dialog only reads: a token that may not edit the list passes it.
* A 401, 403 or 429 whose body is no JSON object is an API error. The dialogs cope with it, which is what `OnlyGenuineTokens` and
  `AllowedNotRefused` show; the coordinator takes it for a failed read.
* An account or list that vanished after it was chosen is accepted, if any other is left.
* While a refresh is under way the sensor shows the report of the last one, which the notifications may be ahead of.

## 4. The proofs

Every theorem holds for all values of the constants that meet the assumptions named in the modules.

| Theorem | States |
| --- | --- |
| `RetryLoopProofs!TypeCorrect`, `ScheduleHolds` | attempts in `1..MaxRetries`, a sleep only before another attempt, delays between first backoff and cap |
| `RuleListSyncProofs!TypeCorrect` | `[]TypeOK` |
| `RuleListSyncProofs!ReportCoherent` | `[]ReportIsCoherent` |
| `RuleListSyncProofs!RefreshesStayUpheld` | `[]RefreshesUpheld` |
| `RuleListSyncProofs!NotificationMatches` | `[]NotificationMatchesReport`, if the DNS half is off |
| `RuleListSyncProofs!RetriesScheduled` | `RuleListSync` implements `RetryLoop` |
| `SerialRefreshProofs!InSyncStaysCurrent` | `[]InSyncIsCurrent`, if refreshes do not overlap |
| `SerialRefreshProofs!NotificationMatchesWithDns` | `[]NotificationMatchesReport`, if refreshes do not overlap |
| `SerialRefreshProofs!SensorAgrees` | `[]SensorAgreesWithNotifications`, if refreshes do not overlap |
| `SerialRefreshProofs!OverlapHarmless` | overlapping refreshes of one address undo no match, and "in sync" is right when published |
| `RefreshTriggersProofs!TriggersRefine` | `RefreshTriggers` implements `RuleListSync` |
| `RefreshTriggersProofs!TriggersTypeCorrect` | `[]TTypeOK` |
| `RefreshTriggersProofs!SafetyNetNeverTears` | `[]SafetyNetHolds` |
| `RefreshTriggersProofs!LockSerializes` | refreshes do not overlap where interval refreshes lock |
| `RefreshTriggersProofs!LockKeepsInSyncCurrent`, `LockKeepsUserInformed` | there, `InSyncIsCurrent`, `NotificationMatchesReport` and `SensorAgreesWithNotifications` always hold |
| `RefreshTriggersProofs!MatchIsKept` | `LockKeepsMatch` |
| `DnsSyncProofs!TypeCorrect` | `[]TypeOK` |
| `DnsSyncProofs!DnsImplementsOutcome`, `VerdictNotified` | `DnsSync` implements `DnsOutcome`, so that verdict and notification agree |
| `DnsSyncProofs!RetriesScheduled` | `DnsSync` implements `RetryLoop` |
| `DnsSyncProofs!InSyncStaysCurrent` | `[]InSyncIsCurrent`, if DNS halves do not overlap |
| `DnsSyncProofs!CreatesWhereNone` | `CreatesOnlyIfNone`, if DNS halves do not overlap |
| `DnsSyncProofs!OverlapHarmless` | overlapping DNS halves for one address lose no right record, and "in sync" is right when published |
| `EntryLifecycleProofs!TypeCorrect` | `[]LTypeOK` |
| `EntryLifecycleProofs!TakesEffect` | `[]StoredTakesEffect` |
| `EntryLifecycleProofs!NoneForgotten` | `[]NeverForgotten` |
| `SetupFlowProofs!UniqueLists` | `[]OneEntryPerList` |
| `SetupFlowProofs!TokensGenuine` | `[]OnlyGenuineTokens` |
| `SetupFlowProofs!AllowedNeverRefused` | `AllowedNotRefused` |
| `SetupFlowProofs!DialogsWellFormed` | `[]FTypeOK` |
| `OptionsFlowProofs!ReadsWhole` | `[]ReadIsWhole` |
| `OptionsFlowProofs!KeptSeen` | `[]KeptAreSeen` |
| `OptionsFlowProofs!OptionsTypeCorrect` | `[]OTypeOK` |
| `OptionsFlowProofs!ZoneClosest` | `ZoneIsClosest` |

The assumptions: `max_retries` is a natural number, the first backoff is
positive and at most the cap, an IP address is always a network, `None` is no address, faults are of the
three classes. Those of the lifecycle and the dialogs say that
"nothing" is no value, and that account-owned tokens are genuine and genuine ones are tokens. Those of the paged reads say that Cloudflare has finitely many
objects, that a page holds at least one, that names are sequences of labels, and that lower case is lower case already and leaves no label empty that was not. Nothing bounds the number of
refreshes, texts, addresses or records, of coordinators, events, dialogs or entries, of pages or of objects.

**Overlap.** What a refresh does to its own state is proved for any number of overlapping refreshes. What is true of
the world is not true of overlapping ones (section 3), so these theorems have a hypothesis. For the list half it is
`[]Serial`, at most one refresh at a time, which restricts behaviours and not the model, and `LockSerializes` proves
it where interval refreshes take the debouncer's lock (`ScheduledLocks`): the `Lock…` theorems have no other
hypothesis. For the DNS half it is `Exclusive`, that one begins only while none is under way: `DnsSync` has no
triggers, and as it is part of a refresh the same lock gives it. (A predicate on states would not do there, because the half of a
refresh without an IP is over in the step in which it begins, and publishes its verdict while another is at work.)

What is left for refreshes that do overlap, under either lock and any number of them, are the two theorems `OverlapHarmless`: it takes a
change of the address for one to be the undoing of another. They begin at rest (for the list, with no operation outstanding for another address)
and last until others interfere; within, no step turns a list that matches into one that does not, or loses a record that needs no update,
and whoever publishes "in sync" is right at that moment. As `TriggersRefine` makes every behaviour of `RefreshTriggers` one of `RuleListSync`,
they hold of the triggers as well.

*The argument for the list half.* The inductive invariant `IInv` is `TypeOK`, `RefreshesUpheld` and
`ReportIsCoherent` together. `ReportIsCoherent` alone is not inductive: a refresh publishes verdicts it
reached before its DNS half, so the invariant has to say that the verdict it carries (`failed`) still
agrees with the items it will publish (`seen`), and that `_last_synced` was set
(`Upheld`). In turn, `attempt ∈ 1..MaxRetries` after a sleep needs `attempt < MaxRetries` while asleep, and
types of answers need that an operation exists exactly while it is polled for. A step
touches one refresh (`Touches`, `OneRefreshStep`), so that one lemma per shape of step (answered, goes on, goes
idle, list half ends) and one per action suffice. `_last_synced` is shared and the other refreshes rely on
it, which is sound because it is never reset (`lastSynced => lastSynced'`).

*The retry loops.* Each step of a refresh is shown to be a step of its loop or to leave it alone (`Follows`); the
lemmas `LoopEnters`, `LoopSleeps`, `LoopWakes`, `LoopLeaves` and `LoopStutters` are one per action of `RetryLoop`.
What the code does needs little more than the types of `IInv`: that the loop variables are zero outside the loop, and that
an attempt that fails is either followed by a sleep or the last.

*Truth and the world.* `Truthful` is inductive where refreshes do not overlap. `Current`: as long as nothing has
drifted, a refresh has the IP the source has now, the items in its answer are those of the list, the verdict it takes
into its DNS half is true of the list, and so is the report when nothing runs. `Told`: the notification of the list
half goes with the report, or, during the DNS half, with the verdict that waits there, since the notification was moved
before the DNS half and the report comes after it. `DnsTold`: that of the DNS half goes with the published verdict.
`SensorAgrees` puts the two together. Operations nobody polls for any more count as drift when they are applied, so that
`InSyncIsCurrent` says nothing about the time after; what they can do to a match is the subject of `LockKeepsMatch`.

*Overlap of one address.* What is read may be stale as soon as another refresh writes, so that `Current` is lost: an answer need not be the
list any more. `Agreed` keeps what matters of it: every refresh and every outstanding operation is for the source's address, and if an answer, or a verdict that
waits for the DNS half, says that the list matches, it does. Operations that are applied late then only ever establish the match. For the
zone the same is subtler, as Cloudflare may keep an address in another spelling: an update that is late replaces a record that was right meanwhile. `Harmless`
is the invariant: whoever is about to update a record either finds it still in need of it, or writes an address that is kept as it is.

*The triggers.* `TriggersChoose` shows that every step of `RefreshTriggers` is one of `RuleListSync` or stutters, so `IInv` and all
theorems carry over. `TTypeOK` is not inductive alone: `TInv` adds that before the entry is loaded the
debouncer has neither a timer nor a call, and that the two refreshes exclude each other where both lock.
`SafetyNetHolds` is inductive together with it: each refresh cancels the interval when it begins and a refresh that
ends sets it, unless it was rejected, in which case nothing else is promised; two overlapping ones may cancel each other's timer,
but the later to end sets it again. `MatchIsKept` does not rest on `Current`, which is lost as soon as somebody edits the list. It rests on `UpToDate`:
while the source has not changed since the last refresh began, every refresh at work under the lock has the address the source shows
(`UpToDateKept`). So the operation a refresh polls for brings that address, whatever happened to the list meanwhile, and one nobody polls for
either brings it too or is for another address, which is what `ListOverwritten` names.

*The argument for the DNS half.* `IInv` adds to the types that a refresh at work has an IP, that a sleeping one has
no answer, and that an update aims at a record that was listed. Every step is then shown to be `Skip`, `Start`,
`Succeed`, `Fail` or a stutter of `DnsOutcome`. For halves that do not overlap `Known` says what it knows of a zone nobody else edits: the
record in its answer is the record of that id, none was there if none was listed, and the record it updates still is. The code
never looks at the zone after a write; that the answer of the write is enough is what `InSyncStaysCurrent`
shows. `CreatesWhereNone` is the case `creating` of `Known`: a create whose answer was lost leads to another listing
before anything is created.

*The argument for the lifecycle.* `StoredTakesEffect` is about loaded entries, but token and options may be replaced
during the first refresh, so the inductive form (`Stored`) speaks of every coordinator from the beginning of its setup.
It rests on the part of `LTypeOK` that ties coordinator, timers and entry state together: only an unload or a failed first refresh takes a
coordinator away, and a refresh that outlived its own cannot touch the current one (`OrphanEnds`).
`NeverForgotten` is about moments when nothing runs at all; its inductive form (`Remembered`) speaks of the current coordinator only, since
former ones may run on, and of the state `error`, which Home Assistant never leaves by itself: the rejected token that leads there
opened a reauth dialog, and the dialog closes only for a reload.

*The argument for the dialogs.* `OneEntryPerList` is not inductive, because the check and the creation are two steps
apart. `LastAlone` bridges them: while a dialog is in its last step no other dialog there and no entry has its
account and list. It survives because a dialog enters that step only past `InProgress` and `Configured`, and because whoever creates the
entry was alone. `Fits` adds what a dialog has acquired on its way, above all a genuine token once it is past the
validation; that answers of class "ok" are only given to an accepted token is the lemma `Answers`, over all statuses and
bodies. `AllowedNotRefused` needs the other half of `Answers`: a token with the permission meets errors of every class
but `auth`. The `auth` errors of the verification do not reach the form (they lead to the second request), and an error only
appears with an answer (`RefusedHonestly`, one case per request).

*The argument for the paged reads.* The loops are over listings of any length, so the lemmas about them are inductions. They are
had without an induction theorem: a nonempty set of natural numbers has a least member (`LeastNat`), hence a
set that has 0, and `i + 1` with `i`, has all of `0..N` (`AllUpTo`), and each lemma gathers the numbers up to which its claim
holds in such a set. `OnlyOfConcat`, that the loop over a concatenation is the concatenation of the loops, and `OnlyToCollects`, what it
keeps, are the two that matter. The invariant of a read is `ReadSoFar`, in two halves, and one lemma (`PageKeeps`) serves both loops: a page leads to the next,
or the call returns, with everything (`told`) or with what lies before the next `Position`. For a list at rest, what has been collected is `Named`
of everything before `Position`, and a page continues that without gap or repetition (`PageAppended`). For a list that grows
that is false, since an insertion moves a read object into the next page, where it is read twice; what remains true is that every object which
was there from the beginning and lies before `Position` has been collected, because an insertion only moves objects towards pages still to be
read (`Inserted`). A removal moves them the other way, so that one may be missed: that is why both properties
exclude it. `PagesCover` says that the page numbers of `async_get_zones`, counted anew for every answer, end
where positions would. For `ZoneIsClosest`, `LongestExists` says that a longest owner exists among those found, and `KeptAreSeen` that
the zones which were there all the time are among them.

**Only model-checked.** Liveness, which takes fairness and ENABLED: `RefreshEnds`, `DnsHalfEnds`, `Converges`, `GoneIsQuiet`,
`ReloadServed`, `LifeConverges`, `CallEnds`. Every invariant and every action property of the runs that pass is also proved, some
under the hypotheses above. The findings of section 3 are counterexamples and need no proof.

## 5. Not modelled

* Wording: logs, messages, titles, comments of list items and records, timestamps.
* The client's headers, request bodies and the parsing of fields. Calls with one request are steps of the modules
  that make them, and in `RuleListSync` the read of a list is one step, though it may be several pages: `ApiClient` shows what that
  leaves out.
* In the dialogs, the numeric options, labels and descriptions; in the coordinator, comments of list items.
* `diagnostics.py`: a read-only dump with the token redacted. It has no state; that it reads `runtime_data`, which an entry
  does not always have, is in the list of hazards.
* `EntryLifecycle` has one attempt per refresh, one refresh per coordinator and no DNS half; retries, overlap and DNS
  are the subjects of the other modules.
* Durations. Timers fire in any order their state allows.

## 6. Plan

All components with a behaviour of their own are modelled, and every safety property the runs check is proved. What is left:

1. `Exclusive` as a theorem: `RefreshTriggers` on top of `DnsSync`, so that the lock discharges it as it does `Serial`.
2. What overlapping refreshes still promise when the address does change between them: a bound on how long a wrong "in sync" can stand.
3. `RuleListSync` with the page-by-page read of `ApiClient` in place of its one-step read.
