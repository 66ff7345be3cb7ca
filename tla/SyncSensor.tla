------------------------------- MODULE SyncSensor -------------------------------
(***************************************************************************)
(* The sync-status sensor, which shows what the coordinator published, and *)
(* the notifications beside it: two ways the user learns of a failure.     *)
(***************************************************************************)
EXTENDS RuleListSync

\* Slip: the sensor looks at the Rule List only.
ListValue ==
  IF data = NoData THEN "unknown"
  ELSE IF data.inSync THEN "in_sync" ELSE "out_of_sync"

\* native_value: a DNS verdict counts only when there is one.
NativeValue ==
  IF data = NoData THEN "unknown"
  ELSE IF data.inSync /\ data.dnsInSync # "no" THEN "in_sync" ELSE "out_of_sync"

\* The state of a CoordinatorEntity: its value if the last refresh published one.
Shown == IF outcome = "success" THEN NativeValue ELSE "unavailable"

\* Whenever no refresh is under way, sensor and notifications tell the same story:
\* "in sync" and no notification is up, of the list or of the record; "out of sync"
\* with an address to sync, and one is, so the user can read why.  (The two are set at
\* different awaits, and a refresh that raises sets neither.)
SensorAgreesWithNotifications ==
  (\A r \in Refreshes : task[r].pc = "idle") =>
    /\ Shown = "in_sync" => notified = {}
    /\ Shown = "out_of_sync" /\ data.localIp # NoIP => notified # {}

================================================================================
