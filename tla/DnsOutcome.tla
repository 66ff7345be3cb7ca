------------------------------- MODULE DnsOutcome -------------------------------
(***************************************************************************)
(* What _async_reconcile_dns promises the update it is part of: it never   *)
(* raises.  Whatever happens in the zone, a refresh that begins its DNS    *)
(* half ends it with a verdict, and the notification that the DNS record   *)
(* could not be updated goes up with a failure and down with a success.    *)
(* RuleListSync relies on no more than that (its DnsReturns).              *)
(***************************************************************************)
CONSTANT Refreshes   \* the runs of _async_update_data that may overlap

VARIABLES
  active,    \* per refresh, whether its DNS half is under way
  verdict,   \* dns_in_sync as last published: None, True or False
  notified   \* the persistent notification is up

vars == <<active, verdict, notified>>

Init ==
  /\ active = [r \in Refreshes |-> FALSE]
  /\ verdict = "none"
  /\ notified = FALSE

\* There is no local IP: nothing is compared, and the notification stays.
Skip(r) ==
  /\ ~active[r]
  /\ verdict' = "none"
  /\ UNCHANGED <<active, notified>>

Start(r) ==
  /\ ~active[r]
  /\ active' = [active EXCEPT ![r] = TRUE]
  /\ UNCHANGED <<verdict, notified>>

Succeed(r) ==
  /\ active[r]
  /\ active' = [active EXCEPT ![r] = FALSE]
  /\ verdict' = "yes"
  /\ notified' = FALSE

\* With max_retries = 0 it fails without having begun anything.
Fail(r) ==
  /\ active' = [active EXCEPT ![r] = FALSE]
  /\ verdict' = "no"
  /\ notified' = TRUE

Next == \E r \in Refreshes : Skip(r) \/ Start(r) \/ Succeed(r) \/ Fail(r)

Spec == Init /\ [][Next]_vars

\* The published verdict and the notification agree, unless the last refresh had
\* no IP to compare the record with.
VerdictIsNotified ==
  /\ verdict = "yes" => ~notified
  /\ verdict = "no" => notified

================================================================================
