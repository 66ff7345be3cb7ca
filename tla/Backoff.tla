--------------------------------- MODULE Backoff ---------------------------------
(***************************************************************************)
(* How often the coordinator tries, and how long it sleeps in between.     *)
(***************************************************************************)
EXTENDS Naturals

CONSTANTS
  MaxRetries,      \* the option max_retries: 0..10 in the options form
  InitialBackoff,  \* SYNC_INITIAL_BACKOFF, seconds
  MaxBackoff       \* SYNC_MAX_BACKOFF, seconds

ASSUME MaxRetriesAssumption == MaxRetries \in Nat
ASSUME BackoffAssumption ==
  /\ InitialBackoff \in Nat \ {0}
  /\ MaxBackoff \in Nat
  /\ InitialBackoff <= MaxBackoff

\* min(delay * 2, SYNC_MAX_BACKOFF)
Doubled(d) == IF 2 * d <= MaxBackoff THEN 2 * d ELSE MaxBackoff

================================================================================
