------------------------------- MODULE RetryLoop -------------------------------
(***************************************************************************)
(* The promise of the two retry loops of the coordinator                   *)
(* (_async_sync_with_retry and _async_sync_dns_with_retry, which share one *)
(* shape): an operation is attempted at most MaxRetries times, every failed *)
(* attempt but the last is followed by a sleep, and the sleeps grow        *)
(* exponentially from InitialBackoff up to MaxBackoff.                     *)
(*                                                                         *)
(* What an attempt does is left open: it ends in success, in an            *)
(* authentication error (never retried), or in a failure.  Several runs    *)
(* may be in their loops at once, and know nothing of each other.          *)
(***************************************************************************)
EXTENDS Backoff

CONSTANT Runs   \* the refreshes, each with a loop of its own

VARIABLES
  phase,    \* per run: outside the loop, inside an attempt, or asleep after a failed one
  attempt,  \* the loop variable of range(1, max_retries + 1)
  delay     \* seconds the next sleep takes

vars == <<phase, attempt, delay>>

Phases == {"outside", "trying", "sleeping"}

Init ==
  /\ phase = [r \in Runs |-> "outside"]
  /\ attempt = [r \in Runs |-> 0]
  /\ delay = [r \in Runs |-> 0]

\* With max_retries = 0 the range is empty and no attempt is ever made.
Enter(r) ==
  /\ phase[r] = "outside"
  /\ MaxRetries > 0
  /\ phase' = [phase EXCEPT ![r] = "trying"]
  /\ attempt' = [attempt EXCEPT ![r] = 1]
  /\ delay' = [delay EXCEPT ![r] = InitialBackoff]

\* The attempt failed and is not the last one.
Sleep(r) ==
  /\ phase[r] = "trying"
  /\ attempt[r] < MaxRetries
  /\ phase' = [phase EXCEPT ![r] = "sleeping"]
  /\ UNCHANGED <<attempt, delay>>

Wake(r) ==
  /\ phase[r] = "sleeping"
  /\ phase' = [phase EXCEPT ![r] = "trying"]
  /\ attempt' = [attempt EXCEPT ![r] = @ + 1]
  /\ delay' = [delay EXCEPT ![r] = Doubled(@)]

\* Success, an authentication error, or the last attempt failing.
Leave(r) ==
  /\ phase[r] = "trying"
  /\ phase' = [phase EXCEPT ![r] = "outside"]
  /\ attempt' = [attempt EXCEPT ![r] = 0]
  /\ delay' = [delay EXCEPT ![r] = 0]

Next == \E r \in Runs : Enter(r) \/ Sleep(r) \/ Wake(r) \/ Leave(r)

Spec == Init /\ [][Next]_vars

TypeOK ==
  /\ phase \in [Runs -> Phases]
  /\ attempt \in [Runs -> Nat]
  /\ delay \in [Runs -> Nat]

(***************************************************************************)
(* The schedule: inside the loop the attempt is one of 1..MaxRetries, a    *)
(* sleep only ever precedes another attempt, and the delay lies between    *)
(* the first and the longest backoff.                                      *)
(***************************************************************************)
Schedule ==
  \A r \in Runs :
    /\ phase[r] = "outside" => attempt[r] = 0 /\ delay[r] = 0
    /\ phase[r] # "outside" =>
         /\ attempt[r] \in 1..MaxRetries
         /\ delay[r] \in InitialBackoff..MaxBackoff
    /\ phase[r] = "sleeping" => attempt[r] < MaxRetries

================================================================================
