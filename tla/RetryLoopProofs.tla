---------------------------- MODULE RetryLoopProofs ----------------------------
(***************************************************************************)
(* Proofs about the retry loops, for every max_retries, every pair of      *)
(* backoff bounds and any number of loops at once.  Schedule is inductive  *)
(* together with TypeOK.                                                   *)
(***************************************************************************)
EXTENDS RetryLoop, TLAPS

LEMMA InitScheduled == Init => TypeOK /\ Schedule
BY DEF Init, TypeOK, Schedule, Phases

LEMMA NextScheduled == TypeOK /\ Schedule /\ [Next]_vars => TypeOK' /\ Schedule'
<1> SUFFICES ASSUME TypeOK, Schedule, [Next]_vars
             PROVE  TypeOK' /\ Schedule'
    OBVIOUS
<1> USE MaxRetriesAssumption, BackoffAssumption DEF TypeOK, Schedule, Phases
<1>1. ASSUME NEW r \in Runs, Enter(r) PROVE TypeOK' /\ Schedule'
    BY <1>1 DEF Enter
<1>2. ASSUME NEW r \in Runs, Sleep(r) PROVE TypeOK' /\ Schedule'
    BY <1>2 DEF Sleep
<1>3. ASSUME NEW r \in Runs, Wake(r) PROVE TypeOK' /\ Schedule'
  <2>1. Doubled(delay[r]) \in InitialBackoff..MaxBackoff
      BY <1>3 DEF Wake, Doubled
  <2>2. attempt[r] + 1 \in 1..MaxRetries
      BY <1>3 DEF Wake
  <2> QED BY <1>3, <2>1, <2>2 DEF Wake
<1>4. ASSUME NEW r \in Runs, Leave(r) PROVE TypeOK' /\ Schedule'
    BY <1>4 DEF Leave
<1>5. CASE UNCHANGED vars
    BY <1>5 DEF vars
<1> QED BY <1>1, <1>2, <1>3, <1>4, <1>5 DEF Next

\* Type correctness of the loops.
THEOREM TypeCorrect == Spec => []TypeOK
BY InitScheduled, NextScheduled, PTL DEF Spec

\* An operation is attempted at most max_retries times, only a failed attempt
\* that is not the last is followed by a sleep, and every sleep lies between
\* SYNC_INITIAL_BACKOFF and SYNC_MAX_BACKOFF (range, sleep and min of
\* _async_sync_with_retry and _async_sync_dns_with_retry).
THEOREM ScheduleHolds == Spec => []Schedule
BY InitScheduled, NextScheduled, PTL DEF Spec

================================================================================
