---------------------------- MODULE BreakerState ----------------------------
(***************************************************************************)
(* The state of the circuit breaker of                                     *)
(* packages/core/src/retry/circuit_breaker.ts and the steps its methods    *)
(* take on it.  CircuitBreaker composes them with arbitrary callers,       *)
(* RetryQueue with the retry queue that owns a breaker.                    *)
(*                                                                         *)
(* Time is kept as the age of openedAt: Date.now() - openedAt, cut off at  *)
(* timeoutMs because shouldAttemptReset() only compares it with timeoutMs. *)
(* The totals and the last...Time statistics feed getStats() only and are  *)
(* left out, as is halfOpenRequests, which the code only ever sets to 0.   *)
(***************************************************************************)
EXTENDS Integers, FiniteSets

CONSTANTS
    failureThreshold,
    successThreshold,
    timeoutMs,          \* in ticks of the clock
    MonitorOn           \* monitorIntervalMs > 0

ASSUME ThresholdsAssumption ==
    /\ failureThreshold \in Nat \ {0}
    /\ successThreshold \in Nat \ {0}
    /\ timeoutMs \in Nat
    /\ MonitorOn \in BOOLEAN

CircuitState == {"closed", "open", "half-open"}

\* openedAt === null
None == -1

VARIABLES
    state, failureCount, successCount,
    openedAge,      \* None, or how long ago openedAt was set
    monitorTimer    \* null, or armed by setInterval

breaker == <<state, failureCount, successCount, openedAge, monitorTimer>>

BreakerInit ==
    /\ state = "closed"
    /\ failureCount = 0
    /\ successCount = 0
    /\ openedAge = None
    /\ monitorTimer = "null"

ShouldAttemptReset == openedAge # None /\ openedAge >= timeoutMs

\* Mutant: opening forgets startMonitor().
TransitionToOpenNoMonitor ==
    /\ state' = "open"
    /\ failureCount' = 0
    /\ successCount' = 0
    /\ openedAge' = 0
    /\ UNCHANGED monitorTimer

TransitionToOpen ==
    /\ state' = "open"
    /\ failureCount' = 0
    /\ successCount' = 0
    /\ openedAge' = 0
    /\ monitorTimer' = IF MonitorOn THEN "armed" ELSE monitorTimer

\* Mutant: the monitor is not stopped.
TransitionToHalfOpenNoStop ==
    /\ state' = "half-open"
    /\ failureCount' = 0
    /\ successCount' = 0
    /\ UNCHANGED <<openedAge, monitorTimer>>

\* openedAt keeps its value.
TransitionToHalfOpen ==
    /\ state' = "half-open"
    /\ failureCount' = 0
    /\ successCount' = 0
    /\ monitorTimer' = "null"
    /\ UNCHANGED openedAge

Reset ==
    /\ state' = "closed"
    /\ failureCount' = 0
    /\ successCount' = 0
    /\ openedAge' = None
    /\ monitorTimer' = "null"

OnSuccess ==
    \/ /\ state = "half-open"
       /\ successCount + 1 >= successThreshold
       /\ Reset
    \/ /\ state = "half-open"
       /\ successCount + 1 < successThreshold
       /\ successCount' = successCount + 1
       /\ UNCHANGED <<state, failureCount, openedAge, monitorTimer>>
    \/ /\ state = "closed"
       /\ failureCount' = IF failureCount = 0 THEN 0 ELSE failureCount - 1
       /\ UNCHANGED <<state, successCount, openedAge, monitorTimer>>
    \/ /\ state = "open"
       /\ UNCHANGED breaker

\* Mutant: the threshold is reached one failure early.
OnFailureEarly ==
    IF state # "open" /\ failureCount + 2 >= failureThreshold
    THEN TransitionToOpen
    ELSE /\ failureCount' = failureCount + 1
         /\ UNCHANGED <<state, successCount, openedAge, monitorTimer>>

OnFailure ==
    IF \/ state = "half-open"
       \/ state = "closed" /\ failureCount + 1 >= failureThreshold
    THEN TransitionToOpen
    ELSE /\ failureCount' = failureCount + 1
         /\ UNCHANGED <<state, successCount, openedAge, monitorTimer>>

(* The prologue of execute(): Admits says whether the call goes through,   *)
(* Prologue what the check does to the breaker.                            *)
Admits == state # "open" \/ ShouldAttemptReset

Prologue ==
    IF state = "open" /\ ShouldAttemptReset
    THEN TransitionToHalfOpen
    ELSE UNCHANGED breaker

\* The interval callback of startMonitor().
MonitorCallback ==
    /\ monitorTimer = "armed"
    /\ state = "open" /\ ShouldAttemptReset
    /\ TransitionToHalfOpen

\* destroy()
StopMonitor ==
    /\ monitorTimer' = "null"
    /\ UNCHANGED <<state, failureCount, successCount, openedAge>>

\* Date.now() advances; past timeoutMs the age no longer matters.
ClockTick ==
    /\ openedAge # None /\ openedAge < timeoutMs
    /\ openedAge' = openedAge + 1
    /\ UNCHANGED <<state, failureCount, successCount, monitorTimer>>
-----------------------------------------------------------------------------
BreakerTypeOK ==
    /\ state \in CircuitState
    /\ failureCount \in Nat
    /\ successCount \in Nat
    /\ openedAge \in {None} \cup (0..timeoutMs)
    /\ monitorTimer \in {"null", "armed"}

(* No outcome, in whatever order outcomes arrive, leaves a counter at or   *)
(* over the threshold that should already have moved the breaker: closed   *)
(* means fewer than failureThreshold net failures, half-open fewer than    *)
(* successThreshold successes and no failure at all.                       *)
CountersFitState ==
    /\ state = "closed" => failureCount < failureThreshold /\ successCount = 0
    /\ state = "half-open" => successCount < successThreshold /\ failureCount = 0
    /\ state = "open" => successCount = 0

(* shouldAttemptReset() answers false for ever when openedAt is null, so   *)
(* an open breaker without a clock could never leave the open state.       *)
OpenHasClock == state # "closed" <=> openedAge # None

=============================================================================
