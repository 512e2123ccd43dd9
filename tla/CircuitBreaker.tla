--------------------------- MODULE CircuitBreaker ---------------------------
(***************************************************************************)
(* The circuit breaker of packages/core/src/retry/circuit_breaker.ts under *)
(* arbitrary callers.                                                      *)
(*                                                                         *)
(* A call goes through execute(): a synchronous prologue that admits or    *)
(* refuses it, an await of the protected function, and a synchronous       *)
(* onSuccess/onFailure when that promise settles.  Any number of calls can *)
(* be between the prologue and the outcome, so an outcome is applied in    *)
(* whatever state the breaker has reached by then, not in the state that   *)
(* admitted the call.                                                      *)
(***************************************************************************)
EXTENDS BreakerState

CONSTANTS
    Calls,              \* calls that can be between prologue and outcome
    MaxFailureCount     \* bound on failures reported by onTimeout()

ASSUME MaxFailureCountAssumption == MaxFailureCount \in Nat

VARIABLES
    lifetime,       \* live until the owner calls destroy()
    inflight,       \* calls awaiting the protected function
    failures        \* history: failures reported since the breaker last closed

cbVars == <<breaker, lifetime, inflight, failures>>

Init ==
    /\ BreakerInit
    /\ lifetime = "live"
    /\ inflight = {}
    /\ failures = 0

Execute(c) ==
    /\ c \notin inflight
    /\ Prologue
    /\ inflight' = IF Admits THEN inflight \cup {c} ELSE inflight
    /\ UNCHANGED <<lifetime, failures>>

CallSucceeds(c) ==
    /\ c \in inflight
    /\ inflight' = inflight \ {c}
    /\ OnSuccess
    /\ failures' = IF state # "closed" /\ state' = "closed" THEN 0 ELSE failures
    /\ UNCHANGED lifetime

CountFailure == failures' = IF failures < failureThreshold THEN failures + 1 ELSE failures

CallFails(c) ==
    /\ c \in inflight
    /\ inflight' = inflight \ {c}
    /\ OnFailure
    /\ CountFailure
    /\ UNCHANGED lifetime

\* A client that times a call out itself reports it through onTimeout().
OnTimeout ==
    /\ failureCount < MaxFailureCount
    /\ OnFailure
    /\ CountFailure
    /\ UNCHANGED <<lifetime, inflight>>

MonitorFires == MonitorCallback /\ UNCHANGED <<lifetime, inflight, failures>>

Destroy ==
    /\ StopMonitor
    /\ lifetime' = "destroyed"
    /\ UNCHANGED <<inflight, failures>>

Tick == ClockTick /\ UNCHANGED <<lifetime, inflight, failures>>

Next ==
    \/ \E c \in Calls : Execute(c) \/ CallSucceeds(c) \/ CallFails(c)
    \/ OnTimeout
    \/ MonitorFires
    \/ Destroy
    \/ Tick

(* Node runs an armed interval and time passes; nothing makes a caller     *)
(* call, and a protected function need not settle.                         *)
Fairness == WF_cbVars(Tick) /\ WF_cbVars(MonitorFires)

Spec == Init /\ [][Next]_cbVars /\ Fairness
-----------------------------------------------------------------------------
TypeOK ==
    /\ BreakerTypeOK
    /\ lifetime \in {"live", "destroyed"}
    /\ inflight \subseteq Calls
    /\ failures \in 0..failureThreshold

(* The monitor's interval exists exactly while the breaker is open (when   *)
(* one is configured): it is never left running after the breaker moved    *)
(* on, and re-opening arms it again.  destroy() takes it down; a late      *)
(* failure that re-opens a destroyed breaker may arm it once more.         *)
MonitorMatchesState ==
    /\ monitorTimer = "armed" => MonitorOn /\ state = "open"
    /\ MonitorOn /\ state = "open" /\ lifetime = "live" => monitorTimer = "armed"

(* However calls overlap, the state, the counters, the clock and the       *)
(* monitor agree with each other (circuit_breaker.ts:67-167).              *)
BreakerConsistent == TypeOK /\ CountersFitState /\ OpenHasClock /\ MonitorMatchesState

(* However late the outcomes of old calls come, the breaker leaves closed  *)
(* only after failureThreshold failures reported since it last closed.     *)
OpensOnEvidence ==
    [][state = "closed" /\ state' # "closed" => failures' >= failureThreshold]_cbVars

(* With a monitor configured an open breaker probes again by itself, even  *)
(* when no caller ever comes back.                                         *)
OpenEventuallyProbes == MonitorOn => (state = "open" ~> (state # "open" \/ lifetime = "destroyed"))

=============================================================================
