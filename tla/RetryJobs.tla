----------------------------- MODULE RetryJobs ------------------------------
(***************************************************************************)
(* What the two retry loops of the system promise: that of                 *)
(* packages/core/src/retry/retry_queue.ts while the process lives and its  *)
(* persistence does not reject, that of webhook_service.ts while the       *)
(* process lives and its calls do not overlap.  A job moves from waiting   *)
(* to active and back at most maxRetries times, at most concurrency jobs   *)
(* are active at a time, and an outcome is final.                          *)
(***************************************************************************)
EXTENDS Integers, FiniteSets

CONSTANTS
    Jobs, concurrency, maxRetries,
    batch   \* jobs submitted at a time

VARIABLES
    job,    \* where each job stands
    tries   \* attempts each job has used up

jobVars == <<job, tries>>

In(s) == {j \in Jobs : job[j] = s}

Init ==
    /\ job = [j \in Jobs |-> "new"]
    /\ tries = [j \in Jobs |-> 0]

Move(S, to) == job' = [j \in Jobs |-> IF j \in S THEN to ELSE job[j]]

Submit(S) ==
    /\ S \subseteq In("new") /\ Cardinality(S) <= batch
    /\ Move(S, "pending")
    /\ UNCHANGED tries

\* Several places can be filled at once.
Start(S) ==
    /\ S \subseteq In("pending")
    /\ Cardinality(In("running")) + Cardinality(S) <= concurrency
    /\ Move(S, "running")
    /\ UNCHANGED tries

Complete(j) ==
    /\ job[j] = "running"
    /\ Move({j}, "completed")
    /\ UNCHANGED tries

\* A used-up attempt sends the job back only while the budget lasts.
UseAttempt(j) ==
    /\ job[j] = "running"
    /\ tries' = [tries EXCEPT ![j] = @ + 1]
    /\ Move({j}, IF tries[j] + 1 < maxRetries THEN "pending" ELSE "failed")

CancelJobs(S) ==
    /\ S \subseteq In("pending")
    /\ Move(S, "cancelled")
    /\ UNCHANGED tries

Next ==
    \/ \E j \in Jobs : Complete(j) \/ UseAttempt(j)
    \/ \E S \in SUBSET Jobs : Submit(S) \/ Start(S) \/ CancelJobs(S)

Spec == Init /\ [][Next]_jobVars

=============================================================================
