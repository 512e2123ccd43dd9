----------------------------- MODULE RetryQueue -----------------------------
(***************************************************************************)
(* The retry queue of packages/core/src/retry/retry_queue.ts, with the     *)
(* circuit breaker it may own and the persistence it may be given.         *)
(*                                                                         *)
(* Node runs one callback at a time, so an action is what happens between  *)
(* two awaits.  An execution is one activation of executeItem(); its pc is *)
(* the await it is suspended at:                                           *)
(*   backoff     the delay before a retry                                  *)
(*   task        item.task()                                               *)
(*   refused     the rejection of a call the open breaker did not admit    *)
(*   saveDone    persistence.save after the task succeeded                 *)
(*   saveRetry   persistence.save of the item put back to pending          *)
(*   saveFailed  persistence.save of the item given up                     *)
(*   settled     executeItem() has settled, its finally callback is queued *)
(* An item put back to pending is visible to processNext() while its save  *)
(* is still in flight, so one item can have several executions, told apart *)
(* by the attempt they were started with.                                  *)
(*                                                                         *)
(* The persistence is external and known only by its interface.  A save    *)
(* writes the status the item had when save() was called; saves of one     *)
(* item may land out of order unless OrderedSaves.  After a restart the    *)
(* owner calls recover() before it enqueues, and ids are not reused.       *)
(***************************************************************************)
EXTENDS BreakerState

CONSTANTS
    Ids,            \* item ids the clients enqueue
    Priority,       \* item.priority
    concurrency,
    maxRetries,     \* retryPolicy.maxRetries
    HasBreaker,     \* circuitBreakerOptions given
    SaveMayFail,    \* the persistence can reject
    OrderedSaves,   \* saves of one item land in the order they were issued
    MaxCrashes      \* bound on process restarts

ASSUME QueueAssumption ==
    /\ IsFiniteSet(Ids)
    /\ Priority \in [Ids -> Int]
    /\ concurrency \in Nat
    /\ maxRetries \in Nat
    /\ {HasBreaker, SaveMayFail, OrderedSaves} \subseteq BOOLEAN
    /\ MaxCrashes \in Nat

Finished == {"completed", "failed", "cancelled"}
Status == {"new", "pending", "running"} \cup Finished
Saving == {"saveDone", "saveRetry", "saveFailed"}
PC == {"backoff", "task", "refused", "settled"} \cup Saving
Execution == [id : Ids, try : Nat, pc : PC]

VARIABLES
    items,      \* ids of the objects in this.items
    arrival,    \* position in which an item was pushed
    status, attempt,
    running,
    execs,      \* live executions
    enqueuing,  \* enqueue() calls awaiting their save
    clearing,   \* deletes left of a clearCompleted() in progress
    store,      \* status last written by the persistence
    used,       \* ids ever enqueued
    up,         \* "up", or "down" between a crash and recover()
    crashes,
    runs,       \* history: task invocations in this life of the process
    acked,      \* history: ids whose "completed" was saved and announced
    rejected    \* history: ids whose enqueue() rejected in this life

memory == <<items, arrival, status, attempt, running, execs, enqueuing, clearing, runs, rejected>>
vars == <<memory, breaker, store, used, up, crashes, acked>>

Init ==
    /\ items = {}
    /\ arrival = [i \in Ids |-> 0]
    /\ status = [i \in Ids |-> "new"]
    /\ attempt = [i \in Ids |-> 0]
    /\ running = 0
    /\ execs = {}
    /\ enqueuing = {}
    /\ clearing = {}
    /\ runs = [i \in Ids |-> 0]
    /\ rejected = {}
    /\ BreakerInit
    /\ store = [i \in Ids |-> "none"]
    /\ used = {}
    /\ up = "up"
    /\ crashes = 0
    /\ acked = {}
-----------------------------------------------------------------------------
(* The order of this.items: sortByPriority() is a stable sort, so equal    *)
(* priorities stay in the order they were pushed.                          *)
Before(i, j, arr) ==
    \/ Priority[i] > Priority[j]
    \/ Priority[i] = Priority[j] /\ arr[i] < arr[j]

Pending(its, st) == {i \in its : st[i] = "pending"}

\* Mutant: the loop tests running <= concurrency.
StartsOneMore(S, its, st, arr, run) ==
    LET rest == Pending(its, st) \ S
    IN  /\ Cardinality(S) <= concurrency + 1 - run
        /\ rest # {} => Cardinality(S) = concurrency + 1 - run
        /\ \A i \in S, j \in rest : Before(i, j, arr)

(* S is what the while loop of processNext() starts: the first pending     *)
(* items, as many as running leaves room for.                              *)
Starts(S, its, st, arr, run) ==
    LET rest == Pending(its, st) \ S
    IN  /\ Cardinality(S) <= concurrency - run
        /\ rest # {} => Cardinality(S) = concurrency - run
        /\ \A i \in S, j \in rest : Before(i, j, arr)

\* The await at which an execution started now is first suspended.
FirstAwait(try) ==
    IF HasBreaker /\ ~Admits THEN "refused"
    ELSE IF try > 0 THEN "backoff" ELSE "task"

Launched(S, att) == {[id |-> i, try |-> att[i], pc |-> FirstAwait(att[i])] : i \in S}

\* Mutant: item.status = 'running' is missing.
Unmarked(st, S) == st

Marked(st, S) == [i \in Ids |-> IF i \in S THEN "running" ELSE st[i]]

(* processNext() on the given items and counters.  executeItem() runs up   *)
(* to its first await inside the loop, so the breaker's prologue and, on a *)
(* first attempt, the invocation of the task belong to the same step.      *)
ProcessNext(its, st, arr, att, run, exs, rs) ==
    \E S \in SUBSET Pending(its, st) :
        /\ Starts(S, its, st, arr, run)
        /\ status' = Marked(st, S)
        /\ running' = run + Cardinality(S)
        /\ execs' = exs \cup Launched(S, att)
        /\ runs' = [i \in Ids |->
                      IF i \in S /\ FirstAwait(att[i]) = "task" THEN rs[i] + 1 ELSE rs[i]]
        /\ IF HasBreaker /\ S # {} THEN Prologue ELSE UNCHANGED breaker

MoveTo(e, pc) == (execs \ {e}) \cup {[e EXCEPT !.pc = pc]}

\* Mutant: the budget is tested with <=.
CatchOneMore(e) ==
    LET n == attempt[e.id] + 1
    IN  /\ attempt' = [attempt EXCEPT ![e.id] = n]
        /\ status' = [status EXCEPT ![e.id] = IF n <= maxRetries THEN "pending" ELSE "failed"]
        /\ execs' = MoveTo(e, IF n <= maxRetries THEN "saveRetry" ELSE "saveFailed")
        /\ UNCHANGED <<items, arrival, running, enqueuing, clearing, runs, rejected>>

(* The catch block of executeItem(): one more attempt used, then back to   *)
(* pending or given up; either way the item is saved.                      *)
Catch(e) ==
    LET n == attempt[e.id] + 1
    IN  /\ attempt' = [attempt EXCEPT ![e.id] = n]
        /\ status' = [status EXCEPT ![e.id] = IF n < maxRetries THEN "pending" ELSE "failed"]
        /\ execs' = MoveTo(e, IF n < maxRetries THEN "saveRetry" ELSE "saveFailed")
        /\ UNCHANGED <<items, arrival, running, enqueuing, clearing, runs, rejected>>

(* What a save issued at pc writes.                                        *)
Written(pc) ==
    CASE pc = "saveDone" -> "completed"
      [] pc = "saveRetry" -> "pending"
      [] pc = "saveFailed" -> "failed"

(* A save of i issued by the execution with this try may land now.         *)
MayLand(i, try) ==
    OrderedSaves => /\ i \notin enqueuing
                    /\ \A f \in execs : f.id = i /\ f.pc \in Saving => f.try >= try
-----------------------------------------------------------------------------
(* enqueue(), up to its await and after it.                                *)

Enqueue(i) ==
    /\ up = "up" /\ i \notin used
    /\ used' = used \cup {i}
    /\ items' = items \cup {i}
    /\ arrival' = [arrival EXCEPT ![i] = Cardinality(used)]
    /\ status' = [status EXCEPT ![i] = "pending"]
    /\ enqueuing' = enqueuing \cup {i}
    /\ UNCHANGED <<attempt, running, execs, clearing, runs, rejected,
                   breaker, store, up, crashes, acked>>

EnqueueSaved(i) ==
    /\ i \in enqueuing
    /\ enqueuing' = enqueuing \ {i}
    /\ store' = [store EXCEPT ![i] = "pending"]
    /\ ProcessNext(items, status, arrival, attempt, running, execs, runs)
    /\ UNCHANGED <<items, arrival, attempt, clearing, rejected, used, up, crashes, acked>>

(* save() rejects, with or without having written: enqueue() rejects, but  *)
(* the item stays in this.items and processNext() is not called.           *)
EnqueueRejected(i) ==
    /\ SaveMayFail /\ i \in enqueuing
    /\ enqueuing' = enqueuing \ {i}
    /\ rejected' = rejected \cup {i}
    /\ \E landed \in BOOLEAN : store' = IF landed THEN [store EXCEPT ![i] = "pending"] ELSE store
    /\ UNCHANGED <<items, arrival, status, attempt, running, execs, clearing, runs,
                   breaker, used, up, crashes, acked>>

(* executeItem().                                                          *)

BackoffElapses(e) ==
    /\ e \in execs /\ e.pc = "backoff"
    /\ execs' = MoveTo(e, "task")
    /\ runs' = [runs EXCEPT ![e.id] = @ + 1]
    /\ UNCHANGED <<items, arrival, status, attempt, running, enqueuing, clearing, rejected,
                   breaker, store, used, up, crashes, acked>>

TaskSucceeds(e) ==
    /\ e \in execs /\ e.pc = "task"
    /\ IF HasBreaker THEN OnSuccess ELSE UNCHANGED breaker
    /\ status' = [status EXCEPT ![e.id] = "completed"]
    /\ execs' = MoveTo(e, "saveDone")
    /\ UNCHANGED <<items, arrival, attempt, running, enqueuing, clearing, runs, rejected,
                   store, used, up, crashes, acked>>

TaskFails(e) ==
    /\ e \in execs /\ e.pc = "task"
    /\ IF HasBreaker THEN OnFailure ELSE UNCHANGED breaker
    /\ Catch(e)
    /\ UNCHANGED <<store, used, up, crashes, acked>>

\* CircuitBreakerOpenError reaches the catch block like a failed task.
CallRefused(e) ==
    /\ e \in execs /\ e.pc = "refused"
    /\ Catch(e)
    /\ UNCHANGED <<breaker, store, used, up, crashes, acked>>

DoneSaved(e) ==
    /\ e \in execs /\ e.pc = "saveDone" /\ MayLand(e.id, e.try)
    /\ store' = [store EXCEPT ![e.id] = "completed"]
    /\ acked' = acked \cup {e.id}
    /\ execs' = MoveTo(e, "settled")
    /\ UNCHANGED <<items, arrival, status, attempt, running, enqueuing, clearing, runs, rejected,
                   breaker, used, up, crashes>>

RetrySaved(e) ==
    /\ e \in execs /\ e.pc = "saveRetry" /\ MayLand(e.id, e.try)
    /\ store' = [store EXCEPT ![e.id] = "pending"]
    /\ ProcessNext(items, status, arrival, attempt, running, MoveTo(e, "settled"), runs)
    /\ UNCHANGED <<items, arrival, attempt, enqueuing, clearing, rejected,
                   used, up, crashes, acked>>

\* Mutant: the item given up is not written.
FailedSavedNowhere(e) ==
    /\ e \in execs /\ e.pc = "saveFailed" /\ MayLand(e.id, e.try)
    /\ execs' = MoveTo(e, "settled")
    /\ UNCHANGED <<items, arrival, status, attempt, running, enqueuing, clearing, runs, rejected,
                   breaker, store, used, up, crashes, acked>>

FailedSaved(e) ==
    /\ e \in execs /\ e.pc = "saveFailed" /\ MayLand(e.id, e.try)
    /\ store' = [store EXCEPT ![e.id] = "failed"]
    /\ execs' = MoveTo(e, "settled")
    /\ UNCHANGED <<items, arrival, status, attempt, running, enqueuing, clearing, runs, rejected,
                   breaker, used, up, crashes, acked>>

(* A save inside executeItem() rejects.  The one after a success is inside *)
(* the try: its rejection is handled like a failure of the task.  The ones *)
(* in the catch block make executeItem() itself reject.                    *)
SaveRejected(e) ==
    /\ SaveMayFail
    /\ e \in execs /\ e.pc \in Saving /\ MayLand(e.id, e.try)
    /\ \E landed \in BOOLEAN :
          store' = IF landed THEN [store EXCEPT ![e.id] = Written(e.pc)] ELSE store
    /\ \/ /\ e.pc = "saveDone"
          /\ Catch(e)
       \/ /\ e.pc # "saveDone"
          /\ execs' = MoveTo(e, "settled")
          /\ UNCHANGED <<items, arrival, status, attempt, running, enqueuing, clearing, runs, rejected>>
    /\ UNCHANGED <<breaker, used, up, crashes, acked>>

\* Mutant: the finally callback does not call processNext().
FinallyNoNext(e) ==
    /\ e \in execs /\ e.pc = "settled"
    /\ running' = running - 1
    /\ execs' = execs \ {e}
    /\ UNCHANGED <<items, arrival, status, attempt, enqueuing, clearing, runs, rejected,
                   breaker, store, used, up, crashes, acked>>

\* The finally callback of processNext().
Finally(e) ==
    /\ e \in execs /\ e.pc = "settled"
    /\ ProcessNext(items, status, arrival, attempt, running - 1, execs \ {e}, runs)
    /\ UNCHANGED <<items, arrival, attempt, enqueuing, clearing, rejected,
                   store, used, up, crashes, acked>>

(* cancel(), cancelAll(), destroy(): nothing is written to the store.      *)

CancelSet(S) ==
    /\ status' = [i \in Ids |-> IF i \in S THEN "cancelled" ELSE status[i]]
    /\ UNCHANGED <<items, arrival, attempt, running, execs, enqueuing, clearing, runs, rejected,
                   store, used, up, crashes, acked>>

Cancel(i) ==
    /\ i \in Pending(items, status)
    /\ CancelSet({i})
    /\ UNCHANGED breaker

CancelAll ==
    /\ CancelSet(Pending(items, status))
    /\ UNCHANGED breaker

Destroy ==
    /\ CancelSet(Pending(items, status))
    /\ IF HasBreaker THEN StopMonitor ELSE UNCHANGED breaker

(* clearCompleted(): one awaited delete per finished item, then the filter.*)

ClearCompleted ==
    /\ clearing = {}
    /\ clearing' = {i \in items : status[i] \in Finished}
    /\ UNCHANGED <<items, arrival, status, attempt, running, execs, enqueuing, runs, rejected,
                   breaker, store, used, up, crashes, acked>>

ClearDeletes(i) ==
    /\ i \in clearing /\ \A j \in clearing \ {i} : Before(i, j, arrival)
    /\ OrderedSaves => i \notin enqueuing /\ \A f \in execs : f.id = i => f.pc \notin Saving
    /\ clearing' = clearing \ {i}
    /\ store' = [store EXCEPT ![i] = "none"]
    /\ items' = IF clearing' = {} THEN {j \in items : status[j] \notin Finished} ELSE items
    /\ UNCHANGED <<arrival, status, attempt, running, execs, enqueuing, runs, rejected,
                   breaker, used, up, crashes, acked>>

\* A rejected delete ends clearCompleted() before the filter.
ClearRejected ==
    /\ SaveMayFail /\ clearing # {}
    /\ clearing' = {}
    /\ UNCHANGED <<items, arrival, status, attempt, running, execs, enqueuing, runs, rejected,
                   breaker, store, used, up, crashes, acked>>

(* The process dies with everything but the store; saves in flight are     *)
(* lost (one that had landed is a landed save followed by the crash).      *)
Crash ==
    /\ up = "up" /\ crashes < MaxCrashes
    /\ up' = "down"
    /\ crashes' = crashes + 1
    /\ items' = {} /\ execs' = {} /\ enqueuing' = {} /\ clearing' = {} /\ rejected' = {}
    /\ arrival' = [i \in Ids |-> 0]
    /\ status' = [i \in Ids |-> "new"]
    /\ attempt' = [i \in Ids |-> 0]
    /\ runs' = [i \in Ids |-> 0]
    /\ running' = 0
    /\ state' = "closed" /\ failureCount' = 0 /\ successCount' = 0
    /\ openedAge' = None /\ monitorTimer' = "null"
    /\ UNCHANGED <<store, used, acked>>

\* Mutant: everything saved is pushed again.
RecoverableAll == {i \in Ids : store[i] # "none"}

\* The saved items recover() pushes again.
Recoverable == {i \in Ids : store[i] \in {"pending", "running"}}

(* recover() at start-up: every saved item that was pending or running is  *)
(* pushed, in the order load() returned them, with a fresh attempt count.  *)
Recover ==
    /\ up = "down"
    /\ up' = "up"
    /\ LET S == Recoverable
       IN  \E arr \in [S -> 0 .. Cardinality(S) - 1] :
             /\ \A i, j \in S : i # j => arr[i] # arr[j]
             /\ items' = S
             /\ arrival' = [i \in Ids |-> IF i \in S THEN arr[i] ELSE 0]
             /\ attempt' = [i \in Ids |-> 0]
             /\ ProcessNext(S, [i \in Ids |-> IF i \in S THEN "pending" ELSE "new"],
                            arrival', attempt', 0, {}, runs)
    /\ UNCHANGED <<enqueuing, clearing, rejected, store, used, crashes, acked>>

MonitorFires == HasBreaker /\ MonitorCallback /\ UNCHANGED <<memory, store, used, up, crashes, acked>>

Tick == HasBreaker /\ ClockTick /\ UNCHANGED <<memory, store, used, up, crashes, acked>>

Step(e) ==
    \/ BackoffElapses(e)
    \/ TaskSucceeds(e)
    \/ TaskFails(e)
    \/ CallRefused(e)
    \/ DoneSaved(e)
    \/ RetrySaved(e)
    \/ FailedSaved(e)
    \/ SaveRejected(e)
    \/ Finally(e)

Next ==
    \/ \E i \in Ids : Enqueue(i) \/ EnqueueSaved(i) \/ EnqueueRejected(i) \/ Cancel(i) \/ ClearDeletes(i)
    \/ \E e \in execs : Step(e)
    \/ CancelAll \/ Destroy \/ ClearCompleted \/ ClearRejected
    \/ Crash \/ Recover
    \/ MonitorFires \/ Tick

(* Timers fire, a task settles and the persistence answers; nothing makes  *)
(* a client call.  One condition per execution, because each is a promise  *)
(* chain of its own.                                                       *)
Fairness ==
    /\ \A i \in Ids : WF_vars(EnqueueSaved(i))
    /\ \A i \in Ids, t \in 0..maxRetries :
          WF_vars(\E pc \in PC : Step([id |-> i, try |-> t, pc |-> pc]))
    /\ WF_vars(MonitorFires) /\ WF_vars(Tick)

Spec == Init /\ [][Next]_vars

FairSpec == Spec /\ Fairness
-----------------------------------------------------------------------------
TypeOK ==
    /\ items \subseteq Ids
    /\ arrival \in [Ids -> Nat]
    /\ status \in [Ids -> Status]
    /\ attempt \in [Ids -> Nat]
    /\ running \in Nat
    /\ execs \subseteq Execution
    /\ enqueuing \subseteq Ids
    /\ clearing \subseteq Ids
    /\ store \in [Ids -> Status \cup {"none"}]
    /\ used \subseteq Ids
    /\ up \in {"up", "down"}
    /\ crashes \in 0..MaxCrashes
    /\ runs \in [Ids -> Nat]
    /\ acked \subseteq Ids
    /\ rejected \subseteq Ids
    /\ BreakerTypeOK

Working == {"backoff", "task", "refused"}

(* retry_queue.ts:84-95: running counts the live executions, each exactly  *)
(* once, through retries started before the previous execution settled,    *)
(* rejected saves and restarts; so never more than concurrency are live.   *)
ConcurrencyLimit ==
    /\ running = Cardinality(execs)
    /\ running <= concurrency

(* An item put back to pending is picked up while its previous execution   *)
(* still awaits its save; even so its task never runs twice at a time, and *)
(* a running status is always backed by an execution doing the work.       *)
OneWorkerPerItem ==
    /\ \A e, f \in execs : e.id = f.id /\ e.pc \in Working /\ f.pc \in Working => e = f
    /\ \A i \in Ids : status[i] = "running" <=> \E e \in execs : e.id = i /\ e.pc \in Working

(* Within one life of the process the task of an item is invoked at most   *)
(* maxRetries times (and once when maxRetries is 0), also when the breaker *)
(* refuses calls or the save of a success rejects.                         *)
AttemptBudget ==
    \A i \in Ids : runs[i] <= IF maxRetries = 0 THEN 1 ELSE maxRetries

(* The two bounds together: on what runs at a time and on what one item    *)
(* may cost (retry_queue.ts:84-142).                                       *)
LimitsKept == ConcurrencyLimit /\ AttemptBudget

(* With a place free, a pending item waits only for something that will    *)
(* call processNext(): the save of its own enqueue() or retry, or a queued *)
(* finally callback.  The exception is an item whose enqueue() rejected,   *)
(* which stays in the queue with nothing to start it.                      *)
NoLostWakeup ==
    running < concurrency =>
        \A i \in Pending(items, status) :
            \/ i \in enqueuing \cup rejected
            \/ \E e \in execs : e.pc = "settled" \/ (e.id = i /\ e.pc = "saveRetry")

(* Once the completion of an item was saved and announced its task is not  *)
(* run again, not even after a crash and recover(), provided the saves of  *)
(* one item land in the order they were issued.                            *)
DurableCompletion ==
    OrderedSaves => \A e \in execs : e.id \in acked => e.pc \notin Working

(* With no save in flight the store holds the outcome the queue reports,   *)
(* or nothing once clearCompleted() deleted it.                            *)
StoreAgrees ==
    OrderedSaves /\ ~SaveMayFail =>
        \A i \in items :
            /\ status[i] \in {"completed", "failed"}
            /\ i \notin enqueuing
            /\ \A e \in execs : e.id = i => e.pc \notin Saving
            => store[i] \in {status[i], "none"}

(* The queue implements RetryJobs while the process lives and saves do     *)
(* not reject: the statuses clients see and the attempt counts take only   *)
(* the steps RetryJobs allows, several starts at once included.            *)
Abstract == INSTANCE RetryJobs WITH Jobs <- Ids, batch <- 1, job <- status, tries <- attempt
ImplementsRetryJobs == Abstract!Spec

(* Every item a client enqueues is eventually completed, failed or         *)
(* cancelled, behind any number of others and any state of the breaker.    *)
EveryItemSettles == \A i \in Ids : i \in used ~> status[i] \in Finished

=============================================================================
