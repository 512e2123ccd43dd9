-------------------------- MODULE RetryQueueProofs --------------------------
(***************************************************************************)
(* RetryQueue for any finite set of ids, any priorities, concurrency and   *)
(* budget, with and without a breaker, with saves that reject or land out  *)
(* of order, and over any number of restarts: running counts the live      *)
(* executions and respects concurrency, an item has one worker at a time,  *)
(* its attempts are bounded, and none is forgotten.  Where saves keep their*)
(* order a completion is final and the store agrees with the memory; where *)
(* they do not reject and nothing restarts, the queue implements RetryJobs.*)
(*                                                                         *)
(* The inductive invariant QInv is stated of values (CoreOf), because      *)
(* processNext() is called on values the calling step has just computed:   *)
(* the lemma Launch then serves every action that ends in processNext().   *)
(***************************************************************************)
EXTENDS RetryQueue, FiniteSetTheorems, TLAPS

Limit == IF maxRetries = 0 THEN 1 ELSE maxRetries

Types(st, att, run, exs, rs) ==
    /\ st \in [Ids -> Status]
    /\ att \in [Ids -> Nat]
    /\ run \in Nat
    /\ exs \subseteq Execution
    /\ rs \in [Ids -> Nat]

Counted(run, exs) ==
    /\ IsFiniteSet(exs)
    /\ run = Cardinality(exs)
    /\ run <= concurrency

\* The latest execution of an item is the one started with its attempt.
Latest(st, att, e) ==
    /\ e.try <= att[e.id]
    /\ e.try = att[e.id] => st[e.id] \in {"running", "completed"}
    /\ e.pc \in Working => e.try = att[e.id] /\ st[e.id] = "running"
    /\ e.pc = "saveDone" => e.try = att[e.id]
    /\ e.pc \notin Working /\ e.try = att[e.id] => st[e.id] = "completed"

Distinct(exs) == \A e, f \in exs : e.id = f.id /\ e.try = f.try => e = f

Worked(st, exs) ==
    \A i \in Ids : st[i] = "running" => \E e \in exs : e.id = i /\ e.pc \in Working

Budget(st, att, exs, rs) ==
    /\ \A i \in Ids :
          /\ att[i] <= Limit
          /\ st[i] = "new" => att[i] = 0
          /\ st[i] \in {"new", "pending", "running", "completed"} => att[i] < Limit
          /\ rs[i] <= att[i] + 1
          /\ st[i] \in {"new", "pending", "failed", "cancelled"} => rs[i] <= att[i]
    /\ \A e \in exs : e.pc \in {"backoff", "refused"} => rs[e.id] <= att[e.id]

CoreOf(st, att, run, exs, rs) ==
    /\ Types(st, att, run, exs, rs)
    /\ Counted(run, exs)
    /\ \A e \in exs : Latest(st, att, e)
    /\ Distinct(exs)
    /\ Worked(st, exs)
    /\ Budget(st, att, exs, rs)

(* Outside the values processNext() works on: which ids can be enqueued,   *)
(* saved or recovered, and that a dead process has an empty memory.        *)
Frame ==
    /\ items \subseteq Ids
    /\ enqueuing \subseteq Ids
    /\ used \subseteq Ids
    /\ store \in [Ids -> Status \cup {"none"}]
    /\ \A i \in Ids : i \notin used => status[i] = "new" /\ store[i] = "none"
    /\ \A i \in items : i \in used
    /\ \A i \in enqueuing : i \in used
    /\ \A e \in execs : e.id \in used
    /\ up \in {"up", "down"}
    /\ up = "down" => items = {} /\ enqueuing = {} /\ execs = {} /\ running = 0 /\ runs = [i \in Ids |-> 0]

QInv == CoreOf(status, attempt, running, execs, runs) /\ Frame

USE QueueAssumption DEF QueueAssumption
-----------------------------------------------------------------------------
(* Launching a set S adds Cardinality(S) executions, none of them there.   *)
LEMMA LaunchCount ==
  ASSUME NEW S \in SUBSET Ids, NEW att \in [Ids -> Nat], NEW exs, IsFiniteSet(exs),
         \A i \in S, e \in exs : e.id = i => e.try # att[i]
  PROVE  /\ IsFiniteSet(exs \cup Launched(S, att))
         /\ Cardinality(exs \cup Launched(S, att)) = Cardinality(exs) + Cardinality(S)
<1> DEFINE L == Launched(S, att)
           f == [i \in S |-> [id |-> i, try |-> att[i], pc |-> FirstAwait(att[i])]]
<1>1. IsFiniteSet(S)
  BY FS_Subset
<1>2. f \in Bijection(S, L)
  <2>1. f \in [S -> L]
    BY DEF Launched
  <2>2. \A i, j \in S : f[i] = f[j] => i = j
    <3> TAKE i, j \in S
    <3> HAVE f[i] = f[j]
    <3>1. f[i].id = i /\ f[j].id = j
      OBVIOUS
    <3> QED BY <3>1
  <2>3. \A x \in L : \E i \in S : f[i] = x
    BY DEF Launched
  <2> HIDE DEF f, L
  <2> QED
    BY <2>1, <2>2, <2>3 DEF Bijection, Injection, Surjection, IsInjective
<1>3. IsFiniteSet(L) /\ Cardinality(L) = Cardinality(S)
  <2>1. ExistsBijection(S, L)
    BY <1>2 DEF ExistsBijection
  <2> HIDE DEF L
  <2> QED
    BY <2>1, <1>1, FS_Bijection
<1>4. exs \cap L = {}
  BY DEF Launched
<1>5. Cardinality(exs \cap L) = 0
  BY <1>4, FS_EmptySet
<1> HIDE DEF L
<1>6. /\ IsFiniteSet(exs \cup L)
      /\ Cardinality(exs \cup L) = Cardinality(exs) + Cardinality(L) - Cardinality(exs \cap L)
  BY <1>3, FS_Union
<1>7. Cardinality(exs) \in Nat /\ Cardinality(L) \in Nat
  BY <1>3, FS_CardinalityType
<1> QED
  BY <1>3, <1>5, <1>6, <1>7 DEF L

(* processNext() preserves CoreOf, from whatever values it is called on.   *)
LEMMA Launch ==
  ASSUME NEW its \in SUBSET Ids, NEW st, NEW arr, NEW att, NEW run, NEW exs, NEW rs,
         CoreOf(st, att, run, exs, rs),
         ProcessNext(its, st, arr, att, run, exs, rs)
  PROVE  CoreOf(status', att, running', execs', runs')
<1>1. PICK S \in SUBSET Pending(its, st) :
        /\ Starts(S, its, st, arr, run)
        /\ status' = Marked(st, S)
        /\ running' = run + Cardinality(S)
        /\ execs' = exs \cup Launched(S, att)
        /\ runs' = [i \in Ids |->
                      IF i \in S /\ FirstAwait(att[i]) = "task" THEN rs[i] + 1 ELSE rs[i]]
  BY DEF ProcessNext
<1>2. S \in SUBSET Ids /\ \A i \in S : st[i] = "pending"
  BY DEF Pending
<1>3. \A t : FirstAwait(t) \in Working
  BY DEF FirstAwait, Working
<1>4. \A i \in S, e \in exs : e.id = i => e.try # att[i] /\ e.pc \notin Working
  BY <1>2 DEF CoreOf, Latest
<1>5. Types(status', att, running', execs', runs')
  <2>1. Cardinality(S) \in Nat
    BY <1>2, FS_Subset, FS_CardinalityType
  <2>2. Launched(S, att) \subseteq Execution
    BY <1>2, <1>3 DEF Launched, Execution, CoreOf, Types, Working, PC
  <2>3. status' \in [Ids -> Status]
    BY <1>1, <1>2 DEF Marked, CoreOf, Types, Status
  <2>4. runs' \in [Ids -> Nat]
    BY <1>1 DEF CoreOf, Types
  <2> QED
    BY <1>1, <2>1, <2>2, <2>3, <2>4 DEF CoreOf, Types
<1>6. Counted(running', execs')
  <2>1. /\ IsFiniteSet(execs')
        /\ Cardinality(execs') = Cardinality(exs) + Cardinality(S)
    BY <1>1, <1>2, <1>4, LaunchCount DEF CoreOf, Counted, Types
  <2>2. Cardinality(S) <= concurrency - run
    BY <1>1 DEF Starts
  <2>3. Cardinality(S) \in Nat
    BY <1>2, FS_Subset, FS_CardinalityType
  <2> QED
    BY <1>1, <2>1, <2>2, <2>3 DEF CoreOf, Counted, Types
<1>7. \A e \in execs' : Latest(status', att, e)
  <2> TAKE e \in execs'
  <2>1. CASE e \in exs
    <3>1. Latest(st, att, e) /\ e.id \in Ids
      BY <2>1 DEF CoreOf, Types, Execution
    <3>2. CASE e.id \in S
      BY <3>1, <3>2, <1>4, <2>1, <1>1, <1>2 DEF Latest, Marked, Working
    <3>3. CASE e.id \notin S
      BY <3>1, <3>3, <1>1 DEF Latest, Marked
    <3> QED
      BY <3>2, <3>3
  <2>2. CASE e \in Launched(S, att)
    BY <2>2, <1>1, <1>2, <1>3 DEF Launched, Latest, Marked, Working, CoreOf, Types
  <2> QED
    BY <2>1, <2>2, <1>1
<1>8. Distinct(execs')
  BY <1>1, <1>4 DEF CoreOf, Distinct, Launched
<1>9. Worked(status', execs')
  <2> SUFFICES ASSUME NEW i \in Ids, status'[i] = "running"
               PROVE  \E e \in execs' : e.id = i /\ e.pc \in Working
    BY DEF Worked
  <2>1. CASE i \in S
    <3> DEFINE e == [id |-> i, try |-> att[i], pc |-> FirstAwait(att[i])]
    <3>1. e \in execs' /\ e.id = i /\ e.pc \in Working
      BY <2>1, <1>1, <1>3 DEF Launched
    <3> QED
      BY <3>1
  <2>2. CASE i \notin S
    BY <2>2, <1>1 DEF Marked, CoreOf, Worked
  <2> QED
    BY <2>1, <2>2
<1>10. Budget(status', att, execs', runs')
  <2>1. ASSUME NEW i \in Ids
        PROVE  /\ att[i] <= Limit
               /\ status'[i] = "new" => att[i] = 0
               /\ status'[i] \in {"new", "pending", "running", "completed"} => att[i] < Limit
               /\ runs'[i] <= att[i] + 1
               /\ status'[i] \in {"new", "pending", "failed", "cancelled"} => runs'[i] <= att[i]
    <3> USE DEF CoreOf, Types, Budget, Marked
    <3>1. CASE i \in S
      BY <3>1, <1>1, <1>2
    <3>2. CASE i \notin S
      BY <3>2, <1>1, <1>2
    <3> QED
      BY <3>1, <3>2
  <2>2. ASSUME NEW e \in execs', e.pc \in {"backoff", "refused"}
        PROVE  runs'[e.id] <= att[e.id]
    <3>1. CASE e \in exs
      <4>1. e.id \in Ids /\ e.id \notin S
        BY <3>1, <2>2, <1>4 DEF CoreOf, Types, Execution, Working
      <4> QED
        BY <4>1, <3>1, <2>2, <1>1 DEF CoreOf, Budget
    <3>2. CASE e \in Launched(S, att)
      <4>1. PICK i \in S : e = [id |-> i, try |-> att[i], pc |-> FirstAwait(att[i])]
        BY <3>2 DEF Launched
      <4>2. FirstAwait(att[i]) # "task"
        BY <4>1, <2>2
      <4> QED
        BY <4>1, <4>2, <1>1, <1>2 DEF CoreOf, Budget
    <3> QED
      BY <3>1, <3>2, <1>1
  <2> QED
    BY <2>1, <2>2 DEF Budget
<1> QED
  BY <1>5, <1>6, <1>7, <1>8, <1>9, <1>10 DEF CoreOf
-----------------------------------------------------------------------------
Core == CoreOf(status, attempt, running, execs, runs)

(* Moving an execution to its next await keeps count and identity.         *)
LEMMA Moved ==
  ASSUME Core, NEW e \in execs, NEW pc \in PC
  PROVE  /\ MoveTo(e, pc) \subseteq Execution
         /\ Counted(running, MoveTo(e, pc))
         /\ Distinct(MoveTo(e, pc))
         /\ \A f \in MoveTo(e, pc) :
               \/ f.id = e.id /\ f.try = e.try /\ f.pc = pc
               \/ f \in execs /\ f # e /\ (f.id = e.id => f.try # e.try)
         /\ \A f \in execs \ {e} : f \in MoveTo(e, pc)
<1> DEFINE n == [e EXCEPT !.pc = pc]
<1>1. e \in Execution
  BY DEF Core, CoreOf, Types
<1>2. n \in Execution /\ n.id = e.id /\ n.try = e.try /\ n.pc = pc
  BY <1>1 DEF Execution
<1>3. \A f \in execs : f.id = e.id /\ f.try = e.try => f = e
  BY DEF Core, CoreOf, Distinct
<1>4. n \notin execs \ {e}
  BY <1>2, <1>3
<1>5. MoveTo(e, pc) = (execs \ {e}) \cup {n}
  BY DEF MoveTo
<1> HIDE DEF n
<1>6. Counted(running, MoveTo(e, pc))
  <2>1. IsFiniteSet(execs) /\ running = Cardinality(execs) /\ running <= concurrency
    BY DEF Core, CoreOf, Counted
  <2>2. IsFiniteSet(execs \ {e}) /\ Cardinality(execs \ {e}) = running - 1
    BY <2>1, FS_RemoveElement
  <2>3. /\ IsFiniteSet((execs \ {e}) \cup {n})
        /\ Cardinality((execs \ {e}) \cup {n}) = running - 1 + 1
    BY <2>2, <1>4, FS_AddElement
  <2>4. running \in Nat
    BY DEF Core, CoreOf, Types
  <2> QED
    BY <2>1, <2>3, <2>4, <1>5 DEF Counted
<1>7. MoveTo(e, pc) \subseteq Execution
  BY <1>2, <1>5 DEF Core, CoreOf, Types
<1>8. \A f \in MoveTo(e, pc) :
        \/ f.id = e.id /\ f.try = e.try /\ f.pc = pc
        \/ f \in execs /\ f # e /\ (f.id = e.id => f.try # e.try)
  BY <1>2, <1>3, <1>5
<1>9. Distinct(MoveTo(e, pc))
  BY <1>2, <1>3, <1>5 DEF Core, CoreOf, Distinct
<1> QED
  BY <1>5, <1>6, <1>7, <1>8, <1>9

(* A save that lands or rejects in the catch block, or lands after the     *)
(* task: only the execution moves.                                         *)
LEMMA Settles ==
  ASSUME Core, NEW e \in execs, e.pc \in Saving
  PROVE  CoreOf(status, attempt, running, MoveTo(e, "settled"), runs)
<1> DEFINE ex == MoveTo(e, "settled")
<1>1. /\ ex \subseteq Execution
      /\ Counted(running, ex)
      /\ Distinct(ex)
      /\ \A f \in ex :
            \/ f.id = e.id /\ f.try = e.try /\ f.pc = "settled"
            \/ f \in execs /\ f # e /\ (f.id = e.id => f.try # e.try)
      /\ \A f \in execs \ {e} : f \in ex
  BY Moved DEF PC
<1> HIDE DEF ex
<1>2. \A f \in ex : Latest(status, attempt, f)
  BY <1>1 DEF Core, CoreOf, Latest, Saving, Working
<1>3. Worked(status, ex)
  BY <1>1 DEF Core, CoreOf, Worked, Saving, Working
<1>4. Budget(status, attempt, ex, runs)
  BY <1>1 DEF Core, CoreOf, Budget
<1>5. Types(status, attempt, running, ex, runs)
  BY <1>1 DEF Core, CoreOf, Types
<1> QED
  BY <1>1, <1>2, <1>3, <1>4, <1>5 DEF CoreOf, ex

(* The catch block, entered by a failed task, a refused call or a rejected *)
(* save of a success.                                                      *)
LEMMA CatchCore ==
  ASSUME Core, NEW e \in execs, e.pc \in {"task", "refused", "saveDone"}, Catch(e)
  PROVE  Core'
<1> DEFINE i == e.id
           n == attempt[i] + 1
           p == IF n < maxRetries THEN "saveRetry" ELSE "saveFailed"
<1>1. e \in Execution /\ i \in Ids /\ Latest(status, attempt, e)
  BY DEF Core, CoreOf, Types, Execution
<1>2. e.try = attempt[i] /\ status[i] \in {"running", "completed"}
  BY <1>1 DEF Latest, Working
<1>3. /\ attempt' = [attempt EXCEPT ![i] = n]
      /\ status' = [status EXCEPT ![i] = IF n < maxRetries THEN "pending" ELSE "failed"]
      /\ execs' = MoveTo(e, p)
      /\ UNCHANGED <<running, runs>>
  BY DEF Catch
<1>4. p \in {"saveRetry", "saveFailed"}
  OBVIOUS
<1>5. /\ execs' \subseteq Execution
      /\ Counted(running, execs')
      /\ Distinct(execs')
      /\ \A f \in execs' :
            \/ f.id = i /\ f.try = e.try /\ f.pc = p
            \/ f \in execs /\ f # e /\ (f.id = i => f.try # e.try)
      /\ \A f \in execs \ {e} : f \in execs'
  BY <1>3, <1>4, Moved DEF PC, Saving
<1>6. attempt[i] \in Nat /\ attempt[i] < Limit /\ runs[i] <= attempt[i] + 1
      /\ runs[i] \in Nat /\ attempt \in [Ids -> Nat] /\ status \in [Ids -> Status]
  BY <1>1, <1>2 DEF Core, CoreOf, Types, Budget
<1>7. Types(status', attempt', running', execs', runs')
  <2>1. attempt' \in [Ids -> Nat]
    BY <1>1, <1>3, <1>6
  <2>2. status' \in [Ids -> Status]
    BY <1>1, <1>3, <1>6 DEF Status, Finished
  <2> QED
    BY <2>1, <2>2, <1>3, <1>5 DEF Core, CoreOf, Types
<1>8. \A f \in execs' : Latest(status', attempt', f)
  <2> TAKE f \in execs'
  <2>1. f \in Execution
    BY <1>5
  <2>2. CASE f.id = i /\ f.try = e.try /\ f.pc = p
    BY <2>2, <1>1, <1>2, <1>3, <1>4, <1>6 DEF Latest, Working
  <2>3. CASE f \in execs /\ f # e /\ (f.id = i => f.try # e.try)
    <3>1. Latest(status, attempt, f) /\ f.id \in Ids /\ f.try \in Nat
      BY <2>3, <2>1 DEF Core, CoreOf, Execution
    <3>2. CASE f.id = i
      <4>1. f.try < attempt[i] /\ f.pc \notin Working /\ f.pc # "saveDone"
        BY <3>1, <3>2, <2>3, <1>2, <1>6 DEF Latest
      <4> QED
        BY <4>1, <3>1, <3>2, <1>1, <1>3, <1>6 DEF Latest
    <3>3. CASE f.id # i
      BY <3>1, <3>3, <1>1, <1>3, <1>6 DEF Latest
    <3> QED
      BY <3>2, <3>3
  <2> QED
    BY <2>2, <2>3, <1>5
<1>9. Worked(status', execs')
  <2> SUFFICES ASSUME NEW j \in Ids, status'[j] = "running"
               PROVE  \E f \in execs' : f.id = j /\ f.pc \in Working
    BY DEF Worked
  <2>1. j # i /\ status[j] = "running"
    BY <1>1, <1>3, <1>6
  <2>2. PICK f \in execs : f.id = j /\ f.pc \in Working
    BY <2>1 DEF Core, CoreOf, Worked
  <2> QED
    BY <2>1, <2>2, <1>5
<1>10. Budget(status', attempt', execs', runs')
  <2>1. ASSUME NEW j \in Ids
        PROVE  /\ attempt'[j] <= Limit
               /\ status'[j] = "new" => attempt'[j] = 0
               /\ status'[j] \in {"new", "pending", "running", "completed"} => attempt'[j] < Limit
               /\ runs'[j] <= attempt'[j] + 1
               /\ status'[j] \in {"new", "pending", "failed", "cancelled"} => runs'[j] <= attempt'[j]
    <3>1. CASE j = i
      BY <3>1, <1>1, <1>3, <1>6 DEF Limit
    <3>2. CASE j # i
      BY <3>2, <1>1, <1>3, <1>6 DEF Core, CoreOf, Budget
    <3> QED
      BY <3>1, <3>2
  <2>2. ASSUME NEW f \in execs', f.pc \in {"backoff", "refused"}
        PROVE  runs'[f.id] <= attempt'[f.id]
    <3>1. f \in execs /\ f # e /\ (f.id = i => f.try # e.try) /\ f.id \in Ids
      BY <2>2, <1>4, <1>5 DEF Execution
    <3>2. f.id # i
      BY <3>1, <2>2, <1>2 DEF Core, CoreOf, Latest, Working
    <3> QED
      BY <3>1, <3>2, <2>2, <1>1, <1>3, <1>6 DEF Core, CoreOf, Budget
  <2> QED
    BY <2>1, <2>2 DEF Budget
<1>11. Counted(running', execs') /\ Distinct(execs')
  BY <1>3, <1>5
<1> QED
  BY <1>7, <1>8, <1>9, <1>10, <1>11 DEF Core, CoreOf
-----------------------------------------------------------------------------
(* processNext() touches only the items of the queue.                      *)
LEMMA LaunchFrame ==
  ASSUME NEW its \in SUBSET Ids, NEW st \in [Ids -> Status], NEW arr, NEW att, NEW run,
         NEW exs, NEW rs, ProcessNext(its, st, arr, att, run, exs, rs)
  PROVE  /\ \A i \in Ids \ its : status'[i] = st[i]
         /\ \A e \in execs' : e \in exs \/ e.id \in its
<1>1. PICK S \in SUBSET Pending(its, st) :
        status' = Marked(st, S) /\ execs' = exs \cup Launched(S, att)
  BY DEF ProcessNext
<1>2. S \subseteq its
  BY DEF Pending
<1> QED
  BY <1>1, <1>2 DEF Marked, Launched

(* enqueue() keeps the invariant.                                          *)
LEMMA EnqueueInv == ASSUME QInv, NEW i \in Ids, Enqueue(i) PROVE QInv'
<1>1. /\ i \notin used /\ status[i] = "new" /\ used' = used \cup {i}
      /\ items' = items \cup {i} /\ enqueuing' = enqueuing \cup {i}
      /\ status' = [status EXCEPT ![i] = "pending"]
      /\ UNCHANGED <<attempt, running, execs, runs, store, up>> /\ up = "up"
  BY DEF QInv, Frame, Enqueue
<1>2. status \in [Ids -> Status] /\ \A e \in execs : e.id # i
  BY <1>1 DEF QInv, CoreOf, Types, Frame
<1>3. Types(status', attempt', running', execs', runs')
  BY <1>1, <1>2 DEF QInv, CoreOf, Types, Status
<1>4. Counted(running', execs') /\ Distinct(execs')
  BY <1>1 DEF QInv, CoreOf
<1>5. \A e \in execs' : Latest(status', attempt', e)
  BY <1>1, <1>2 DEF QInv, CoreOf, Latest
<1>6. Worked(status', execs')
  BY <1>1, <1>2 DEF QInv, CoreOf, Worked
<1>7. Budget(status', attempt', execs', runs')
  BY <1>1, <1>2 DEF QInv, CoreOf, Budget
<1>8. Frame'
  BY <1>1, <1>2 DEF QInv, Frame
<1> QED
  BY <1>3, <1>4, <1>5, <1>6, <1>7, <1>8 DEF QInv, CoreOf

(* A step of a live process that enqueues nothing.                         *)
LEMMA FrameKept ==
  ASSUME QInv, up = "up", up' = up, used' = used, items' \subseteq items,
         enqueuing' \subseteq enqueuing,
         store' \in [Ids -> Status \cup {"none"}],
         \A i \in Ids \ used : status'[i] = status[i] /\ store'[i] = store[i],
         \A e \in execs' : e.id \in used
  PROVE  Frame'
BY DEF QInv, Frame

\* What a save may leave in the store.
LEMMA StoreTyped ==
  ASSUME QInv, NEW i \in used, NEW w \in Status \cup {"none"},
         store' = [store EXCEPT ![i] = w] \/ store' = store
  PROVE  /\ store' \in [Ids -> Status \cup {"none"}]
         /\ \A j \in Ids \ used : store'[j] = store[j]
BY DEF QInv, Frame

(* A step of a live process that ends in processNext(), having saved at    *)
(* most one item.                                                          *)
LEMMA LaunchStep ==
  ASSUME QInv, up = "up", NEW run, NEW exs,
         CoreOf(status, attempt, run, exs, runs), \A e \in exs : e.id \in used,
         ProcessNext(items, status, arrival, attempt, run, exs, runs),
         UNCHANGED <<items, attempt, used, up>>, enqueuing' \subseteq enqueuing,
         NEW i \in used, NEW w \in Status \cup {"none"},
         store' = [store EXCEPT ![i] = w] \/ store' = store
  PROVE  QInv'
<1>1. items \in SUBSET Ids /\ items \subseteq used /\ status \in [Ids -> Status]
  BY DEF QInv, Frame, CoreOf, Types
<1>2. CoreOf(status', attempt, running', execs', runs')
  BY <1>1, Launch
<1>3. /\ \A j \in Ids \ items : status'[j] = status[j]
      /\ \A e \in execs' : e \in exs \/ e.id \in items
  BY <1>1, LaunchFrame
<1>4. Frame'
  BY <1>1, <1>3, StoreTyped, FrameKept
<1> QED
  BY <1>2, <1>4 DEF QInv

(* The end of the save in enqueue() keeps the invariant.                   *)
LEMMA EnqueueSavedInv == ASSUME QInv, NEW i \in Ids, EnqueueSaved(i) PROVE QInv'
<1>1. /\ ProcessNext(items, status, arrival, attempt, running, execs, runs)
      /\ UNCHANGED <<items, attempt, used, up>> /\ enqueuing' \subseteq enqueuing
      /\ store' = [store EXCEPT ![i] = "pending"]
  BY DEF EnqueueSaved
<1>2. i \in used /\ up = "up" /\ \A e \in execs : e.id \in used
  BY DEF EnqueueSaved, QInv, Frame
<1>3. "pending" \in Status \cup {"none"}
  BY DEF Status
<1> QED
  BY <1>1, <1>2, <1>3, LaunchStep DEF QInv

(* A save that rejects in enqueue() keeps the invariant.                   *)
LEMMA EnqueueRejectedInv == ASSUME QInv, NEW i \in Ids, EnqueueRejected(i) PROVE QInv'
<1>1. /\ UNCHANGED <<items, status, attempt, running, execs, runs, used, up>>
      /\ enqueuing' \subseteq enqueuing
      /\ store' = [store EXCEPT ![i] = "pending"] \/ store' = store
  BY DEF EnqueueRejected
<1>2. i \in used /\ up = "up" /\ \A e \in execs : e.id \in used
  BY DEF EnqueueRejected, QInv, Frame
<1>3. "pending" \in Status \cup {"none"}
  BY DEF Status
<1>4. Frame'
  BY <1>1, <1>2, <1>3, StoreTyped, FrameKept
<1> QED
  BY <1>1, <1>4 DEF QInv

(* An item whose backoff has elapsed keeps the invariant.                  *)
LEMMA BackoffInv == ASSUME QInv, NEW e \in execs, BackoffElapses(e) PROVE QInv'
<1>1. /\ e.pc = "backoff" /\ e.id \in Ids /\ execs' = MoveTo(e, "task")
      /\ runs' = [runs EXCEPT ![e.id] = @ + 1]
      /\ UNCHANGED <<items, status, attempt, running, enqueuing, store, used, up>>
  BY DEF QInv, CoreOf, Types, Execution, BackoffElapses
<1>2. /\ execs' \subseteq Execution
      /\ Counted(running, execs')
      /\ Distinct(execs')
      /\ \A f \in execs' :
            \/ f.id = e.id /\ f.try = e.try /\ f.pc = "task"
            \/ f \in execs /\ f # e /\ (f.id = e.id => f.try # e.try)
      /\ \A f \in execs \ {e} : f \in execs'
  BY <1>1, Moved DEF QInv, Core, PC
<1>3. /\ Latest(status, attempt, e) /\ status[e.id] = "running" /\ e.try = attempt[e.id]
      /\ runs[e.id] <= attempt[e.id]
      /\ runs \in [Ids -> Nat] /\ attempt \in [Ids -> Nat] /\ status \in [Ids -> Status]
  BY <1>1 DEF QInv, CoreOf, Types, Latest, Working, Budget
<1>4. Types(status', attempt', running', execs', runs')
  BY <1>1, <1>2, <1>3 DEF QInv, CoreOf, Types
<1>5. Counted(running', execs') /\ Distinct(execs')
  BY <1>1, <1>2
<1>6. \A f \in execs' : Latest(status', attempt', f)
  BY <1>1, <1>2, <1>3 DEF QInv, CoreOf, Latest, Working
<1>7. Worked(status', execs')
  <2> SUFFICES ASSUME NEW j \in Ids, status[j] = "running"
               PROVE  \E f \in execs' : f.id = j /\ f.pc \in Working
    BY <1>1 DEF Worked
  <2>1. PICK f \in execs : f.id = j /\ f.pc \in Working
    BY DEF QInv, CoreOf, Worked
  <2>2. CASE f = e
    <3>1. [e EXCEPT !.pc = "task"] \in execs'
      BY <1>1 DEF MoveTo
    <3>2. [e EXCEPT !.pc = "task"].id = j /\ [e EXCEPT !.pc = "task"].pc = "task"
      BY <2>1, <2>2 DEF QInv, CoreOf, Types, Execution
    <3> QED
      BY <3>1, <3>2 DEF Working
  <2> QED
    BY <2>1, <2>2, <1>2
<1>8. Budget(status', attempt', execs', runs')
  <2>1. ASSUME NEW j \in Ids
        PROVE  /\ attempt'[j] <= Limit
               /\ status'[j] = "new" => attempt'[j] = 0
               /\ status'[j] \in {"new", "pending", "running", "completed"} => attempt'[j] < Limit
               /\ runs'[j] <= attempt'[j] + 1
               /\ status'[j] \in {"new", "pending", "failed", "cancelled"} => runs'[j] <= attempt'[j]
    BY <1>1, <1>3 DEF QInv, CoreOf, Budget
  <2>2. ASSUME NEW f \in execs', f.pc \in {"backoff", "refused"}
        PROVE  runs'[f.id] <= attempt'[f.id]
    <3>1. f \in execs /\ f.id # e.id /\ f.id \in Ids
      BY <2>2, <1>2, <1>3 DEF QInv, CoreOf, Latest, Working, Execution
    <3> QED
      BY <3>1, <2>2, <1>1, <1>3 DEF QInv, CoreOf, Budget
  <2> QED
    BY <2>1, <2>2 DEF Budget
<1>9. Frame'
  <2>1. \A f \in execs' : f.id \in used
    BY <1>2 DEF QInv, Frame
  <2>2. up = "up"
    BY DEF QInv, Frame
  <2> QED
    BY <2>1, <2>2, <1>1, FrameKept DEF QInv, Frame
<1> QED
  BY <1>4, <1>5, <1>6, <1>7, <1>8, <1>9 DEF QInv, CoreOf

(* A task that resolves keeps the invariant.                               *)
LEMMA TaskSucceedsInv == ASSUME QInv, NEW e \in execs, TaskSucceeds(e) PROVE QInv'
<1>1. /\ e.pc = "task" /\ e.id \in Ids /\ execs' = MoveTo(e, "saveDone")
      /\ status' = [status EXCEPT ![e.id] = "completed"]
      /\ UNCHANGED <<items, attempt, running, runs, enqueuing, store, used, up>>
  BY DEF QInv, CoreOf, Types, Execution, TaskSucceeds
<1>2. /\ execs' \subseteq Execution
      /\ Counted(running, execs')
      /\ Distinct(execs')
      /\ \A f \in execs' :
            \/ f.id = e.id /\ f.try = e.try /\ f.pc = "saveDone"
            \/ f \in execs /\ f # e /\ (f.id = e.id => f.try # e.try)
      /\ \A f \in execs \ {e} : f \in execs'
  BY <1>1, Moved DEF QInv, Core, PC, Saving
<1>3. /\ status[e.id] = "running" /\ e.try = attempt[e.id]
      /\ attempt \in [Ids -> Nat] /\ status \in [Ids -> Status]
  BY <1>1 DEF QInv, CoreOf, Types, Latest, Working
<1>4. Types(status', attempt', running', execs', runs')
  BY <1>1, <1>2, <1>3 DEF QInv, CoreOf, Types, Status, Finished
<1>5. Counted(running', execs') /\ Distinct(execs')
  BY <1>1, <1>2
<1>6. \A f \in execs' : Latest(status', attempt', f)
  <2> TAKE f \in execs'
  <2>1. CASE f.id = e.id /\ f.try = e.try /\ f.pc = "saveDone"
    BY <2>1, <1>1, <1>3 DEF Latest, Working
  <2>2. CASE f \in execs /\ f # e /\ (f.id = e.id => f.try # e.try)
    BY <2>2, <1>1, <1>2, <1>3 DEF QInv, CoreOf, Latest
  <2> QED
    BY <2>1, <2>2, <1>2
<1>7. Worked(status', execs')
  BY <1>1, <1>2, <1>3 DEF QInv, CoreOf, Worked
<1>8. Budget(status', attempt', execs', runs')
  <2>1. ASSUME NEW j \in Ids
        PROVE  /\ attempt'[j] <= Limit
               /\ status'[j] = "new" => attempt'[j] = 0
               /\ status'[j] \in {"new", "pending", "running", "completed"} => attempt'[j] < Limit
               /\ runs'[j] <= attempt'[j] + 1
               /\ status'[j] \in {"new", "pending", "failed", "cancelled"} => runs'[j] <= attempt'[j]
    BY <1>1, <1>3 DEF QInv, CoreOf, Budget
  <2>2. ASSUME NEW f \in execs', f.pc \in {"backoff", "refused"}
        PROVE  runs'[f.id] <= attempt'[f.id]
    BY <2>2, <1>1, <1>2 DEF QInv, CoreOf, Budget
  <2> QED
    BY <2>1, <2>2 DEF Budget
<1>9. Frame'
  BY <1>1, <1>2, FrameKept DEF QInv, Frame
<1> QED
  BY <1>4, <1>5, <1>6, <1>7, <1>8, <1>9 DEF QInv, CoreOf

(* The steps that enter the catch block.                                   *)
LEMMA CatchInv ==
  ASSUME QInv, NEW e \in execs, e.pc \in {"task", "refused", "saveDone"}, Catch(e),
         UNCHANGED <<used, up>>, NEW w \in Status,
         store' = [store EXCEPT ![e.id] = w] \/ store' = store
  PROVE  QInv'
<1>1. Core'
  BY CatchCore DEF QInv, Core
<1>2. up = "up" /\ e.id \in used /\ e.id \in Ids /\ used \subseteq Ids
  BY DEF QInv, Frame
<1>3. /\ UNCHANGED <<items, enqueuing>>
      /\ \A j \in Ids \ used : status'[j] = status[j]
  BY <1>2 DEF Catch, QInv, CoreOf, Types
<1>4. \A f \in execs' : f.id \in used
  <2>1. \E pc \in PC : execs' = MoveTo(e, pc)
    BY DEF Catch, PC, Saving
  <2>2. e \in Execution
    BY DEF QInv, CoreOf, Types
  <2> QED
    BY <2>1, <2>2, <1>2 DEF MoveTo, QInv, Frame, Execution
<1>5. Frame'
  BY <1>2, <1>3, <1>4, StoreTyped, FrameKept
<1> QED
  BY <1>1, <1>5 DEF QInv, Core

(* A task that rejects keeps the invariant.                                *)
LEMMA TaskFailsInv == ASSUME QInv, NEW e \in execs, TaskFails(e) PROVE QInv'
BY CatchInv DEF TaskFails, Status

(* A task that the breaker refuses keeps the invariant.                    *)
LEMMA CallRefusedInv == ASSUME QInv, NEW e \in execs, CallRefused(e) PROVE QInv'
BY CatchInv DEF CallRefused, Status

(* The steps that only settle an execution, having saved at most one item. *)
LEMMA SettleInv ==
  ASSUME QInv, NEW e \in execs, e.pc \in Saving, execs' = MoveTo(e, "settled"),
         UNCHANGED <<items, status, attempt, running, runs, enqueuing, used, up>>,
         NEW w \in Status, store' = [store EXCEPT ![e.id] = w] \/ store' = store
  PROVE  QInv'
<1>1. CoreOf(status', attempt', running', execs', runs')
  BY Settles DEF QInv, Core
<1>2. up = "up" /\ e.id \in used
  BY DEF QInv, Frame
<1>3. \A f \in execs' : f.id \in used
  BY <1>2 DEF MoveTo, QInv, Frame, CoreOf, Types, Execution
<1>4. Frame'
  BY <1>2, <1>3, StoreTyped, FrameKept
<1> QED
  BY <1>1, <1>4 DEF QInv

(* The save of a completion keeps the invariant.                           *)
LEMMA DoneSavedInv == ASSUME QInv, NEW e \in execs, DoneSaved(e) PROVE QInv'
BY SettleInv DEF DoneSaved, Saving, Status, Finished

(* The save of a failure keeps the invariant.                              *)
LEMMA FailedSavedInv == ASSUME QInv, NEW e \in execs, FailedSaved(e) PROVE QInv'
BY SettleInv DEF FailedSaved, Saving, Status, Finished

(* A save that rejects in an execution keeps the invariant.                *)
LEMMA SaveRejectedInv == ASSUME QInv, NEW e \in execs, SaveRejected(e) PROVE QInv'
<1>1. e.pc \in Saving /\ UNCHANGED <<used, up>>
  BY DEF SaveRejected
<1>2. PICK w \in Status : store' = [store EXCEPT ![e.id] = w] \/ store' = store
  <2>1. Written(e.pc) \in Status
    BY <1>1 DEF Written, Saving, Status, Finished
  <2>2. store' = [store EXCEPT ![e.id] = Written(e.pc)] \/ store' = store
    BY DEF SaveRejected
  <2> QED
    BY <2>1, <2>2
<1>3. CASE e.pc = "saveDone" /\ Catch(e)
  BY <1>1, <1>2, <1>3, CatchInv
<1>4. CASE /\ execs' = MoveTo(e, "settled")
           /\ UNCHANGED <<items, arrival, status, attempt, running, enqueuing, clearing, runs, rejected>>
  BY <1>1, <1>2, <1>4, SettleInv
<1> QED
  BY <1>3, <1>4 DEF SaveRejected

(* The save of a retry keeps the invariant.                                *)
LEMMA RetrySavedInv == ASSUME QInv, NEW e \in execs, RetrySaved(e) PROVE QInv'
<1>1. /\ e.pc \in Saving
      /\ ProcessNext(items, status, arrival, attempt, running, MoveTo(e, "settled"), runs)
      /\ UNCHANGED <<items, attempt, enqueuing, used, up>>
      /\ store' = [store EXCEPT ![e.id] = "pending"]
  BY DEF RetrySaved, Saving
<1>2. CoreOf(status, attempt, running, MoveTo(e, "settled"), runs)
  BY <1>1, Settles DEF QInv, Core
<1>3. up = "up" /\ e.id \in used
  BY DEF QInv, Frame
<1>4. \A f \in MoveTo(e, "settled") : f.id \in used
  BY <1>3 DEF MoveTo, QInv, Frame, CoreOf, Types, Execution
<1>5. "pending" \in Status \cup {"none"}
  BY DEF Status
<1> QED
  BY <1>1, <1>2, <1>3, <1>4, <1>5, LaunchStep

(* A settled execution leaves.                                             *)
LEMMA SettledLeaves ==
  ASSUME QInv, NEW e \in execs, e.pc = "settled"
  PROVE  CoreOf(status, attempt, running - 1, execs \ {e}, runs)
<1>1. Counted(running - 1, execs \ {e}) /\ running - 1 \in Nat
  <2>1. /\ IsFiniteSet(execs) /\ running = Cardinality(execs) /\ running <= concurrency
        /\ running \in Nat
    BY DEF QInv, CoreOf, Counted, Types
  <2>2. IsFiniteSet(execs \ {e}) /\ Cardinality(execs \ {e}) = running - 1
    BY <2>1, FS_RemoveElement
  <2>3. Cardinality(execs \ {e}) \in Nat
    BY <2>2, FS_CardinalityType
  <2> QED
    BY <2>1, <2>2, <2>3 DEF Counted
<1>2. Types(status, attempt, running - 1, execs \ {e}, runs)
  BY <1>1 DEF QInv, CoreOf, Types
<1>3. \A f \in execs \ {e} : Latest(status, attempt, f)
  BY DEF QInv, CoreOf
<1>4. Distinct(execs \ {e})
  BY DEF QInv, CoreOf, Distinct
<1>5. Worked(status, execs \ {e})
  BY DEF QInv, CoreOf, Worked, Working
<1>6. Budget(status, attempt, execs \ {e}, runs)
  BY DEF QInv, CoreOf, Budget
<1> QED
  BY <1>1, <1>2, <1>3, <1>4, <1>5, <1>6 DEF CoreOf

(* The finally block keeps the invariant: it gives back its place.         *)
LEMMA FinallyInv == ASSUME QInv, NEW e \in execs, Finally(e) PROVE QInv'
<1>1. /\ e.pc = "settled"
      /\ ProcessNext(items, status, arrival, attempt, running - 1, execs \ {e}, runs)
      /\ UNCHANGED <<items, attempt, enqueuing, store, used, up>>
  BY DEF Finally
<1>2. CoreOf(status, attempt, running - 1, execs \ {e}, runs)
  BY <1>1, SettledLeaves
<1>3. up = "up" /\ e.id \in used /\ \A f \in execs \ {e} : f.id \in used
  BY DEF QInv, Frame
<1>4. "none" \in Status \cup {"none"}
  OBVIOUS
<1> QED
  BY <1>1, <1>2, <1>3, <1>4, LaunchStep

(* cancel(), cancelAll() and destroy() touch pending items only.           *)
LEMMA CancelInv ==
  ASSUME QInv, NEW S \in SUBSET Pending(items, status), CancelSet(S)
  PROVE  QInv'
<1>1. /\ status' = [i \in Ids |-> IF i \in S THEN "cancelled" ELSE status[i]]
      /\ UNCHANGED <<items, attempt, running, execs, runs, enqueuing, store, used, up>>
      /\ S \subseteq items /\ \A i \in S : status[i] = "pending"
  BY DEF CancelSet, Pending
<1>2. Types(status', attempt', running', execs', runs')
  BY <1>1 DEF QInv, CoreOf, Types, Status, Finished
<1>3. Counted(running', execs') /\ Distinct(execs')
  BY <1>1 DEF QInv, CoreOf
<1>4. \A e \in execs' : Latest(status', attempt', e)
  <2>1. \A e \in execs : e.id \in Ids /\ Latest(status, attempt, e)
    BY DEF QInv, CoreOf, Types, Execution
  <2>2. \A e \in execs : e.id \in S => e.pc \notin Working /\ e.try # attempt[e.id]
    BY <1>1, <2>1 DEF Latest
  <2> QED
    BY <1>1, <2>1, <2>2 DEF Latest, Working
<1>5. Worked(status', execs')
  BY <1>1 DEF QInv, CoreOf, Worked
<1>6. Budget(status', attempt', execs', runs')
  BY <1>1 DEF QInv, CoreOf, Budget
<1>7. Frame'
  BY <1>1 DEF QInv, Frame
<1> QED
  BY <1>2, <1>3, <1>4, <1>5, <1>6, <1>7 DEF QInv, CoreOf

(* clear() keeps the invariant.                                            *)
LEMMA ClearInv ==
  ASSUME QInv, ClearCompleted \/ ClearRejected \/ \E i \in Ids : ClearDeletes(i)
  PROVE  QInv'
<1>1. /\ UNCHANGED <<status, attempt, running, execs, runs, enqueuing, used, up>>
      /\ items' \subseteq items
  BY DEF ClearCompleted, ClearRejected, ClearDeletes
<1>2. \/ store' = store
      \/ \E i \in Ids : store' = [store EXCEPT ![i] = "none"]
  BY DEF ClearCompleted, ClearRejected, ClearDeletes
<1>3. /\ store' \in [Ids -> Status \cup {"none"}]
      /\ \A j \in Ids \ used : store'[j] = store[j]
  BY <1>2 DEF QInv, Frame
<1>4. Frame'
  BY <1>1, <1>3 DEF QInv, Frame
<1> QED
  BY <1>1, <1>4 DEF QInv

(* What a process starts with satisfies CoreOf.                            *)
LEMMA CoreEmpty ==
  ASSUME NEW st \in [Ids -> {"new", "pending"}], NEW att, NEW rs,
         att = [i \in Ids |-> 0], rs = [i \in Ids |-> 0]
  PROVE  CoreOf(st, att, 0, {}, rs)
<1>1. Types(st, att, 0, {}, rs)
  BY DEF Types, Status
<1>2. Counted(0, {})
  BY FS_EmptySet DEF Counted
<1>3. Budget(st, att, {}, rs)
  BY DEF Budget, Limit
<1> QED
  BY <1>1, <1>2, <1>3 DEF CoreOf, Distinct, Worked

(* A crash keeps the invariant.                                            *)
LEMMA CrashInv == ASSUME QInv, Crash PROVE QInv'
<1>1. CoreOf(status', attempt', running', execs', runs')
  BY CoreEmpty DEF Crash
<1>2. Frame'
  BY DEF Crash, QInv, Frame
<1> QED
  BY <1>1, <1>2 DEF QInv

(* A restart keeps the invariant.                                          *)
LEMMA RecoverInv == ASSUME QInv, Recover PROVE QInv'
<1> DEFINE S == Recoverable
           st == [i \in Ids |-> IF i \in S THEN "pending" ELSE "new"]
<1>1. /\ up = "down" /\ up' = "up" /\ items' = S
      /\ UNCHANGED <<enqueuing, store, used>>
      /\ attempt' = [i \in Ids |-> 0]
      /\ ProcessNext(S, st, arrival', attempt', 0, {}, runs)
  BY DEF Recover
<1>2. runs = [i \in Ids |-> 0] /\ enqueuing = {}
  BY <1>1 DEF QInv, Frame
<1>3. S \in SUBSET Ids /\ S \subseteq used
  BY DEF Recoverable, QInv, Frame
<1>4. st \in [Ids -> {"new", "pending"}] /\ st \in [Ids -> Status]
  BY DEF Status
<1> HIDE DEF S, st
<1>5. CoreOf(st, attempt', 0, {}, runs)
  BY <1>1, <1>2, <1>4, CoreEmpty
<1>6. CoreOf(status', attempt', running', execs', runs')
  BY <1>1, <1>3, <1>5, Launch
<1>7. /\ \A i \in Ids \ S : status'[i] = st[i]
      /\ \A e \in execs' : e.id \in S
  <2>1. PICK T \in SUBSET Pending(S, st) :
          status' = Marked(st, T) /\ execs' = {} \cup Launched(T, attempt')
    BY <1>1 DEF ProcessNext
  <2>2. T \subseteq S
    BY DEF Pending
  <2> QED
    BY <2>1, <2>2 DEF Marked, Launched
<1>8. \A i \in Ids \ S : st[i] = "new"
  BY DEF st
<1>9. Frame'
  BY <1>1, <1>2, <1>3, <1>7, <1>8 DEF QInv, Frame
<1> QED
  BY <1>6, <1>9 DEF QInv

(* The empty queue is as the invariant says.                               *)
LEMMA InitQInv == Init => QInv
<1> SUFFICES ASSUME Init PROVE QInv
  OBVIOUS
<1>1. CoreOf(status, attempt, running, execs, runs)
  BY CoreEmpty DEF Init
<1>2. Frame
  BY DEF Init, Frame
<1> QED
  BY <1>1, <1>2 DEF QInv

(* Every step keeps the invariant.                                         *)
LEMMA NextQInv == QInv /\ [Next]_vars => QInv'
<1> SUFFICES ASSUME QInv, [Next]_vars PROVE QInv'
  OBVIOUS
<1>1. ASSUME NEW i \in Ids, Enqueue(i) PROVE QInv'
  BY <1>1, EnqueueInv
<1>2. ASSUME NEW i \in Ids, EnqueueSaved(i) PROVE QInv'
  BY <1>2, EnqueueSavedInv
<1>3. ASSUME NEW i \in Ids, EnqueueRejected(i) PROVE QInv'
  BY <1>3, EnqueueRejectedInv
<1>4. ASSUME NEW i \in Ids, Cancel(i) PROVE QInv'
  BY <1>4, CancelInv DEF Cancel
<1>5. CASE CancelAll \/ Destroy
  BY <1>5, CancelInv DEF CancelAll, Destroy
<1>6. CASE ClearCompleted \/ ClearRejected \/ \E i \in Ids : ClearDeletes(i)
  BY <1>6, ClearInv
<1>7. ASSUME NEW e \in execs, Step(e) PROVE QInv'
  BY <1>7, BackoffInv, TaskSucceedsInv, TaskFailsInv, CallRefusedInv, DoneSavedInv,
     RetrySavedInv, FailedSavedInv, SaveRejectedInv, FinallyInv DEF Step
<1>8. CASE Crash
  BY <1>8, CrashInv
<1>9. CASE Recover
  BY <1>9, RecoverInv
<1>10. CASE MonitorFires \/ Tick \/ UNCHANGED vars
  <2>1. UNCHANGED <<items, enqueuing, used, store, status, attempt, running, execs, runs, up>>
    BY <1>10 DEF MonitorFires, Tick, memory, vars
  <2> QED
    BY <2>1 DEF QInv, Frame
<1> QED
  BY <1>1, <1>2, <1>3, <1>4, <1>5, <1>6, <1>7, <1>8, <1>9, <1>10 DEF Next
-----------------------------------------------------------------------------
(* The inductive invariant of the queue (core/src/retry/retry_queue.ts).   *)
THEOREM QueueInvariant == Spec => []QInv
BY InitQInv, NextQInv, PTL DEF Spec

(* retry_queue.ts:84-95: for any configuration and any number of restarts, *)
(* running is the number of live executions and never above concurrency.   *)
THEOREM QueueConcurrency == Spec => []ConcurrencyLimit
<1>1. QInv => ConcurrencyLimit
  BY DEF QInv, CoreOf, Counted, ConcurrencyLimit
<1> QED
  BY <1>1, QueueInvariant, PTL

(* retry_queue.ts:133-135: although a retry starts before the execution    *)
(* that asked for it has settled, an item has one worker at a time, and    *)
(* a running status is never left without one.                             *)
THEOREM QueueOneWorker == Spec => []OneWorkerPerItem
<1>1. QInv => OneWorkerPerItem
  <2> SUFFICES ASSUME QInv PROVE OneWorkerPerItem
    OBVIOUS
  <2>1. \A e \in execs : e.id \in Ids /\ (e.pc \in Working => e.try = attempt[e.id] /\ status[e.id] = "running")
    BY DEF QInv, CoreOf, Types, Execution, Latest
  <2>2. \A e, f \in execs : e.id = f.id /\ e.pc \in Working /\ f.pc \in Working => e = f
    BY <2>1 DEF QInv, CoreOf, Distinct
  <2>3. \A i \in Ids : status[i] = "running" <=> \E e \in execs : e.id = i /\ e.pc \in Working
    BY <2>1 DEF QInv, CoreOf, Worked
  <2> QED
    BY <2>2, <2>3 DEF OneWorkerPerItem
<1> QED
  BY <1>1, QueueInvariant, PTL

(* retry_policy.ts:52-57, retry_queue.ts:101-143: between two restarts the *)
(* task of an item is invoked at most maxRetries times, or once when that  *)
(* is 0, whatever the breaker refuses and whichever saves reject.          *)
THEOREM QueueAttemptBudget == Spec => []AttemptBudget
<1>1. QInv => AttemptBudget
  <2> SUFFICES ASSUME QInv, NEW i \in Ids PROVE runs[i] <= Limit
    BY DEF AttemptBudget, Limit
  <2>1. /\ attempt[i] \in Nat /\ runs[i] \in Nat /\ Limit \in Nat
        /\ status[i] \in {"new", "pending", "failed", "cancelled", "running", "completed"}
    BY DEF QInv, CoreOf, Types, Limit, Status, Finished
  <2>2. /\ attempt[i] <= Limit /\ runs[i] <= attempt[i] + 1
        /\ status[i] \in {"running", "completed"} => attempt[i] < Limit
        /\ status[i] \in {"new", "pending", "failed", "cancelled"} => runs[i] <= attempt[i]
    BY DEF QInv, CoreOf, Budget
  <2> QED
    BY <2>1, <2>2
<1> QED
  BY <1>1, QueueInvariant, PTL

(* Both bounds of the queue at once (retry_queue.ts:84-142).               *)
THEOREM QueueLimits == Spec => []LimitsKept
<1>1. ConcurrencyLimit /\ AttemptBudget => LimitsKept
  BY DEF LimitsKept
<1> QED
  BY <1>1, QueueConcurrency, QueueAttemptBudget, PTL

-----------------------------------------------------------------------------
(* The refinement of RetryJobs, in a process that does not die and whose   *)
(* saves do not reject.                                                    *)
LEMMA AbstractCardinality == \A S : Abstract!Cardinality(S) = Cardinality(S)
  BY DEF Abstract!Cardinality, Cardinality

(* Every item that is running has a live execution of its own.             *)
LEMMA RunningBacked ==
  ASSUME NEW att, NEW run, NEW exs, NEW rs, CoreOf(status, att, run, exs, rs)
  PROVE  /\ Cardinality(Abstract!In("running")) \in Nat
         /\ Cardinality(Abstract!In("running")) <= run
<1> DEFINE R == Abstract!In("running")
           f == [i \in R |-> CHOOSE e \in exs : e.id = i /\ e.pc \in Working]
<1>1. \A i \in R : f[i] \in exs /\ f[i].id = i
  BY DEF CoreOf, Worked, Abstract!In
<1>2. f \in Injection(R, exs)
  <2>1. f \in [R -> exs]
    BY <1>1
  <2> HIDE DEF f, R
  <2> QED
    BY <1>1, <2>1 DEF Injection, IsInjective
<1> HIDE DEF f
<1>3. IsFiniteSet(exs) /\ run = Cardinality(exs)
  BY DEF CoreOf, Counted
<1>4. IsFiniteSet(R) /\ Cardinality(R) <= Cardinality(exs)
  BY <1>2, <1>3, FS_Injection
<1>5. Cardinality(R) \in Nat
  BY <1>4, FS_CardinalityType
<1> QED
  BY <1>3, <1>4, <1>5

(* What processNext() launches is a Start of RetryJobs.                    *)
LEMMA LaunchRefines ==
  ASSUME NEW its \in SUBSET Ids, NEW arr, NEW run, NEW exs, NEW rs,
         CoreOf(status, attempt, run, exs, rs), UNCHANGED attempt,
         ProcessNext(its, status, arr, attempt, run, exs, rs)
  PROVE  Abstract!Next
<1>1. PICK S \in SUBSET Pending(its, status) :
        /\ Starts(S, its, status, arr, run)
        /\ status' = Marked(status, S)
  BY DEF ProcessNext
<1>2. S \in SUBSET Ids /\ S \subseteq Abstract!In("pending")
  BY <1>1 DEF Pending, Abstract!In
<1>3. Cardinality(S) \in Nat /\ Cardinality(S) <= concurrency - run
  BY <1>1, <1>2, FS_Subset, FS_CardinalityType DEF Starts
<1>4. Cardinality(Abstract!In("running")) + Cardinality(S) <= concurrency
  BY <1>3, RunningBacked DEF CoreOf, Types
<1>5. Abstract!Move(S, "running")
  BY <1>1 DEF Marked, Abstract!Move
<1>6. Abstract!Start(S)
  BY <1>2, <1>4, <1>5, AbstractCardinality DEF Abstract!Start
<1> QED
  BY <1>2, <1>6 DEF Abstract!Next

(* The catch block uses up an attempt.                                     *)
LEMMA CatchRefines ==
  ASSUME QInv, NEW e \in execs, e.pc \in {"task", "refused"}, Catch(e)
  PROVE  Abstract!Next
<1>1. e.id \in Ids /\ status[e.id] = "running"
  BY DEF QInv, CoreOf, Types, Execution, Latest, Working
<1>2. /\ attempt' = [attempt EXCEPT ![e.id] = @ + 1]
      /\ status' = [status EXCEPT ![e.id] = IF attempt[e.id] + 1 < maxRetries THEN "pending" ELSE "failed"]
  BY DEF Catch
<1>3. Abstract!UseAttempt(e.id)
  BY <1>1, <1>2 DEF QInv, CoreOf, Types, Abstract!UseAttempt, Abstract!Move
<1> QED
  BY <1>1, <1>3 DEF Abstract!Next

(* To cancel pending items is a step of RetryJobs.                         *)
LEMMA CancelRefines ==
  ASSUME QInv, NEW S \in SUBSET Pending(items, status), CancelSet(S)
  PROVE  Abstract!Next
<1>1. S \in SUBSET Ids /\ S \subseteq Abstract!In("pending")
  BY DEF Pending, Abstract!In, QInv, Frame
<1>2. Abstract!CancelJobs(S)
  BY <1>1 DEF CancelSet, Abstract!CancelJobs, Abstract!Move
<1> QED
  BY <1>1, <1>2 DEF Abstract!Next

\* While the process lives.
Alive == up = "up" /\ crashes = 0

(* A step of an execution is a step of RetryJobs or none.                  *)
LEMMA StepRefines ==
  ASSUME ~SaveMayFail, QInv, NEW e \in execs, Step(e)
  PROVE  [Abstract!Next]_<<status, attempt>>
<1>0. items \in SUBSET Ids /\ CoreOf(status, attempt, running, execs, runs)
  BY DEF QInv, Frame
<1>1. CASE BackoffElapses(e) \/ DoneSaved(e) \/ FailedSaved(e)
  BY <1>1 DEF BackoffElapses, DoneSaved, FailedSaved
<1>2. CASE TaskSucceeds(e)
  <2>1. e.id \in Ids /\ status[e.id] = "running"
    BY <1>2 DEF TaskSucceeds, QInv, CoreOf, Types, Execution, Latest, Working
  <2>2. Abstract!Complete(e.id)
    BY <1>2, <2>1 DEF TaskSucceeds, QInv, CoreOf, Types, Abstract!Complete, Abstract!Move
  <2> QED
    BY <2>1, <2>2 DEF Abstract!Next
<1>3. CASE TaskFails(e) \/ CallRefused(e)
  BY <1>3, CatchRefines DEF TaskFails, CallRefused
<1>4. CASE RetrySaved(e)
  <2>1. /\ e.pc \in Saving /\ UNCHANGED attempt
        /\ ProcessNext(items, status, arrival, attempt, running, MoveTo(e, "settled"), runs)
    BY <1>4 DEF RetrySaved, Saving
  <2>2. CoreOf(status, attempt, running, MoveTo(e, "settled"), runs)
    BY <2>1, Settles DEF QInv, Core
  <2> QED
    BY <1>0, <2>1, <2>2, LaunchRefines
<1>5. CASE SaveRejected(e)
  BY <1>5 DEF SaveRejected
<1>6. CASE Finally(e)
  <2>1. /\ e.pc = "settled" /\ UNCHANGED attempt
        /\ ProcessNext(items, status, arrival, attempt, running - 1, execs \ {e}, runs)
    BY <1>6 DEF Finally
  <2>2. CoreOf(status, attempt, running - 1, execs \ {e}, runs)
    BY <2>1, SettledLeaves
  <2> QED
    BY <1>0, <2>1, <2>2, LaunchRefines
<1> QED
  BY <1>1, <1>2, <1>3, <1>4, <1>5, <1>6 DEF Step

(* Every step of the queue is a step of RetryJobs or none, if saves do not *)
(* reject and nothing crashes.                                             *)
LEMMA NextRefines ==
  ASSUME ~SaveMayFail, MaxCrashes = 0, QInv, Alive, [Next]_vars
  PROVE  [Abstract!Next]_<<status, attempt>> /\ Alive'
<1>1. Alive'
  <2>1. ASSUME NEW e \in execs, Step(e) PROVE UNCHANGED <<up, crashes>>
    BY <2>1 DEF Step, BackoffElapses, TaskSucceeds, TaskFails, CallRefused, DoneSaved, RetrySaved,
       FailedSaved, SaveRejected, Finally
  <2>2. ASSUME NEW i \in Ids,
               Enqueue(i) \/ EnqueueSaved(i) \/ EnqueueRejected(i) \/ Cancel(i) \/ ClearDeletes(i)
        PROVE  UNCHANGED <<up, crashes>>
    BY <2>2 DEF Enqueue, EnqueueSaved, EnqueueRejected, Cancel, CancelSet, ClearDeletes
  <2>3. CASE CancelAll \/ Destroy \/ ClearCompleted \/ ClearRejected \/ MonitorFires \/ Tick \/ UNCHANGED vars
    BY <2>3 DEF Alive, CancelAll, Destroy, CancelSet, ClearCompleted, ClearRejected, MonitorFires, Tick, vars
  <2>4. ~Crash /\ ~Recover
    BY DEF Crash, Recover, Alive
  <2> QED
    BY <2>1, <2>2, <2>3, <2>4 DEF Next, Alive
<1>2. ASSUME NEW i \in Ids, Enqueue(i) PROVE Abstract!Next
  <2>1. status[i] = "new" /\ status' = [status EXCEPT ![i] = "pending"] /\ UNCHANGED attempt
    BY <1>2 DEF Enqueue, QInv, Frame
  <2>2. {i} \in SUBSET Ids /\ {i} \subseteq Abstract!In("new")
    BY <2>1 DEF Abstract!In
  <2>3. Abstract!Cardinality({i}) <= 1
    <3>1. Abstract!Cardinality({i}) = 1
      BY FS_Singleton, AbstractCardinality, Zenon
    <3> QED
      BY <3>1
  <2>4. Abstract!Move({i}, "pending")
    BY <2>1 DEF QInv, CoreOf, Types, Abstract!Move
  <2>5. Abstract!Submit({i})
    BY <2>1, <2>2, <2>3, <2>4 DEF Abstract!Submit
  <2> QED
    BY <2>2, <2>5 DEF Abstract!Next
<1>3. ASSUME NEW i \in Ids, EnqueueSaved(i) PROVE Abstract!Next
  BY <1>3, LaunchRefines DEF EnqueueSaved, QInv, Frame
<1>4. ASSUME NEW i \in Ids, Cancel(i) PROVE Abstract!Next
  BY <1>4, CancelRefines DEF Cancel
<1>5. CASE CancelAll \/ Destroy
  <2>1. CancelSet(Pending(items, status))
    BY <1>5 DEF CancelAll, Destroy
  <2> QED
    BY <1>1, <2>1, CancelRefines
<1>6. CASE ClearCompleted \/ ClearRejected \/ \E i \in Ids : ClearDeletes(i) \/ EnqueueRejected(i)
  BY <1>1, <1>6 DEF ClearCompleted, ClearRejected, ClearDeletes, EnqueueRejected
<1>7. ASSUME NEW e \in execs, Step(e) PROVE [Abstract!Next]_<<status, attempt>>
  BY <1>7, StepRefines
<1>8. CASE Crash \/ Recover
  BY <1>8 DEF Crash, Recover, Alive
<1>9. CASE MonitorFires \/ Tick \/ UNCHANGED vars
  BY <1>1, <1>9 DEF MonitorFires, Tick, memory, vars
<1> QED
  BY <1>1, <1>2, <1>3, <1>4, <1>5, <1>6, <1>7, <1>8, <1>9 DEF Next

(* While the process lives and saves do not reject, the statuses and the   *)
(* attempts of the items take only the steps of RetryJobs: with and without*)
(* a breaker, for any priorities and any order of the saves                *)
(* (retry_queue.ts:62-143).                                                *)
THEOREM QueueImplementsRetryJobs ==
  ASSUME ~SaveMayFail, MaxCrashes = 0
  PROVE  Spec => ImplementsRetryJobs
<1>1. Init => Abstract!Init /\ Alive
  BY DEF Init, Alive, Abstract!Init
<1>2. QInv /\ Alive /\ [Next]_vars => [Abstract!Next]_(Abstract!jobVars) /\ Alive'
  BY NextRefines DEF Abstract!jobVars
<1> QED
  BY <1>1, <1>2, QueueInvariant, PTL DEF Spec, ImplementsRetryJobs, Abstract!Spec

-----------------------------------------------------------------------------
(* What processNext() leaves: no room, or nothing that is pending.         *)
LEMMA LaunchFills ==
  ASSUME NEW its \in SUBSET Ids, NEW st, NEW arr, NEW att, NEW run \in Nat, NEW exs, NEW rs,
         ProcessNext(its, st, arr, att, run, exs, rs)
  PROVE  running' < concurrency => Pending(its, status') = {}
<1>1. PICK S \in SUBSET Pending(its, st) :
        /\ Starts(S, its, st, arr, run)
        /\ status' = Marked(st, S)
        /\ running' = run + Cardinality(S)
  BY DEF ProcessNext
<1>2. Pending(its, st) \ S # {} => running' = concurrency
  BY <1>1 DEF Starts
<1>3. Pending(its, status') = Pending(its, st) \ S
  BY <1>1 DEF Pending, Marked
<1> QED
  BY <1>2, <1>3

(* What it does to an item that is not pending: nothing.                   *)
LEMMA LaunchSpares ==
  ASSUME NEW its \in SUBSET Ids, NEW st, NEW arr, NEW att, NEW run, NEW exs, NEW rs,
         ProcessNext(its, st, arr, att, run, exs, rs),
         NEW i \in Ids, st[i] # "pending"
  PROVE  status'[i] = st[i] /\ exs \subseteq execs' /\ \A e \in execs' : e.id = i => e \in exs
<1>1. PICK S \in SUBSET Pending(its, st) : status' = Marked(st, S) /\ execs' = exs \cup Launched(S, att)
  BY DEF ProcessNext
<1>2. i \notin S
  BY DEF Pending
<1> QED
  BY <1>1, <1>2 DEF Marked, Launched

(* An execution that only moves on wakes nobody less than before.          *)
LEMMA WakeupMoved ==
  ASSUME NoLostWakeup, NEW e \in execs, e.pc \notin {"settled", "saveRetry"}, NEW pc \in PC,
         execs' = MoveTo(e, pc), UNCHANGED <<items, status, running, enqueuing, rejected>>
  PROVE  NoLostWakeup'
  BY DEF NoLostWakeup, Pending, MoveTo

(* An execution about to run its finally block will call processNext().    *)
LEMMA WakeupSettles ==
  ASSUME QInv, NEW e \in execs, execs' = MoveTo(e, "settled")
  PROVE  NoLostWakeup'
<1>1. [e EXCEPT !.pc = "settled"] \in execs' /\ e \in Execution
  BY DEF MoveTo, QInv, CoreOf, Types
<1> QED
  BY <1>1 DEF NoLostWakeup, Execution

(* No wakeup is lost in the catch block.                                   *)
LEMMA WakeupCatch ==
  ASSUME QInv, NoLostWakeup, NEW e \in execs, e.pc \in {"task", "refused", "saveDone"}, Catch(e)
  PROVE  NoLostWakeup'
<1>1. e \in Execution /\ status \in [Ids -> Status]
  BY DEF QInv, CoreOf, Types
<1> DEFINE pc == IF attempt[e.id] + 1 < maxRetries THEN "saveRetry" ELSE "saveFailed"
<1>2. /\ status' = [status EXCEPT ![e.id] = IF attempt[e.id] + 1 < maxRetries THEN "pending" ELSE "failed"]
      /\ execs' = MoveTo(e, pc)
      /\ UNCHANGED <<items, running, enqueuing, rejected>>
  BY DEF Catch
<1>3. \A f \in execs : f.pc \in {"settled", "saveRetry"} => f \in execs'
  BY <1>2 DEF MoveTo
<1>4. e.id \in Pending(items, status') => [e EXCEPT !.pc = "saveRetry"] \in execs'
  BY <1>1, <1>2 DEF MoveTo, Pending, Execution, QInv, Frame
<1>5. \A i \in Pending(items', status') : i # e.id => i \in Pending(items, status)
  BY <1>1, <1>2 DEF Pending, QInv, Frame
<1> SUFFICES ASSUME running' < concurrency, NEW i \in Pending(items', status')
             PROVE  \/ i \in enqueuing' \cup rejected'
                    \/ \E f \in execs' : f.pc = "settled" \/ (f.id = i /\ f.pc = "saveRetry")
  BY DEF NoLostWakeup
<1>6. CASE i = e.id
  <2>1. [e EXCEPT !.pc = "saveRetry"].id = i /\ [e EXCEPT !.pc = "saveRetry"].pc = "saveRetry"
    BY <1>1, <1>6 DEF Execution
  <2> QED
    BY <1>2, <1>4, <1>6, <2>1
<1>7. CASE i # e.id
  <2>1. \/ i \in enqueuing \cup rejected
        \/ \E f \in execs : f.pc = "settled" \/ (f.id = i /\ f.pc = "saveRetry")
    BY <1>2, <1>5, <1>7 DEF NoLostWakeup
  <2> QED
    BY <1>2, <1>3, <2>1
<1> QED
  BY <1>6, <1>7

(* Every step keeps that no wakeup is lost.                                *)
LEMMA WakeupKept == QInv /\ NoLostWakeup /\ [Next]_vars => NoLostWakeup'
<1> SUFFICES ASSUME QInv, NoLostWakeup, [Next]_vars PROVE NoLostWakeup'
  OBVIOUS
<1>0. items \in SUBSET Ids /\ running \in Nat
  BY DEF QInv, Frame, CoreOf, Types
<1>1. ASSUME NEW i \in Ids, Enqueue(i) PROVE NoLostWakeup'
  BY <1>1 DEF Enqueue, NoLostWakeup, Pending, QInv, CoreOf, Types
<1>2. ASSUME NEW i \in Ids, EnqueueSaved(i) PROVE NoLostWakeup'
  BY <1>0, <1>2, LaunchFills DEF EnqueueSaved, NoLostWakeup
<1>3. ASSUME NEW i \in Ids, EnqueueRejected(i) PROVE NoLostWakeup'
  BY <1>3 DEF EnqueueRejected, NoLostWakeup, Pending
<1>4. ASSUME NEW S \in SUBSET Pending(items, status), CancelSet(S) PROVE NoLostWakeup'
  BY <1>0, <1>4 DEF CancelSet, NoLostWakeup, Pending
<1>5. CASE (\E i \in Ids : Cancel(i)) \/ CancelAll \/ Destroy
  BY <1>4, <1>5 DEF Cancel, CancelAll, Destroy
<1>6. CASE ClearCompleted \/ ClearRejected \/ \E i \in Ids : ClearDeletes(i)
  <2>1. /\ UNCHANGED <<status, running, execs, enqueuing, rejected>>
        /\ items' \subseteq items
    BY <1>6 DEF ClearCompleted, ClearRejected, ClearDeletes
  <2> QED
    BY <2>1 DEF NoLostWakeup, Pending
<1>7. ASSUME NEW e \in execs, Step(e) PROVE NoLostWakeup'
  <2>1. CASE BackoffElapses(e)
    BY <2>1, WakeupMoved DEF BackoffElapses, PC
  <2>2. CASE TaskSucceeds(e)
    <3>1. /\ e.id \in Ids /\ status \in [Ids -> Status]
          /\ status' = [status EXCEPT ![e.id] = "completed"]
          /\ execs' = MoveTo(e, "saveDone") /\ e.pc = "task"
          /\ UNCHANGED <<items, running, enqueuing, rejected>>
      BY <2>2 DEF TaskSucceeds, QInv, CoreOf, Types, Execution
    <3>2. \A f \in execs : f.pc \in {"settled", "saveRetry"} => f \in execs'
      BY <3>1 DEF MoveTo
    <3>3. Pending(items', status') \subseteq Pending(items, status)
      BY <1>0, <3>1 DEF Pending
    <3> QED
      BY <3>1, <3>2, <3>3 DEF NoLostWakeup
  <2>3. CASE TaskFails(e) \/ CallRefused(e)
    BY <2>3, WakeupCatch DEF TaskFails, CallRefused
  <2>4. CASE DoneSaved(e) \/ FailedSaved(e)
    BY <2>4, WakeupSettles DEF DoneSaved, FailedSaved
  <2>5. CASE RetrySaved(e)
    BY <1>0, <2>5, LaunchFills DEF RetrySaved, NoLostWakeup
  <2>6. CASE SaveRejected(e)
    BY <2>6, WakeupCatch, WakeupSettles DEF SaveRejected
  <2>7. CASE Finally(e)
    <3>1. running - 1 \in Nat
      BY <2>7, SettledLeaves DEF Finally, CoreOf, Types
    <3>2. ProcessNext(items, status, arrival, attempt, running - 1, execs \ {e}, runs) /\ items' = items
      BY <2>7 DEF Finally
    <3> QED
      BY <1>0, <3>1, <3>2, LaunchFills DEF NoLostWakeup
  <2> QED
    BY <1>7, <2>1, <2>2, <2>3, <2>4, <2>5, <2>6, <2>7 DEF Step
<1>8. CASE Crash
  BY <1>8 DEF Crash, NoLostWakeup, Pending
<1>9. CASE Recover
  <2>1. /\ items' = Recoverable /\ Recoverable \in SUBSET Ids
        /\ ProcessNext(Recoverable, [i \in Ids |-> IF i \in Recoverable THEN "pending" ELSE "new"],
                       arrival', attempt', 0, {}, runs)
    BY <1>9 DEF Recover, Recoverable
  <2> QED
    BY <2>1, LaunchFills DEF NoLostWakeup
<1>10. CASE MonitorFires \/ Tick \/ UNCHANGED vars
  <2>1. UNCHANGED <<items, enqueuing, status, running, execs, rejected>>
    BY <1>10 DEF MonitorFires, Tick, memory, vars
  <2> QED
    BY <2>1 DEF NoLostWakeup, Pending
<1> QED
  BY <1>1, <1>2, <1>3, <1>5, <1>6, <1>7, <1>8, <1>9, <1>10 DEF Next

(* retry_queue.ts:94-98, :137-140: as long as there is room, whatever is   *)
(* pending has something that will call processNext() for it.              *)
THEOREM QueueNoLostWakeup == Spec => []NoLostWakeup
<1>1. Init => NoLostWakeup
  BY DEF Init, NoLostWakeup, Pending
<1> QED
  BY <1>1, WakeupKept, QueueInvariant, PTL DEF Spec

-----------------------------------------------------------------------------
(* The saves.  MayLand orders those of one item: the invariants say which  *)
(* saves of an item are still to come once it is completed or given up.    *)

\* The completion of i was saved: nothing is left to be written or started.
Sealed(i) ==
    /\ i \in used /\ i \notin enqueuing
    /\ store[i] \in {"completed", "none"}
    /\ status[i] \in {"completed", "new"}
    /\ \A e \in execs : e.id = i => e.pc = "settled"

SealInv == acked \subseteq Ids /\ (OrderedSaves => \A i \in acked : Sealed(i))

(* A completion that is saved stays one.                                   *)
LEMMA SealKept ==
  ASSUME QInv, NEW i \in Ids, Sealed(i), [Next]_vars
  PROVE  Sealed(i)'
<1>0. /\ items \in SUBSET Ids /\ execs \subseteq Execution
      /\ status \in [Ids -> Status] /\ store \in [Ids -> Status \cup {"none"}]
      /\ up = "down" => execs = {}
  BY DEF QInv, Frame, CoreOf, Types
<1>1. CASE \E j \in Ids : Enqueue(j) \/ EnqueueRejected(j)
  BY <1>0, <1>1 DEF Enqueue, EnqueueRejected, Sealed
<1>2. ASSUME NEW j \in Ids, EnqueueSaved(j) PROVE Sealed(i)'
  <2>1. j # i /\ ProcessNext(items, status, arrival, attempt, running, execs, runs)
    BY <1>2 DEF EnqueueSaved, Sealed
  <2>2. status'[i] = status[i] /\ \A e \in execs' : e.id = i => e \in execs
    BY <1>0, <2>1, LaunchSpares DEF Sealed
  <2> QED
    BY <1>0, <1>2, <2>1, <2>2 DEF EnqueueSaved, Sealed
<1>3. ASSUME NEW S \in SUBSET Pending(items, status), CancelSet(S) PROVE Sealed(i)'
  BY <1>3 DEF CancelSet, Sealed, Pending
<1>4. CASE (\E j \in Ids : Cancel(j)) \/ CancelAll \/ Destroy
  BY <1>3, <1>4 DEF Cancel, CancelAll, Destroy
<1>5. CASE ClearCompleted \/ ClearRejected \/ \E j \in Ids : ClearDeletes(j)
  BY <1>0, <1>5 DEF ClearCompleted, ClearRejected, ClearDeletes, Sealed
<1>6. ASSUME NEW e \in execs, Step(e) PROVE Sealed(i)'
  <2>1. e.id \in Ids /\ (e.id = i => e.pc = "settled")
    BY <1>0 DEF Sealed, Execution
  <2>2. CASE Finally(e)
    <3>1. /\ ProcessNext(items, status, arrival, attempt, running - 1, execs \ {e}, runs)
          /\ UNCHANGED <<enqueuing, store, used>>
      BY <2>2 DEF Finally
    <3>2. status'[i] = status[i] /\ \A f \in execs' : f.id = i => f \in execs
      BY <1>0, <3>1, LaunchSpares DEF Sealed
    <3> QED
      BY <3>1, <3>2 DEF Sealed
  <2>3. CASE RetrySaved(e)
    <3>1. /\ e.id # i
          /\ ProcessNext(items, status, arrival, attempt, running, MoveTo(e, "settled"), runs)
          /\ UNCHANGED <<enqueuing, used>> /\ store' = [store EXCEPT ![e.id] = "pending"]
      BY <2>1, <2>3 DEF RetrySaved
    <3>2. status'[i] = status[i] /\ \A f \in execs' : f.id = i => f \in MoveTo(e, "settled")
      BY <1>0, <3>1, LaunchSpares DEF Sealed
    <3> QED
      BY <1>0, <2>1, <3>1, <3>2 DEF Sealed, MoveTo, Execution
  <2>4. CASE ~Finally(e) /\ ~RetrySaved(e)
    <3>1. /\ e.id # i /\ UNCHANGED <<enqueuing, used>>
          /\ status'[i] = status[i] /\ store'[i] = store[i]
          /\ \E pc \in PC : execs' = MoveTo(e, pc)
      BY <1>0, <1>6, <2>1, <2>4 DEF Step, BackoffElapses, TaskSucceeds, TaskFails, CallRefused, Catch,
         DoneSaved, FailedSaved, SaveRejected, PC, Saving
    <3> QED
      BY <1>0, <3>1 DEF Sealed, MoveTo, Execution
  <2> QED
    BY <2>2, <2>3, <2>4
<1>7. CASE Crash
  BY <1>7 DEF Crash, Sealed
<1>8. CASE Recover
  <2> DEFINE st == [j \in Ids |-> IF j \in Recoverable THEN "pending" ELSE "new"]
  <2>1. /\ Recoverable \in SUBSET Ids /\ st[i] = "new"
        /\ ProcessNext(Recoverable, st, arrival', attempt', 0, {}, runs)
        /\ UNCHANGED <<enqueuing, store, used>>
    BY <1>8 DEF Recover, Recoverable, Sealed
  <2> HIDE DEF st
  <2>2. status'[i] = "new" /\ \A e \in execs' : e.id # i
    <3>1. PICK T \in SUBSET Pending(Recoverable, st) :
            status' = Marked(st, T) /\ execs' = {} \cup Launched(T, attempt')
      BY <2>1 DEF ProcessNext
    <3>2. i \notin T
      BY <2>1 DEF Pending
    <3> QED
      BY <2>1, <3>1, <3>2 DEF Marked, Launched
  <2> QED
    BY <2>1, <2>2 DEF Sealed
<1>9. CASE MonitorFires \/ Tick \/ UNCHANGED vars
  <2>1. UNCHANGED <<status, store, execs, enqueuing, used>>
    BY <1>9 DEF MonitorFires, Tick, memory, vars
  <2> QED
    BY <2>1 DEF Sealed
<1> QED
  BY <1>1, <1>2, <1>4, <1>5, <1>6, <1>7, <1>8, <1>9 DEF Next

(* A completion is saved where saves keep their order.                     *)
LEMMA SealMade ==
  ASSUME QInv, OrderedSaves, NEW e \in execs, DoneSaved(e)
  PROVE  Sealed(e.id)'
<1>1. /\ e.id \in Ids /\ e.id \in used /\ store \in [Ids -> Status \cup {"none"}]
      /\ Latest(status, attempt, e) /\ e.pc = "saveDone"
  BY DEF QInv, Frame, CoreOf, Types, Execution, DoneSaved
<1>2. e.try = attempt[e.id] /\ status[e.id] = "completed"
  BY <1>1 DEF Latest, Working
<1>3. \A f \in execs : f.id = e.id /\ f # e => f.pc \notin Saving \cup Working
  <2> SUFFICES ASSUME NEW f \in execs, f.id = e.id, f # e PROVE f.pc \notin Saving \cup Working
    OBVIOUS
  <2>1. f.try # e.try /\ f.try <= attempt[f.id] /\ f.try \in Nat /\ e.try \in Nat
    BY DEF QInv, CoreOf, Types, Distinct, Latest, Execution
  <2>2. f.pc \notin Working
    BY <1>2, <2>1 DEF QInv, CoreOf, Latest
  <2>3. f.pc \in Saving => f.try >= e.try
    BY DEF DoneSaved, MayLand
  <2> QED
    BY <1>2, <2>1, <2>2, <2>3
<1>4. \A f \in execs : f.pc \in Saving \cup Working \cup {"settled"}
  BY DEF QInv, CoreOf, Types, Execution, PC, Saving, Working
<1>5. \A f \in execs' : f.id = e.id => f.pc = "settled"
  <2>1. e \in Execution /\ execs' = MoveTo(e, "settled")
    BY DEF DoneSaved, QInv, CoreOf, Types
  <2> QED
    BY <1>3, <1>4, <2>1 DEF MoveTo, Execution
<1>6. e.id \notin enqueuing
  BY DEF DoneSaved, MayLand
<1> QED
  BY <1>1, <1>2, <1>5, <1>6 DEF DoneSaved, Sealed

(* Every step keeps that a completion known to its caller is final.        *)
LEMMA SealStep == QInv /\ SealInv /\ [Next]_vars => SealInv'
<1> SUFFICES ASSUME QInv, SealInv, [Next]_vars PROVE SealInv'
  OBVIOUS
<1>1. CASE \E e \in execs : DoneSaved(e)
  <2>1. PICK e \in execs : DoneSaved(e)
    BY <1>1
  <2>2. acked' = acked \cup {e.id} /\ e.id \in Ids
    BY <2>1 DEF DoneSaved, QInv, CoreOf, Types, Execution
  <2> QED
    BY <2>1, <2>2, SealMade, SealKept DEF SealInv
<1>2. CASE ~\E e \in execs : DoneSaved(e)
  <2>1. ASSUME NEW e \in execs, Step(e) PROVE acked' = acked
    BY <1>2, <2>1 DEF Step, BackoffElapses, TaskSucceeds, TaskFails, CallRefused, RetrySaved,
       FailedSaved, SaveRejected, Finally
  <2>2. acked' = acked
    BY <2>1 DEF Next, vars, Enqueue, EnqueueSaved, EnqueueRejected, Cancel, CancelSet, ClearDeletes,
       CancelAll, Destroy, ClearCompleted, ClearRejected, Crash, Recover, MonitorFires, Tick
  <2> QED
    BY <2>2, SealKept DEF SealInv
<1> QED
  BY <1>1, <1>2

(* retry_queue.ts:126-129, :198-205: what was announced as completed is    *)
(* not run again, in this life of the process or in another, whichever     *)
(* saves reject, if the persistence keeps the order of the saves.          *)
THEOREM QueueDurableCompletion == Spec => []DurableCompletion
<1>1. Init => SealInv
  BY DEF Init, SealInv
<1>2. SealInv => DurableCompletion
  BY DEF SealInv, Sealed, DurableCompletion, Working
<1> QED
  BY <1>1, <1>2, SealStep, QueueInvariant, PTL DEF Spec

-----------------------------------------------------------------------------
SaveOf(st) == IF st = "completed" THEN "saveDone" ELSE "saveFailed"

(* The outcome of i is still to be saved, or it is in the store (or was    *)
(* deleted there) and nothing of i is to be saved any more.  Stated of     *)
(* values, like CoreOf.                                                    *)
RecordedOf(st, att, sto, enq, exs, i) ==
    /\ \A e \in exs : e.id = i /\ e.pc = "saveFailed" => st[i] = "failed" /\ att[i] = e.try + 1
    /\ st[i] \in {"completed", "failed"} =>
        \/ \E e \in exs : e.id = i /\ e.pc = SaveOf(st[i])
        \/ /\ sto[i] \in {st[i], "none"} /\ i \notin enq
           /\ \A e \in exs : e.id = i => e.pc \notin Saving

Recorded(i) == RecordedOf(status, attempt, store, enqueuing, execs, i)

\* Saves are only lost with the process.
Reliable == OrderedSaves /\ ~SaveMayFail

\* processNext() finishes nothing and saves nothing.
LEMMA RecordedLaunch ==
  ASSUME NEW its \in SUBSET Ids, NEW st, NEW arr, NEW att, NEW run, NEW exs, NEW rs,
         ProcessNext(its, st, arr, att, run, exs, rs),
         NEW i \in Ids, NEW sto, NEW enq, RecordedOf(st, att, sto, enq, exs, i)
  PROVE  RecordedOf(status', att, sto, enq, execs', i)
<1>1. PICK S \in SUBSET Pending(its, st) : status' = Marked(st, S) /\ execs' = exs \cup Launched(S, att)
  BY DEF ProcessNext
<1>2. /\ status'[i] = st[i] \/ (st[i] = "pending" /\ status'[i] = "running")
      /\ exs \subseteq execs'
      /\ \A e \in execs' : e \in exs \/ e.pc \notin Saving
  <2>1. \A try : FirstAwait(try) \notin Saving
    BY DEF FirstAwait, Saving
  <2>2. \A e \in Launched(S, att) : e.pc \notin Saving
    BY <2>1 DEF Launched
  <2>3. \A e \in execs' : e \in exs \/ e \in Launched(S, att)
    BY <1>1
  <2>4. status'[i] = IF i \in S THEN "running" ELSE st[i]
    BY <1>1 DEF Marked
  <2>5. i \in S => st[i] = "pending"
    BY DEF Pending
  <2> QED
    BY <1>1, <2>2, <2>3, <2>4, <2>5
<1>3. "saveFailed" \in Saving
  BY DEF Saving
<1> QED
  BY <1>2, <1>3 DEF RecordedOf

\* Whoever saves the outcome of an item comes last.
LEMMA OutcomeLast ==
  ASSUME Reliable, QInv, NEW e \in execs, Recorded(e.id),
         e.pc \in {"saveDone", "saveFailed"}, MayLand(e.id, e.try)
  PROVE  /\ status[e.id] = IF e.pc = "saveDone" THEN "completed" ELSE "failed"
         /\ e.id \notin enqueuing
         /\ \A f \in execs : f.id = e.id /\ f.pc \in Saving => f = e
<1>1. e.id \notin enqueuing /\ \A f \in execs : f.id = e.id /\ f.pc \in Saving => f.try >= e.try
  BY DEF MayLand, Reliable
<1>2. status[e.id] = IF e.pc = "saveDone" THEN "completed" ELSE "failed"
  BY DEF QInv, CoreOf, Latest, Working, Recorded, RecordedOf
<1>3. ASSUME NEW f \in execs, f.id = e.id, f.pc \in Saving PROVE f = e
  <2>1. /\ f.try \in Nat /\ e.try \in Nat /\ attempt[e.id] \in Nat /\ f.try >= e.try
        /\ f.try <= attempt[e.id] /\ (f.try = attempt[e.id] => status[e.id] \in {"running", "completed"})
        /\ e.pc = "saveDone" => e.try = attempt[e.id]
        /\ f.try = e.try => f = e
    BY <1>1, <1>3 DEF QInv, CoreOf, Types, Latest, Distinct, Execution
  <2>2. e.pc = "saveFailed" => attempt[e.id] = e.try + 1
    BY DEF Recorded, RecordedOf
  <2> QED
    BY <1>2, <2>1, <2>2
<1> QED
  BY <1>1, <1>2, <1>3

\* The step of an execution that does not call processNext().
LEMMA RecordedStep ==
  ASSUME Reliable, QInv, NEW i \in Ids, Recorded(i), NEW e \in execs, Step(e),
         ~Finally(e), ~RetrySaved(e)
  PROVE  Recorded(i)'
<1>0. /\ e \in Execution /\ execs \subseteq Execution /\ attempt \in [Ids -> Nat]
      /\ status \in [Ids -> Status] /\ store \in [Ids -> Status \cup {"none"}]
      /\ e.pc \in Working => status[e.id] = "running" /\ e.try = attempt[e.id]
  BY DEF QInv, Frame, CoreOf, Types, Latest
<1>1. CASE BackoffElapses(e)
  BY <1>0, <1>1 DEF BackoffElapses, MoveTo, Recorded, RecordedOf, Execution, Saving, SaveOf
<1>2. CASE TaskSucceeds(e)
  <2>1. CASE e.id = i
    <3>1. status'[i] = "completed" /\ [e EXCEPT !.pc = "saveDone"] \in execs'
      BY <1>0, <1>2, <2>1 DEF TaskSucceeds, MoveTo
    <3>2. \A f \in execs' : f.id = i => f.pc # "saveFailed"
      BY <1>0, <1>2, <2>1 DEF TaskSucceeds, MoveTo, Execution, Working, Recorded, RecordedOf
    <3> QED
      BY <1>0, <2>1, <3>1, <3>2 DEF Recorded, RecordedOf, Execution, SaveOf
  <2>2. CASE e.id # i
    BY <1>0, <1>2, <2>2 DEF TaskSucceeds, MoveTo, Recorded, RecordedOf, Execution
  <2> QED
    BY <2>1, <2>2
<1>3. CASE e.pc \in {"task", "refused"} /\ Catch(e) /\ store' = store
  <2>1. CASE e.id = i
    <3>1. /\ status[i] = "running" /\ e.try = attempt[i]
          /\ \A f \in execs : f.id = i => f.pc # "saveFailed"
      BY <1>0, <1>3, <2>1 DEF Working, Recorded, RecordedOf
    <3>2. PICK pc \in {"saveRetry", "saveFailed"} :
            /\ execs' = MoveTo(e, pc) /\ attempt'[i] = attempt[i] + 1
            /\ status'[i] = IF pc = "saveRetry" THEN "pending" ELSE "failed"
      BY <1>0, <1>3, <2>1 DEF Catch
    <3>3. [e EXCEPT !.pc = pc] \in execs'
      BY <3>2 DEF MoveTo
    <3>4. \A f \in execs' : f.id = i /\ f.pc = "saveFailed" => pc = "saveFailed" /\ f.try = e.try
      BY <1>0, <3>1, <3>2 DEF MoveTo, Execution
    <3>5. \A f \in execs' : f.id = i /\ f.pc = "saveFailed" => status'[i] = "failed" /\ attempt'[i] = f.try + 1
      BY <3>1, <3>2, <3>4
    <3>6. status'[i] \in {"completed", "failed"} => \E f \in execs' : f.id = i /\ f.pc = SaveOf(status'[i])
      BY <1>0, <2>1, <3>2, <3>3 DEF Execution, SaveOf
    <3> QED
      BY <3>5, <3>6 DEF Recorded, RecordedOf
  <2>2. CASE e.id # i
    BY <1>0, <1>3, <2>2 DEF Catch, MoveTo, Recorded, RecordedOf, Execution
  <2> QED
    BY <2>1, <2>2
<1>4. CASE DoneSaved(e) \/ FailedSaved(e)
  <2>1. /\ e.pc \in {"saveDone", "saveFailed"} /\ MayLand(e.id, e.try)
        /\ store' = [store EXCEPT ![e.id] = IF e.pc = "saveDone" THEN "completed" ELSE "failed"]
        /\ execs' = MoveTo(e, "settled") /\ UNCHANGED <<status, attempt, enqueuing>>
    BY <1>4 DEF DoneSaved, FailedSaved
  <2>2. CASE e.id = i
    <3>1. /\ status[i] = IF e.pc = "saveDone" THEN "completed" ELSE "failed"
          /\ i \notin enqueuing
          /\ \A f \in execs : f.id = i /\ f.pc \in Saving => f = e
      BY <2>1, <2>2, OutcomeLast
    <3>2. \A f \in execs' : f.id = i => f.pc \notin Saving
      BY <1>0, <2>1, <3>1 DEF MoveTo, Execution, Saving
    <3> QED
      BY <1>0, <2>1, <2>2, <3>1, <3>2 DEF Recorded, RecordedOf, Saving
  <2>3. CASE e.id # i
    BY <1>0, <2>1, <2>3 DEF MoveTo, Recorded, RecordedOf, Execution
  <2> QED
    BY <2>2, <2>3
<1> QED
  BY <1>1, <1>2, <1>3, <1>4 DEF Step, TaskFails, CallRefused, SaveRejected, Reliable

(* What the store has recorded stays recorded.                             *)
LEMMA RecordedKept ==
  ASSUME Reliable, QInv, NEW i \in Ids, Recorded(i), [Next]_vars
  PROVE  Recorded(i)'
<1>0. /\ items \in SUBSET Ids /\ execs \subseteq Execution /\ attempt \in [Ids -> Nat]
      /\ status \in [Ids -> Status] /\ store \in [Ids -> Status \cup {"none"}]
      /\ \A j \in Ids : j \notin used => status[j] = "new"
  BY DEF QInv, Frame, CoreOf, Types
<1>1. ASSUME NEW j \in Ids, Enqueue(j) PROVE Recorded(i)'
  BY <1>0, <1>1 DEF Enqueue, Recorded, RecordedOf
<1>2. ASSUME NEW j \in Ids, EnqueueSaved(j) PROVE Recorded(i)'
  <2>1. /\ ProcessNext(items, status, arrival, attempt, running, execs, runs)
        /\ j \in enqueuing /\ enqueuing' = enqueuing \ {j}
        /\ store' = [store EXCEPT ![j] = "pending"] /\ attempt' = attempt
    BY <1>2 DEF EnqueueSaved
  <2>2. RecordedOf(status, attempt, store', enqueuing', execs, i)
    BY <1>0, <2>1 DEF Recorded, RecordedOf
  <2> QED
    BY <1>0, <2>1, <2>2, RecordedLaunch DEF Recorded
<1>3. ASSUME NEW S \in SUBSET Pending(items, status), CancelSet(S) PROVE Recorded(i)'
  BY <1>0, <1>3 DEF CancelSet, Pending, Recorded, RecordedOf
<1>4. CASE (\E j \in Ids : Cancel(j)) \/ CancelAll \/ Destroy
  BY <1>3, <1>4 DEF Cancel, CancelAll, Destroy
<1>5. ASSUME NEW j \in Ids, ClearDeletes(j) PROVE Recorded(i)'
  <2>1. CASE j = i
    <3>1. (\A f \in execs : f.id = i => f.pc \notin Saving) /\ i \notin enqueuing
      BY <1>5, <2>1 DEF ClearDeletes, Reliable
    <3>2. store'[i] = "none" /\ UNCHANGED <<status, attempt, execs, enqueuing>>
      BY <1>0, <1>5, <2>1 DEF ClearDeletes
    <3> QED
      BY <3>1, <3>2 DEF Recorded, RecordedOf
  <2>2. CASE j # i
    BY <1>0, <1>5, <2>2 DEF ClearDeletes, Recorded, RecordedOf
  <2> QED
    BY <2>1, <2>2
<1>6. ASSUME NEW e \in execs, Finally(e) PROVE Recorded(i)'
  <2>1. /\ ProcessNext(items, status, arrival, attempt, running - 1, execs \ {e}, runs)
        /\ e.pc = "settled" /\ UNCHANGED <<attempt, enqueuing, store>>
    BY <1>6 DEF Finally
  <2>2. RecordedOf(status, attempt, store, enqueuing, execs \ {e}, i)
    BY <2>1 DEF Recorded, RecordedOf, SaveOf
  <2> QED
    BY <1>0, <2>1, <2>2, RecordedLaunch DEF Recorded
<1>7. ASSUME NEW e \in execs, RetrySaved(e) PROVE Recorded(i)'
  <2>1. /\ ProcessNext(items, status, arrival, attempt, running, MoveTo(e, "settled"), runs)
        /\ e.pc = "saveRetry" /\ UNCHANGED <<attempt, enqueuing>>
        /\ store' = [store EXCEPT ![e.id] = "pending"] /\ e \in Execution
    BY <1>0, <1>7 DEF RetrySaved
  <2>2. RecordedOf(status, attempt, store', enqueuing, MoveTo(e, "settled"), i)
    BY <1>0, <2>1 DEF Recorded, RecordedOf, SaveOf, MoveTo, Execution, Saving
  <2> QED
    BY <1>0, <2>1, <2>2, RecordedLaunch DEF Recorded
<1>8. CASE Crash
  BY <1>8 DEF Crash, Recorded, RecordedOf
<1>9. CASE Recover
  <2> DEFINE st == [j \in Ids |-> IF j \in Recoverable THEN "pending" ELSE "new"]
  <2>1. /\ Recoverable \in SUBSET Ids /\ st[i] \in {"pending", "new"}
        /\ ProcessNext(Recoverable, st, arrival', attempt', 0, {}, runs)
        /\ UNCHANGED <<enqueuing, store>>
    BY <1>9 DEF Recover, Recoverable
  <2> HIDE DEF st
  <2>2. RecordedOf(st, attempt', store, enqueuing, {}, i)
    BY <2>1 DEF RecordedOf
  <2> QED
    BY <2>1, <2>2, RecordedLaunch DEF Recorded
<1>10. CASE ClearCompleted \/ MonitorFires \/ Tick \/ UNCHANGED vars
  <2>1. UNCHANGED <<status, attempt, store, execs, enqueuing>>
    BY <1>10 DEF ClearCompleted, MonitorFires, Tick, memory, vars
  <2> QED
    BY <2>1 DEF Recorded, RecordedOf
<1>11. ~ClearRejected /\ \A j \in Ids : ~EnqueueRejected(j)
  BY DEF ClearRejected, EnqueueRejected, Reliable
<1> QED
  BY <1>1, <1>2, <1>4, <1>5, <1>6, <1>7, <1>8, <1>9, <1>10, <1>11, RecordedStep DEF Next

(* retry_queue.ts:126-139, :188: with saves that keep their order and do   *)
(* not reject, a quiet store holds the outcome the queue reports, through  *)
(* any deletes by clearCompleted() and any number of restarts.             *)
THEOREM QueueStoreAgrees == Spec => []StoreAgrees
<1> DEFINE RecInv == Reliable => \A i \in Ids : Recorded(i)
<1>1. Init => RecInv
  BY DEF Init, Recorded, RecordedOf
<1>2. QInv /\ RecInv /\ [Next]_vars => RecInv'
  BY RecordedKept DEF Reliable
<1>3. QInv /\ RecInv => StoreAgrees
  <2> SUFFICES ASSUME QInv, RecInv, Reliable, NEW i \in items,
                      status[i] \in {"completed", "failed"}, i \notin enqueuing,
                      \A e \in execs : e.id = i => e.pc \notin Saving
               PROVE  store[i] \in {status[i], "none"}
    BY DEF StoreAgrees, Reliable
  <2>1. i \in Ids /\ Recorded(i)
    BY DEF QInv, Frame
  <2>2. SaveOf(status[i]) \in Saving
    BY DEF SaveOf, Saving
  <2> QED
    BY <2>1, <2>2 DEF Recorded, RecordedOf
<1> HIDE DEF RecInv
<1> QED
  BY <1>1, <1>2, <1>3, QueueInvariant, PTL DEF Spec
=============================================================================
