--------------------------- MODULE WebhookDelivery ---------------------------
(***************************************************************************)
(* The delivery loop of packages/api/src/services/webhook_service.ts (the  *)
(* same file is services/webhook/src/services/webhook_service.ts).         *)
(*                                                                         *)
(* setInterval calls processPendingDeliveries() every second without       *)
(* waiting for the previous call, so several calls overlap.  Each works    *)
(* through the snapshot of due deliveries it took when it started, one     *)
(* awaited POST after another; the first delivery of its list is the one   *)
(* in flight.  A delivery is an object shared by the map and by every      *)
(* snapshot, so all of them see its attempts counter.                      *)
(*                                                                         *)
(* nextAttemptAt is abstracted to whether it has passed.                   *)
(***************************************************************************)
EXTENDS Integers, FiniteSets, SequencesExt, Subsequences

CONSTANTS
    Subs,           \* subscription ids
    Events,         \* events clients emit; eventId is fresh for each
    maxRetries,
    Calls,          \* overlapping calls of processPendingDeliveries(): a bound
    CanRestart      \* the process may die and start again

ASSUME WebhookAssumption ==
    /\ IsFiniteSet(Subs) /\ IsFiniteSet(Calls)
    /\ maxRetries \in Nat /\ CanRestart \in BOOLEAN

Deliveries == Subs \X Events

VARIABLES
    subscription,   \* "none", or whether the subscription is enabled
    emitted,        \* events emitted so far
    pending,        \* keys of pendingDeliveries, in insertion order
    todo,           \* what each call has left of its snapshot; <<>> when idle
    attempts,
    due,            \* nextAttemptAt has passed
    deliveryTimer,
    posts,          \* history: POSTs sent
    owed,           \* history: deliveries some event created
    delivered,      \* history: deliveries a POST of which was answered 2xx
    lost,           \* history: deliveries held when the process died
    overlapped      \* history: whether a call ever started while another was active

vars == <<subscription, emitted, pending, todo, attempts, due, deliveryTimer,
          posts, owed, delivered, lost, overlapped>>

Init ==
    /\ subscription = [s \in Subs |-> "none"]
    /\ emitted = {}
    /\ pending = <<>>
    /\ todo = [c \in Calls |-> <<>>]
    /\ attempts = [d \in Deliveries |-> 0]
    /\ due = [d \in Deliveries |-> FALSE]
    /\ deliveryTimer = "armed"
    /\ posts = [d \in Deliveries |-> 0]
    /\ owed = {}
    /\ delivered = {}
    /\ lost = {}
    /\ overlapped = FALSE
-----------------------------------------------------------------------------
(* Subscriptions.  A delivery keeps the subscription object it was created *)
(* with, so nothing below reaches deliveries already pending.              *)

Subscribed(s, to) ==
    /\ subscription' = [subscription EXCEPT ![s] = to]
    /\ UNCHANGED <<emitted, pending, todo, attempts, due, deliveryTimer, posts, owed, delivered, lost, overlapped>>

CreateSubscription(s) == subscription[s] = "none" /\ Subscribed(s, "enabled")

UpdateSubscription(s, to) == subscription[s] # "none" /\ Subscribed(s, to)

DeleteSubscription(s) == subscription[s] # "none" /\ Subscribed(s, "none")

EmitEvent(e) ==
    /\ e \notin emitted
    /\ emitted' = emitted \cup {e}
    /\ LET matching == {s \in Subs : subscription[s] = "enabled"} \X {e}
       IN  /\ \E order \in SetToSeqs(matching) : pending' = pending \o order
           /\ due' = [d \in Deliveries |-> d \in matching \/ due[d]]
           /\ owed' = owed \cup matching
    /\ UNCHANGED <<subscription, todo, attempts, deliveryTimer, posts, delivered, lost, overlapped>>
-----------------------------------------------------------------------------
\* Mutant: the delivery is not put back.
PutNowhere(d, pend) == pend

\* Map.set: a key already there keeps its place.
Put(d, pend) == IF Contains(pend, d) THEN pend ELSE Append(pend, d)

\* Mutant: a call does not take from the map what it sends.
ProceedKeeping(c, rest, pend) ==
    /\ todo' = [todo EXCEPT ![c] = rest]
    /\ pending' = pend
    /\ posts' = [d \in Deliveries |-> IF rest # <<>> /\ d = Head(rest) THEN posts[d] + 1 ELSE posts[d]]

(* The head of the for loop: the next delivery of the snapshot is taken    *)
(* from the map, where it may no longer be, and its POST is sent.          *)
Proceed(c, rest, pend) ==
    /\ todo' = [todo EXCEPT ![c] = rest]
    /\ pending' = IF rest = <<>> THEN pend ELSE Retain(pend, Deliveries \ {Head(rest)})
    /\ posts' = [d \in Deliveries |-> IF rest # <<>> /\ d = Head(rest) THEN posts[d] + 1 ELSE posts[d]]

Snapshot == Retain(pending, {d \in Deliveries : due[d]})

IntervalFires(c) ==
    /\ deliveryTimer = "armed"
    /\ todo[c] = <<>> /\ Snapshot # <<>>
    /\ Proceed(c, Snapshot, pending)
    /\ overlapped' = (overlapped \/ \E b \in Calls : todo[b] # <<>>)
    /\ UNCHANGED <<subscription, emitted, attempts, due, deliveryTimer, owed, delivered, lost>>

Answered2xx(c) ==
    /\ todo[c] # <<>>
    /\ delivered' = delivered \cup {Head(todo[c])}
    /\ Proceed(c, Tail(todo[c]), pending)
    /\ UNCHANGED <<subscription, emitted, attempts, due, deliveryTimer, owed, lost, overlapped>>

\* Mutant: the last attempt allowed is not used.
MayRetryLess(n) == n + 1 < maxRetries

MayRetry(n) == n < maxRetries

\* An error status, a refused connection, or the 10 s abort of the fetch.
DeliveryFails(c) ==
    /\ todo[c] # <<>>
    /\ LET d == Head(todo[c])
           n == attempts[d] + 1
       IN  /\ attempts' = [attempts EXCEPT ![d] = n]
           /\ due' = [due EXCEPT ![d] = @ /\ ~MayRetry(n)]
           /\ Proceed(c, Tail(todo[c]), IF MayRetry(n) THEN Put(d, pending) ELSE pending)
    /\ UNCHANGED <<subscription, emitted, deliveryTimer, owed, delivered, lost, overlapped>>

BackoffElapses(d) ==
    /\ Contains(pending, d) /\ ~due[d]
    /\ due' = [due EXCEPT ![d] = TRUE]
    /\ UNCHANGED <<subscription, emitted, pending, todo, attempts, deliveryTimer,
                   posts, owed, delivered, lost, overlapped>>

\* A call in progress goes on; no new one starts.
Destroy ==
    /\ deliveryTimer' = "null"
    /\ UNCHANGED <<subscription, emitted, pending, todo, attempts, due, posts, owed, delivered, lost, overlapped>>

\* Some call or the map still has the delivery.
Held(d) == Contains(pending, d) \/ \E c \in Calls : Contains(todo[c], d)

(* Subscriptions and deliveries live in memory only.                       *)
Restart ==
    /\ CanRestart
    /\ lost' = lost \cup {d \in Deliveries : Held(d)}
    /\ subscription' = [s \in Subs |-> "none"]
    /\ pending' = <<>>
    /\ todo' = [c \in Calls |-> <<>>]
    /\ deliveryTimer' = "armed"
    /\ UNCHANGED <<emitted, attempts, due, posts, owed, delivered, overlapped>>

Settles(c) == Answered2xx(c) \/ DeliveryFails(c)

Next ==
    \/ \E s \in Subs : \/ CreateSubscription(s) \/ DeleteSubscription(s)
                       \/ \E to \in {"enabled", "disabled"} : UpdateSubscription(s, to)
    \/ \E e \in Events : EmitEvent(e)
    \/ \E c \in Calls : IntervalFires(c) \/ Settles(c)
    \/ \E d \in Deliveries : BackoffElapses(d)
    \/ Destroy \/ Restart

(* The interval keeps firing, every fetch settles within its 10 s, and     *)
(* time passes.                                                            *)
Fairness ==
    /\ WF_vars(\E c \in Calls : IntervalFires(c))
    /\ \A c \in Calls : WF_vars(Settles(c))
    /\ \A d \in Deliveries : WF_vars(BackoffElapses(d))

Spec == Init /\ [][Next]_vars

FairSpec == Spec /\ Fairness
-----------------------------------------------------------------------------
TypeOK ==
    /\ subscription \in [Subs -> {"none", "enabled", "disabled"}]
    /\ emitted \subseteq Events
    /\ pending \in Seq(Deliveries) /\ IsInjective(pending)
    /\ todo \in [Calls -> Seq(Deliveries)] /\ \A c \in Calls : IsInjective(todo[c])
    /\ attempts \in [Deliveries -> Nat]
    /\ due \in [Deliveries -> BOOLEAN]
    /\ deliveryTimer \in {"armed", "null"} /\ overlapped \in BOOLEAN
    /\ posts \in [Deliveries -> Nat]
    /\ delivered \subseteq owed /\ lost \subseteq owed /\ owed \subseteq Deliveries

Limit == IF maxRetries = 0 THEN 1 ELSE maxRetries

(* webhook_service.ts:140-163: while the process lives, a delivery is let  *)
(* go only when it was answered 2xx or has used up its attempts, whatever  *)
(* the overlapping calls remove from the map and put back.                 *)
NoSilentLoss ==
    \A d \in owed : Held(d) \/ d \in delivered \cup lost \/ attempts[d] >= Limit

(* webhook_service.ts:154: while calls never overlap, a delivery gets at   *)
(* most maxRetries POSTs and none after a 2xx.                             *)
AttemptsBounded ==
    ~overlapped => /\ \A d \in Deliveries : posts[d] <= Limit
                   /\ \A d \in delivered : ~Held(d)

(* Overlapping calls send a delivery more often than that, each of them at *)
(* most as often as one call alone would.                                  *)
OverlapBounded == \A d \in Deliveries : posts[d] <= Cardinality(Calls) * Limit

(* The two bounds, on maps and snapshots that hold a delivery once; and    *)
(* while calls do not overlap, nothing is sent before its backoff has      *)
(* passed (webhook_service.ts:138).                                        *)
SendsBounded ==
    /\ [](TypeOK /\ AttemptsBounded /\ OverlapBounded)
    /\ [][~overlapped => \A d \in Deliveries : posts'[d] > posts[d] => due[d]]_vars

(* While the process lives and calls do not overlap, deliveries keep the   *)
(* promise of the retry queue, with a snapshot as its active jobs          *)
(* (webhook_service.ts:119-163): only an event creates one, a snapshot     *)
(* takes only what waits in the map, a delivery goes back to the map only  *)
(* when an attempt of it failed and others are left, and once it is        *)
(* answered or given up nothing brings it back.                            *)
Standing ==
    [d \in Deliveries |->
        IF d \notin owed THEN "new"
        ELSE IF d \in delivered THEN "completed"
        ELSE IF \E c \in Calls : Contains(todo[c], d) THEN "running"
        ELSE IF Contains(pending, d) THEN "pending"
        ELSE "failed"]

Promise == INSTANCE RetryJobs WITH
    Jobs <- Deliveries, concurrency <- Cardinality(Deliveries), batch <- Cardinality(Subs),
    job <- Standing, tries <- attempts

KeepsRetryJobs ==
    Promise!Init /\ [][~overlapped' /\ ~Restart => [Promise!Next]_(Promise!jobVars)]_vars

(* Unless the loop is destroyed, every delivery an event created is in the *)
(* end answered 2xx or given up, behind endpoints that always time out.    *)
EveryDeliverySettles ==
    \A d \in Deliveries :
        d \in owed ~> (d \in delivered \cup lost \/ attempts[d] >= Limit \/ deliveryTimer = "null")

(* docs/api/README.md:221, "Exponential backoff with maximum attempts",    *)
(* counting maxRetries as retries after a first attempt.                   *)
MaximumAttempts == \A d \in Deliveries : posts[d] <= 1 + maxRetries

=============================================================================
