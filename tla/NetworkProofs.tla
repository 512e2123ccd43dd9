---------------------------- MODULE NetworkProofs -----------------------------
(***************************************************************************)
(* What is proved of the three parts MCNetwork checks: the delivery of     *)
(* webhooks, the event streams of the API, and the authority set with a    *)
(* round of consensus.  They share nothing; each has a section of its own. *)
(***************************************************************************)
EXTENDS WebhookDelivery, EventStream, Governance, DataLemmas

-----------------------------------------------------------------------------
(***************************************************************************)
(* The delivery of webhooks, for every finite set of subscriptions and of  *)
(* events, every number of overlapping calls and every limit: no delivery  *)
(* is lost without a trace, and none is sent more often than its limit.    *)
(***************************************************************************)

(* What the history variables know: only deliveries an event created are   *)
(* held, sent or counted.                                                  *)
Known == \A d \in Deliveries :
    /\ d \in owed => d[2] \in emitted
    /\ Held(d) => d \in owed
    /\ d \notin owed => posts[d] = 0 /\ attempts[d] = 0

(* While calls do not overlap one call is active, what it has still to     *)
(* send is pending and due, and every failure was counted.                 *)
InTurn == \A c \in Calls : todo[c] # <<>> =>
    /\ \A b \in Calls : todo[b] # <<>> => b = c
    /\ ~Contains(pending, Head(todo[c]))
    /\ \A d : Contains(Tail(todo[c]), d) => Contains(pending, d)
    /\ \A d : Contains(todo[c], d) => due[d]

Alone == ~overlapped =>
    /\ InTurn
    /\ \A d \in Deliveries :
        /\ posts[d] <= Limit /\ posts[d] <= attempts[d] + 1
        /\ Held(d) => attempts[d] < Limit /\ d \notin delivered
        /\ Contains(pending, d) => posts[d] <= attempts[d]

(* A delivery was put into the map at most this often: once by the event,  *)
(* and once for each attempt that left another one.  Each call sends it at *)
(* most once for each time it was put there.                               *)
Stays(d) == IF attempts[d] < Limit THEN attempts[d] + 1 ELSE Limit

\* The calls that have it ahead of them, but not in flight.
Behind(d) == {c \in Calls : todo[c] # <<>> /\ Contains(Tail(todo[c]), d)}

StaysBound == \A d \in Deliveries :
    /\ Contains(pending, d) => posts[d] <= Cardinality(Calls) * (Stays(d) - 1)
    /\ posts[d] + Cardinality(Behind(d)) <= Cardinality(Calls) * Stays(d)

IInv == TypeOK /\ Known /\ Alone /\ StaysBound /\ NoSilentLoss
-----------------------------------------------------------------------------
(* A delivery may be retried while its attempts are below the limit.       *)
LEMMA LimitFacts ==
    /\ Limit \in Nat \ {0} /\ maxRetries \in Nat
    /\ \A n \in Nat \ {0} : MayRetry(n) <=> n < Limit
BY WebhookAssumption DEF Limit, MayRetry

(* A call takes the pending deliveries that are due, each once.            *)
LEMMA SnapshotFacts ==
    ASSUME TypeOK
    PROVE  /\ Snapshot \in Seq(Deliveries) /\ IsInjective(Snapshot)
           /\ \A d : Contains(Snapshot, d) <=> Contains(pending, d) /\ d \in Deliveries /\ due[d]
<1>1. pending \in Seq(Deliveries) /\ IsInjective(pending)
  BY DEF TypeOK
<1> QED BY <1>1, RetainContains, RetainInjective DEF Snapshot

(* A delivery put into pending is there once.                              *)
LEMMA PutFacts ==
    ASSUME NEW d \in Deliveries, NEW pend \in Seq(Deliveries), IsInjective(pend)
    PROVE  /\ Put(d, pend) \in Seq(Deliveries) /\ IsInjective(Put(d, pend))
           /\ \A x : Contains(Put(d, pend), x) <=> x = d \/ Contains(pend, x)
BY AppendContains DEF Put

(* What a call's going on to its next delivery changes. *)
LEMMA ProceedFacts ==
    ASSUME TypeOK, NEW c \in Calls, NEW rest \in Seq(Deliveries), IsInjective(rest),
           NEW pend \in Seq(Deliveries), IsInjective(pend), Proceed(c, rest, pend)
    PROVE  /\ todo' \in [Calls -> Seq(Deliveries)] /\ todo'[c] = rest
           /\ \A b \in Calls \ {c} : todo'[b] = todo[b]
           /\ \A b \in Calls : IsInjective(todo'[b])
           /\ pending' \in Seq(Deliveries) /\ IsInjective(pending')
           /\ \A x : Contains(pending', x) <=> Contains(pend, x) /\ ~(rest # <<>> /\ x = Head(rest))
           /\ posts' \in [Deliveries -> Nat]
           /\ \A d \in Deliveries : posts'[d] = IF rest # <<>> /\ d = Head(rest) THEN posts[d] + 1 ELSE posts[d]
<1>1. todo \in [Calls -> Seq(Deliveries)] /\ (\A b \in Calls : IsInjective(todo[b])) /\ posts \in [Deliveries -> Nat]
  BY DEF TypeOK
<1>2. todo' = [todo EXCEPT ![c] = rest]
  BY DEF Proceed
<1>3. posts' = [d \in Deliveries |-> IF rest # <<>> /\ d = Head(rest) THEN posts[d] + 1 ELSE posts[d]]
  BY DEF Proceed
<1>4. CASE rest = <<>>
  <2>1. pending' = pend
    BY <1>4 DEF Proceed
  <2> QED BY <1>1, <1>2, <1>3, <1>4, <2>1
<1>5. CASE rest # <<>>
  <2>1. pending' = Retain(pend, Deliveries \ {Head(rest)})
    BY <1>5 DEF Proceed
  <2>2. pending' \in Seq(Deliveries) /\ IsInjective(pending')
    BY <2>1, RetainContains, RetainInjective
  <2>3. \A x : Contains(pending', x) <=> Contains(pend, x) /\ x \in Deliveries \ {Head(rest)}
    BY <2>1, RetainContains
  <2>4. \A x : Contains(pend, x) => x \in Deliveries
    BY DEF Contains
  <2> QED BY <1>1, <1>2, <1>3, <1>5, <2>2, <2>3, <2>4
<1> QED BY <1>4, <1>5

(* Steps that touch neither what is held nor the counters. *)
LEMMA QuietKeeps ==
    ASSUME IInv, TypeOK',
           UNCHANGED <<emitted, pending, todo, attempts, posts, owed, delivered, lost, overlapped>>,
           \A d \in Deliveries : due[d] => due'[d]
    PROVE  IInv'
<1>1. Known' /\ NoSilentLoss'
  BY DEF IInv, Known, NoSilentLoss, Held
<1>2. Alone'
  <2>1. ASSUME NEW c \in Calls, NEW d, Contains(todo[c], d)
        PROVE  d \in Deliveries
    BY <2>1 DEF IInv, TypeOK, Contains
  <2> QED BY <2>1 DEF IInv, Alone, InTurn, Held
<1>3. StaysBound'
  <2>1. \A d \in Deliveries : Stays(d)' = Stays(d) /\ Behind(d)' = Behind(d)
    BY DEF Stays, Behind
  <2> QED BY <2>1 DEF IInv, StaysBound
<1> QED BY <1>1, <1>2, <1>3 DEF IInv

(* The steps that leave the deliveries alone keep the invariant.           *)
LEMMA QuietSteps ==
    ASSUME IInv
    PROVE  /\ UNCHANGED vars => IInv'
           /\ \A s \in Subs, to \in {"none", "enabled", "disabled"} : Subscribed(s, to) => IInv'
           /\ \A d \in Deliveries : BackoffElapses(d) => IInv'
           /\ Destroy => IInv'
<1> USE DEF IInv
<1>1. ASSUME UNCHANGED vars
      PROVE  IInv'
  <2>1. TypeOK'
    BY <1>1 DEF vars, TypeOK
  <2> QED BY <1>1, <2>1, QuietKeeps DEF vars
<1>2. ASSUME NEW s \in Subs, NEW to \in {"none", "enabled", "disabled"}, Subscribed(s, to)
      PROVE  IInv'
  <2>1. TypeOK'
    BY <1>2 DEF Subscribed, TypeOK
  <2> QED BY <1>2, <2>1, QuietKeeps DEF Subscribed
<1>3. ASSUME NEW d \in Deliveries, BackoffElapses(d)
      PROVE  IInv'
  <2>1. TypeOK'
    BY <1>3 DEF BackoffElapses, TypeOK
  <2>2. \A x \in Deliveries : due[x] => due'[x]
    BY <1>3 DEF BackoffElapses, TypeOK
  <2> QED BY <1>3, <2>1, <2>2, QuietKeeps DEF BackoffElapses
<1>4. ASSUME Destroy
      PROVE  IInv'
  <2>1. TypeOK'
    BY <1>4 DEF Destroy, TypeOK
  <2> QED BY <1>4, <2>1, QuietKeeps DEF Destroy
<1> QED BY <1>1, <1>2, <1>3, <1>4

(* A restart keeps the invariant: what was held is lost, and owned to be.  *)
LEMMA RestartKeeps ==
    ASSUME IInv, Restart
    PROVE  IInv'
<1> USE DEF IInv, Restart
<1>1. \A d : ~Contains(pending', d)
  BY DEF Contains
<1>2. \A c \in Calls : todo'[c] = <<>>
  OBVIOUS
<1>3. \A d : ~Held(d)'
  BY <1>1, <1>2 DEF Held, Contains
<1>4. TypeOK'
  <2>1. pending' \in Seq(Deliveries) /\ IsInjective(pending')
    BY DEF IsInjective
  <2>2. todo' \in [Calls -> Seq(Deliveries)]
    OBVIOUS
  <2>3. \A c \in Calls : IsInjective(todo'[c])
    BY <1>2 DEF IsInjective
  <2>4. lost' \subseteq owed'
    BY DEF TypeOK, Known
  <2>5. subscription' \in [Subs -> {"none", "enabled", "disabled"}]
    OBVIOUS
  <2> QED BY <2>1, <2>2, <2>3, <2>4, <2>5 DEF TypeOK
<1>5. Known'
  BY <1>3 DEF Known
<1>6. Alone'
  BY <1>1, <1>2, <1>3 DEF Alone, InTurn
<1>7. StaysBound'
  <2> SUFFICES ASSUME NEW d \in Deliveries
               PROVE  posts'[d] + Cardinality(Behind(d)') <= Cardinality(Calls) * Stays(d)'
    BY <1>1 DEF StaysBound
  <2>1. Behind(d)' = {} /\ Cardinality({}) = 0
    BY <1>2, FS_EmptySet DEF Behind
  <2>2. IsFiniteSet(Behind(d))
    BY FS_Subset, WebhookAssumption DEF Behind
  <2>3. Cardinality(Behind(d)) \in Nat
    BY <2>2, FS_CardinalityType
  <2>4. Stays(d)' = Stays(d) /\ posts'[d] = posts[d] /\ posts[d] \in Nat
    BY DEF Stays, TypeOK
  <2>5. posts[d] + Cardinality(Behind(d)) <= Cardinality(Calls) * Stays(d)
    BY DEF StaysBound
  <2>6. Cardinality(Calls) * Stays(d) \in Nat
    <3>1. Cardinality(Calls) \in Nat
      BY FS_CardinalityType, WebhookAssumption
    <3>2. Stays(d) \in Nat
      BY LimitFacts DEF Stays, TypeOK
    <3> QED BY <3>1, <3>2
  <2> QED BY <2>1, <2>3, <2>4, <2>5, <2>6
<1>8. NoSilentLoss'
  <2>1. \A d \in owed : Held(d) => d \in lost'
    BY DEF TypeOK
  <2> QED BY <2>1 DEF NoSilentLoss
<1> QED BY <1>4, <1>5, <1>6, <1>7, <1>8

(* What a call sends next, and what it has left, are deliveries it holds.  *)
LEMMA HeadHeld ==
    ASSUME TypeOK, NEW c \in Calls, todo[c] # <<>>
    PROVE  /\ Head(todo[c]) \in Deliveries /\ Tail(todo[c]) \in Seq(Deliveries)
           /\ \A d : Contains(todo[c], d) <=> d = Head(todo[c]) \/ Contains(Tail(todo[c]), d)
           /\ \A d : Contains(todo[c], d) => d \in Deliveries /\ Held(d)
           /\ IsInjective(Tail(todo[c])) /\ ~Contains(Tail(todo[c]), Head(todo[c]))
<1>1. todo[c] \in Seq(Deliveries) /\ IsInjective(todo[c])
  BY DEF TypeOK
<1>2. \A d : Contains(todo[c], d) => d \in Deliveries
  BY <1>1 DEF Contains
<1> QED BY <1>1, <1>2, TailContains DEF Held

\* The deliveries an event creates.
Matching(e) == {s \in Subs : subscription[s] = "enabled"} \X {e}

(* What an event creates is new, at most one delivery per subscription,    *)
(* and pending once.                                                       *)
LEMMA EmitFacts ==
    ASSUME IInv, NEW e \in Events, EmitEvent(e)
    PROVE  /\ e \notin emitted /\ emitted' = emitted \cup {e}
           /\ due' = [d \in Deliveries |-> d \in Matching(e) \/ due[d]]
           /\ owed' = owed \cup Matching(e)
           /\ UNCHANGED <<subscription, todo, attempts, deliveryTimer, posts, delivered, lost, overlapped>>
           /\ Matching(e) \subseteq Deliveries /\ \A d \in Matching(e) : d[2] = e
           /\ IsFiniteSet(Matching(e)) /\ Cardinality(Matching(e)) <= Cardinality(Subs)
           /\ \A d \in Matching(e) : /\ d \in Deliveries /\ d \notin owed /\ ~Held(d)
                                     /\ posts[d] = 0 /\ attempts[d] = 0
           /\ pending' \in Seq(Deliveries) /\ IsInjective(pending')
           /\ \A d : Contains(pending', d) <=> Contains(pending, d) \/ d \in Matching(e)
           /\ \A d : Held(d)' <=> Held(d) \/ d \in Matching(e)
<1> DEFINE matching == Matching(e)
<1>1. /\ e \notin emitted /\ emitted' = emitted \cup {e}
      /\ due' = [d \in Deliveries |-> d \in matching \/ due[d]]
      /\ owed' = owed \cup matching
      /\ UNCHANGED <<subscription, todo, attempts, deliveryTimer, posts, delivered, lost, overlapped>>
  BY DEF EmitEvent, Matching
<1>2. PICK order \in SetToSeqs(matching) : pending' = pending \o order
  BY DEF EmitEvent, Matching
<1>3. matching \subseteq Deliveries /\ \A d \in matching : d[2] = e
  BY DEF Deliveries, Matching
<1>4. IsFiniteSet(matching) /\ Cardinality(matching) <= Cardinality(Subs)
  <2> DEFINE f == [d \in matching |-> d[1]]
  <2>1. f \in [matching -> Subs]
    BY DEF Matching
  <2>2. \A a, b \in matching : f[a] = f[b] => a = b
    BY DEF Matching
  <2> HIDE DEF f
  <2>3. f \in Injection(matching, Subs)
    BY <2>1, <2>2 DEF Injection, IsInjective
  <2> QED BY <2>3, FS_Injection, WebhookAssumption
<1> HIDE DEF matching
<1>5. order \in Seq(Deliveries) /\ IsInjective(order) /\ \A d : Contains(order, d) <=> d \in matching
  <2>1. order \in Seq(matching)
    BY <1>4, OrderContains
  <2>2. order \in Seq(Deliveries)
    BY <2>1, <1>3
  <2> QED BY <2>2, <1>4, OrderContains
<1>6. \A d \in matching : d \in Deliveries /\ d \notin owed /\ ~Held(d) /\ posts[d] = 0 /\ attempts[d] = 0
  BY <1>1, <1>3 DEF IInv, Known
<1>7. pending \in Seq(Deliveries) /\ IsInjective(pending)
  BY DEF IInv, TypeOK
<1>8. /\ pending' \in Seq(Deliveries) /\ IsInjective(pending')
      /\ \A d : Contains(pending', d) <=> Contains(pending, d) \/ d \in matching
  <2>1. \A d : ~(Contains(pending, d) /\ Contains(order, d))
    BY <1>5, <1>6 DEF Held
  <2> QED BY <2>1, <1>2, <1>5, <1>7, ConcatContains
<1>9. \A d : Held(d)' <=> Held(d) \/ d \in matching
  BY <1>1, <1>8 DEF Held
<1> QED BY <1>1, <1>3, <1>4, <1>6, <1>8, <1>9 DEF matching

(* An event keeps the invariant: its deliveries are new and pending once.  *)
LEMMA EmitEventKeeps ==
    ASSUME IInv, NEW e \in Events, EmitEvent(e)
    PROVE  IInv'
<1> DEFINE matching == Matching(e)
<1>1. /\ e \notin emitted /\ emitted' = emitted \cup {e}
      /\ due' = [d \in Deliveries |-> d \in matching \/ due[d]]
      /\ owed' = owed \cup matching
      /\ UNCHANGED <<subscription, todo, attempts, deliveryTimer, posts, delivered, lost, overlapped>>
  BY EmitFacts
<1>3. matching \subseteq Deliveries /\ \A d \in matching : d[2] = e
  BY EmitFacts
<1>6. \A d \in matching : d \in Deliveries /\ d \notin owed /\ ~Held(d) /\ posts[d] = 0 /\ attempts[d] = 0
  BY EmitFacts
<1>8. /\ pending' \in Seq(Deliveries) /\ IsInjective(pending')
      /\ \A d : Contains(pending', d) <=> Contains(pending, d) \/ d \in matching
  BY EmitFacts
<1>9. \A d : Held(d)' <=> Held(d) \/ d \in matching
  BY EmitFacts
<1> HIDE DEF matching
<1> USE DEF IInv
<1>10. TypeOK'
  <2>1. emitted' \subseteq Events
    BY <1>1 DEF TypeOK
  <2>2. due' \in [Deliveries -> BOOLEAN]
    <3>1. \A d \in Deliveries : (d \in matching \/ due[d]) \in BOOLEAN
      OBVIOUS
    <3> QED BY <3>1, <1>1
  <2>3. delivered' \subseteq owed' /\ lost' \subseteq owed' /\ owed' \subseteq Deliveries
    BY <1>1, <1>3 DEF TypeOK
  <2> QED BY <2>1, <2>2, <2>3, <1>1, <1>8 DEF TypeOK
<1>11. Known'
  BY <1>1, <1>3, <1>9 DEF Known
<1>12. \A d \in Deliveries : due[d] => due'[d]
  BY <1>1
<1>13. Alone'
  <2> SUFFICES ASSUME ~overlapped
               PROVE  Alone'
    BY <1>1 DEF Alone, InTurn
  <2>1. ASSUME NEW c \in Calls, todo[c] # <<>>
        PROVE  /\ \A b \in Calls : todo[b] # <<>> => b = c
               /\ ~Contains(pending', Head(todo[c]))
               /\ \A d : Contains(Tail(todo[c]), d) => Contains(pending', d)
               /\ \A d : Contains(todo[c], d) => due'[d]
    BY <2>1, <1>6, <1>8, <1>12, HeadHeld DEF Alone, InTurn
  <2>2. ASSUME NEW d \in Deliveries
        PROVE  /\ posts[d] <= Limit /\ posts[d] <= attempts[d] + 1
               /\ Held(d)' => attempts[d] < Limit /\ d \notin delivered
               /\ Contains(pending', d) => posts[d] <= attempts[d]
    BY <1>6, <1>8, <1>9, LimitFacts DEF Alone, InTurn, TypeOK
  <2> QED BY <2>1, <2>2, <1>1 DEF Alone, InTurn
<1>14. StaysBound'
  <2>1. \A d \in Deliveries : Stays(d)' = Stays(d) /\ Behind(d)' = Behind(d)
    BY <1>1 DEF Stays, Behind
  <2>2. ASSUME NEW d \in matching
        PROVE  posts[d] <= Cardinality(Calls) * (Stays(d) - 1)
    <3>1. Stays(d) - 1 = 0
      BY <1>6, LimitFacts DEF Stays
    <3>2. Cardinality(Calls) * 0 = 0
      BY FS_CardinalityType, WebhookAssumption
    <3> QED BY <3>1, <3>2, <1>6
  <2> QED BY <2>1, <2>2, <1>1, <1>8 DEF StaysBound
<1>15. NoSilentLoss'
  BY <1>1, <1>9 DEF NoSilentLoss, Limit
<1> QED BY <1>10, <1>11, <1>13, <1>14, <1>15

(* Products grow with their factor.                                        *)
LEMMA Times ==
    ASSUME NEW k \in Nat, NEW m \in Nat, NEW n \in Nat, m <= n
    PROVE  k * m \in Nat /\ k * n \in Nat /\ k * m <= k * n /\ k * (m + 1) = k * m + k
<1>1. PICK j \in Nat : n = m + j
  <2>1. n - m \in Nat /\ n = m + (n - m)
    OBVIOUS
  <2> QED BY <2>1
<1>2. k * n = k * m + k * j /\ k * j \in Nat /\ k * m \in Nat
  BY <1>1
<1> QED BY <1>2

(* There are no more calls behind a delivery than calls.                   *)
LEMMA BehindFinite ==
    ASSUME NEW d
    PROVE  /\ IsFiniteSet(Behind(d)) /\ Cardinality(Behind(d)) \in Nat
           /\ Cardinality(Calls) \in Nat
           /\ Cardinality(Behind(d)) <= Cardinality(Calls)
           /\ \A c \in Calls \ Behind(d) : Cardinality(Behind(d)) + 1 <= Cardinality(Calls)
<1>1. IsFiniteSet(Calls) /\ Behind(d) \subseteq Calls
  BY WebhookAssumption DEF Behind
<1>2. IsFiniteSet(Behind(d)) /\ Cardinality(Behind(d)) <= Cardinality(Calls)
  BY <1>1, FS_Subset
<1>3. ASSUME NEW c \in Calls \ Behind(d)
      PROVE  Cardinality(Behind(d)) + 1 <= Cardinality(Calls)
  <2>1. Cardinality(Behind(d) \cup {c}) = Cardinality(Behind(d)) + 1
    BY <1>2, FS_AddElement
  <2>2. Behind(d) \cup {c} \subseteq Calls
    BY <1>1
  <2>3. Cardinality(Behind(d) \cup {c}) <= Cardinality(Calls)
    BY <2>2, <1>1, FS_Subset
  <2> QED BY <2>1, <2>3
<1> QED BY <1>1, <1>2, <1>3, FS_CardinalityType

(* A delivery stays for one attempt at least.                              *)
LEMMA StaysFacts ==
    ASSUME TypeOK, NEW d \in Deliveries
    PROVE  Stays(d) \in Nat \ {0} /\ Stays(d) - 1 \in Nat
BY LimitFacts DEF Stays, TypeOK

(* A call of the interval keeps the invariant: what it takes it holds.     *)
LEMMA IntervalFiresKeeps ==
    ASSUME IInv, NEW c \in Calls, IntervalFires(c)
    PROVE  IInv'
<1> DEFINE snap == Snapshot
           first == Head(snap)
<1>1. /\ todo[c] = <<>> /\ snap # <<>> /\ Proceed(c, snap, pending)
      /\ overlapped' = (overlapped \/ \E b \in Calls : todo[b] # <<>>)
      /\ UNCHANGED <<subscription, emitted, attempts, due, deliveryTimer, owed, delivered, lost>>
  BY DEF IntervalFires
<1>2. snap \in Seq(Deliveries) /\ IsInjective(snap)
      /\ \A d : Contains(snap, d) <=> Contains(pending, d) /\ d \in Deliveries /\ due[d]
  BY SnapshotFacts DEF IInv
<1> HIDE DEF snap
<1> USE DEF IInv
<1>3. pending \in Seq(Deliveries) /\ IsInjective(pending)
  BY DEF TypeOK
<1>4. /\ todo' \in [Calls -> Seq(Deliveries)] /\ todo'[c] = snap
      /\ \A b \in Calls \ {c} : todo'[b] = todo[b]
      /\ \A b \in Calls : IsInjective(todo'[b])
      /\ pending' \in Seq(Deliveries) /\ IsInjective(pending')
      /\ \A x : Contains(pending', x) <=> Contains(pending, x) /\ x # first
      /\ posts' \in [Deliveries -> Nat]
      /\ \A d \in Deliveries : posts'[d] = IF d = first THEN posts[d] + 1 ELSE posts[d]
  <2>1. /\ todo' \in [Calls -> Seq(Deliveries)] /\ todo'[c] = snap
        /\ \A b \in Calls \ {c} : todo'[b] = todo[b]
        /\ \A b \in Calls : IsInjective(todo'[b])
        /\ pending' \in Seq(Deliveries) /\ IsInjective(pending')
        /\ \A x : Contains(pending', x) <=> Contains(pending, x) /\ ~(snap # <<>> /\ x = first)
        /\ posts' \in [Deliveries -> Nat]
        /\ \A d \in Deliveries : posts'[d] = IF snap # <<>> /\ d = first THEN posts[d] + 1 ELSE posts[d]
    BY <1>1, <1>2, <1>3, ProceedFacts, Zenon
  <2> QED BY <2>1, <1>1
<1>5. /\ first \in Deliveries /\ Contains(snap, first) /\ ~Contains(Tail(snap), first)
      /\ \A d : Contains(snap, d) <=> d = first \/ Contains(Tail(snap), d)
  BY <1>1, <1>2, TailContains
<1>6. \A d : ~Contains(todo[c], d)
  BY <1>1 DEF Contains
<1>7. \A d \in Deliveries : Held(d)' <=> Held(d)
  BY <1>2, <1>4, <1>5, <1>6 DEF Held
<1> HIDE DEF first
<1>8. TypeOK'
  BY <1>1, <1>4 DEF TypeOK
<1>9. Known'
  <2>1. first \in owed
    BY <1>2, <1>5 DEF Known, Held
  <2> QED BY <2>1, <1>1, <1>4, <1>7 DEF Known
<1>10. Alone'
  <2> SUFFICES ASSUME ~overlapped'
               PROVE  Alone'
    BY DEF Alone, InTurn
  <2>1. ~overlapped /\ \A b \in Calls : todo[b] = <<>>
    BY <1>1
  <2>2. \A b \in Calls : todo'[b] # <<>> => b = c
    BY <2>1, <1>4
  <2>3. /\ ~Contains(pending', Head(todo'[c]))
        /\ \A d : Contains(Tail(todo'[c]), d) => Contains(pending', d)
        /\ \A d : Contains(todo'[c], d) => due'[d]
    BY <1>1, <1>2, <1>4, <1>5 DEF first
  <2>4. ASSUME NEW d \in Deliveries
        PROVE  /\ posts'[d] <= Limit /\ posts'[d] <= attempts[d] + 1
               /\ Held(d) => attempts[d] < Limit /\ d \notin delivered
               /\ Contains(pending', d) => posts'[d] <= attempts[d]
    <3>1. /\ posts[d] <= Limit /\ posts[d] <= attempts[d] + 1
          /\ Held(d) => attempts[d] < Limit /\ d \notin delivered
          /\ Contains(pending, d) => posts[d] <= attempts[d]
      BY <2>1 DEF Alone, InTurn
    <3>2. attempts[d] \in Nat /\ posts[d] \in Nat /\ Limit \in Nat
      BY LimitFacts DEF TypeOK
    <3>3. Contains(pending, d) => Held(d)
      BY DEF Held
    <3>4. Contains(pending, first)
      BY <1>2, <1>5
    <3>5. CASE d = first
      BY <3>1, <3>2, <3>3, <3>4, <3>5, <1>4
    <3>6. CASE d # first
      BY <3>1, <3>6, <1>4
    <3> QED BY <3>5, <3>6
  <2> QED BY <2>2, <2>3, <2>4, <1>1, <1>7 DEF Alone, InTurn
<1>11. StaysBound'
  <2> SUFFICES ASSUME NEW d \in Deliveries
               PROVE  /\ Contains(pending', d) => posts'[d] <= Cardinality(Calls) * (Stays(d) - 1)
                      /\ posts'[d] + Cardinality(Behind(d)') <= Cardinality(Calls) * Stays(d)
    <3>1. \A d \in Deliveries : Stays(d)' = Stays(d)
      BY <1>1 DEF Stays
    <3> QED BY <3>1 DEF StaysBound
  <2>1. /\ Contains(pending, d) => posts[d] <= Cardinality(Calls) * (Stays(d) - 1)
        /\ posts[d] + Cardinality(Behind(d)) <= Cardinality(Calls) * Stays(d)
    BY DEF StaysBound
  <2>2. c \notin Behind(d)
    BY <1>1 DEF Behind
  <2>3. Behind(d)' = IF Contains(Tail(snap), d) THEN Behind(d) \cup {c} ELSE Behind(d)
    BY <1>1, <1>4 DEF Behind
  <2>4. /\ IsFiniteSet(Behind(d)) /\ Cardinality(Behind(d)) \in Nat
        /\ Cardinality(Behind(d)) + 1 <= Cardinality(Calls) /\ Cardinality(Calls) \in Nat
    BY <2>2, BehindFinite
  <2>5. Cardinality(Behind(d) \cup {c}) = Cardinality(Behind(d)) + 1
    BY <2>2, <2>4, FS_AddElement
  <2>6. Cardinality(Calls) * Stays(d) = Cardinality(Calls) * (Stays(d) - 1) + Cardinality(Calls)
        /\ Cardinality(Calls) * (Stays(d) - 1) \in Nat
    <3>1. Stays(d) - 1 \in Nat /\ (Stays(d) - 1) + 1 = Stays(d)
      BY StaysFacts
    <3> QED BY <3>1, <2>4, Times
  <2>7. posts[d] \in Nat
    BY DEF TypeOK
  <2>8. CASE Contains(snap, d)
    <3>1. posts[d] <= Cardinality(Calls) * (Stays(d) - 1)
      BY <2>1, <2>8, <1>2
    <3>2. posts'[d] + Cardinality(Behind(d)') <= posts[d] + Cardinality(Calls)
      <4>1. CASE d = first
        <5>1. Behind(d)' = Behind(d) /\ posts'[d] = posts[d] + 1
          BY <4>1, <2>3, <1>4, <1>5
        <5> QED BY <5>1, <2>4, <2>7
      <4>2. CASE d # first
        <5>1. Behind(d)' = Behind(d) \cup {c} /\ posts'[d] = posts[d]
          BY <4>2, <2>3, <2>8, <1>4, <1>5
        <5> QED BY <5>1, <2>4, <2>5, <2>7
      <4> QED BY <4>1, <4>2
    <3>3. Contains(pending', d) => posts'[d] = posts[d]
      BY <1>4
    <3>4. posts'[d] \in Nat /\ Cardinality(Behind(d)') \in Nat
      BY <1>4, <2>3, <2>4, <2>5
    <3> QED BY <3>1, <3>2, <3>3, <3>4, <2>4, <2>6, <2>7
  <2>9. CASE ~Contains(snap, d)
    BY <2>1, <2>3, <2>9, <1>4, <1>5
  <2> QED BY <2>8, <2>9
<1>12. NoSilentLoss'
  <2>1. owed \subseteq Deliveries
    BY DEF TypeOK
  <2> QED BY <2>1, <1>1, <1>7 DEF NoSilentLoss, Limit
<1> QED BY <1>8, <1>9, <1>10, <1>11, <1>12

(* What moves from one part of a sum to the other.                         *)
LEMMA Shift == \A m, n \in Nat : (m + 1) + (n - 1) = m + n
OBVIOUS

(* A call that is done with x goes on to rest: what that does to the       *)
(* others, when the map was left as it was or x was put back into it.      *)
Settled(c, x, rest, pend) ==
    /\ todo' \in [Calls -> Seq(Deliveries)] /\ todo'[c] = rest
    /\ \A b \in Calls \ {c} : todo'[b] = todo[b]
    /\ \A b \in Calls : IsInjective(todo'[b])
    /\ pending' \in Seq(Deliveries) /\ IsInjective(pending')
    /\ \A d : Contains(pending', d) <=> Contains(pend, d)
                 /\ ~(rest # <<>> /\ d = Head(rest))
    /\ posts' \in [Deliveries -> Nat]
    /\ \A d \in Deliveries :
         posts'[d] = IF rest # <<>> /\ d = Head(rest) THEN posts[d] + 1 ELSE posts[d]
    /\ \A d : d # x => (Held(d)' <=> Held(d))
    /\ Contains(pend, x) => Held(x)'
    /\ Held(x)' => \/ Contains(pend, x)
                   \/ \E b \in Calls \ {c} : Contains(todo[b], x)
    /\ \A d \in Deliveries :
         posts'[d] + Cardinality(Behind(d)') = posts[d] + Cardinality(Behind(d))

(* A call that settles its delivery holds the rest; nothing but that       *)
(* delivery leaves pending.                                                *)
LEMMA SettleFacts ==
    ASSUME TypeOK, NEW c \in Calls, todo[c] # <<>>,
           NEW x \in Deliveries, NEW rest \in Seq(Deliveries), IsInjective(rest), ~Contains(rest, x),
           \A d : Contains(todo[c], d) <=> d = x \/ Contains(rest, d),
           \A d : c \in Behind(d) <=> Contains(rest, d),
           NEW pend \in Seq(Deliveries), IsInjective(pend),
           \A d : d # x => (Contains(pend, d) <=> Contains(pending, d)),
           Contains(pending, x) => Contains(pend, x),
           Proceed(c, rest, pend)
    PROVE  Settled(c, x, rest, pend)
<1>2. /\ todo' \in [Calls -> Seq(Deliveries)] /\ todo'[c] = rest
      /\ \A b \in Calls \ {c} : todo'[b] = todo[b]
      /\ \A b \in Calls : IsInjective(todo'[b])
      /\ pending' \in Seq(Deliveries) /\ IsInjective(pending')
      /\ \A d : Contains(pending', d) <=> Contains(pend, d) /\ ~(rest # <<>> /\ d = Head(rest))
      /\ posts' \in [Deliveries -> Nat]
      /\ \A d \in Deliveries : posts'[d] = IF rest # <<>> /\ d = Head(rest) THEN posts[d] + 1 ELSE posts[d]
  BY ProceedFacts, Zenon
<1>3. rest # <<>> => /\ Head(rest) \in Deliveries /\ Contains(rest, Head(rest))
                     /\ ~Contains(Tail(rest), Head(rest))
                     /\ \A d : Contains(rest, d) <=> d = Head(rest) \/ Contains(Tail(rest), d)
  BY TailContains, Zenon
<1>4. \A d : Contains(rest, d) => rest # <<>>
  <2>1. \A d : ~Contains(<<>>, d)
    BY DEF Contains
  <2> QED BY <2>1
<1>5. /\ \A d : d # x => (Contains(pend, d) <=> Contains(pending, d))
      /\ Contains(pending, x) => Contains(pend, x)
  OBVIOUS
<1>6. \A d : Held(d)' <=> \/ Contains(pend, d) \/ Contains(rest, d)
                          \/ \E b \in Calls \ {c} : Contains(todo[b], d)
  BY <1>2, <1>3 DEF Held
<1>7. \A d : Held(d) <=> \/ Contains(pending, d) \/ d = x \/ Contains(rest, d)
                         \/ \E b \in Calls \ {c} : Contains(todo[b], d)
  BY DEF Held
<1>8. ASSUME NEW d \in Deliveries
      PROVE  posts'[d] + Cardinality(Behind(d)') = posts[d] + Cardinality(Behind(d))
  <2>1. \A b \in Calls \ {c} : b \in Behind(d)' <=> b \in Behind(d)
    BY <1>2 DEF Behind
  <2>2. c \in Behind(d) <=> Contains(rest, d)
    OBVIOUS
  <2>3. c \in Behind(d)' <=> rest # <<>> /\ Contains(Tail(rest), d)
    BY <1>2 DEF Behind
  <2>4. Behind(d) \subseteq Calls /\ Behind(d)' \subseteq Calls
    BY DEF Behind
  <2>5. IsFiniteSet(Behind(d)) /\ Cardinality(Behind(d)) \in Nat /\ posts[d] \in Nat
    BY BehindFinite DEF TypeOK
  <2>6. CASE rest # <<>> /\ d = Head(rest)
    <3>1. c \in Behind(d) /\ Behind(d)' = Behind(d) \ {c}
      BY <2>1, <2>2, <2>3, <2>4, <2>6, <1>3
    <3>2. Cardinality(Behind(d) \ {c}) = Cardinality(Behind(d)) - 1
      BY <3>1, <2>5, FS_RemoveElement
    <3>3. posts'[d] = posts[d] + 1
      BY <2>6, <1>2
    <3>4. Cardinality(Behind(d)') = Cardinality(Behind(d)) - 1
      BY <3>1, <3>2
    <3> QED BY <3>3, <3>4, <2>5, Shift, Zenon
  <2>7. CASE ~(rest # <<>> /\ d = Head(rest))
    <3>1. c \in Behind(d)' <=> c \in Behind(d)
      BY <2>2, <2>3, <2>7, <1>3, <1>4
    <3>2. \A b \in Calls : b \in Behind(d)' <=> b \in Behind(d)
      BY <3>1, <2>1
    <3>4. Behind(d)' = Behind(d)
      BY <3>2, <2>4
    <3>3. posts'[d] = posts[d]
      BY <2>7, <1>2
    <3> QED BY <3>3, <3>4
  <2> QED BY <2>6, <2>7
<1>9. /\ \A d : d # x => (Held(d)' <=> Held(d))
      /\ Contains(pend, x) => Held(x)'
      /\ Held(x)' => Contains(pend, x) \/ \E b \in Calls \ {c} : Contains(todo[b], x)
  <2>1. ASSUME NEW d, d # x
        PROVE  Held(d)' <=> Held(d)
    <3>1. Contains(pend, d) <=> Contains(pending, d)
      BY <2>1, <1>5
    <3> QED BY <2>1, <3>1, <1>6, <1>7
  <2>2. Contains(pend, x) => Held(x)'
    BY <1>6
  <2>3. Held(x)' => Contains(pend, x) \/ \E b \in Calls \ {c} : Contains(todo[b], x)
    BY <1>6
  <2> QED BY <2>1, <2>2, <2>3
<1> QED BY <1>2, <1>8, <1>9 DEF Settled

(* The same while calls do not overlap: c is the only one. *)
LEMMA SettleAlone ==
    ASSUME TypeOK, Alone, NEW c \in Calls, todo[c] # <<>>, NEW x, NEW rest, x = Head(todo[c]), rest = Tail(todo[c]), ~overlapped,
           todo' \in [Calls -> Seq(Deliveries)], todo'[c] = rest,
           \A b \in Calls \ {c} : todo'[b] = todo[b],
           \A d : d # x /\ d # Head(rest) => (Contains(pending', d) <=> Contains(pending, d)),
           rest # <<>> => ~Contains(pending', Head(rest)),
           \A d \in Deliveries : d # x => due'[d] = due[d]
    PROVE  InTurn'
<1>1. /\ \A b \in Calls : todo[b] # <<>> => b = c
      /\ \A d : Contains(rest, d) => Contains(pending, d)
      /\ \A d : Contains(todo[c], d) => due[d]
  BY DEF Alone, InTurn
<1>2. /\ x \in Deliveries /\ rest \in Seq(Deliveries)
      /\ \A d : Contains(todo[c], d) <=> d = x \/ Contains(rest, d)
      /\ \A d : Contains(todo[c], d) => d \in Deliveries
      /\ IsInjective(rest) /\ ~Contains(rest, x)
  BY HeadHeld
<1>3. rest # <<>> => /\ ~Contains(Tail(rest), Head(rest))
                     /\ \A d : Contains(rest, d) <=> d = Head(rest) \/ Contains(Tail(rest), d)
  BY <1>2, TailContains, Zenon
<1>4. /\ todo'[c] = rest /\ rest # <<>> => ~Contains(pending', Head(rest))
      /\ \A d : d # x /\ d # Head(rest) => (Contains(pending', d) <=> Contains(pending, d))
  OBVIOUS
<1>5. \A b \in Calls : todo'[b] # <<>> => b = c
  BY <1>1
<1>6. rest # <<>> => \A d : Contains(Tail(rest), d) => Contains(pending', d)
  BY <1>1, <1>2, <1>3, <1>4
<1>7. \A d : Contains(rest, d) => due'[d]
  BY <1>1, <1>2
<1> QED BY <1>4, <1>5, <1>6, <1>7 DEF InTurn

(* A delivery that is answered keeps the invariant.                        *)
LEMMA Answered2xxKeeps ==
    ASSUME IInv, NEW c \in Calls, Answered2xx(c)
    PROVE  IInv'
<1>1. /\ todo[c] # <<>> /\ delivered' = delivered \cup {Head(todo[c])}
      /\ Proceed(c, Tail(todo[c]), pending)
      /\ UNCHANGED <<subscription, emitted, attempts, due, deliveryTimer, owed, lost, overlapped>>
  BY DEF Answered2xx
<1>2. PICK x, rest : x = Head(todo[c]) /\ rest = Tail(todo[c])
  OBVIOUS
<1> USE DEF IInv
<1>3. /\ x \in Deliveries /\ rest \in Seq(Deliveries) /\ IsInjective(rest) /\ ~Contains(rest, x)
      /\ \A d : Contains(todo[c], d) <=> d = x \/ Contains(rest, d)
      /\ Held(x)
  BY <1>1, <1>2, HeadHeld
<1>4. \A d : c \in Behind(d) <=> Contains(rest, d)
  BY <1>1, <1>2 DEF Behind
<1>5. pending \in Seq(Deliveries) /\ IsInjective(pending)
  BY DEF TypeOK
<1>6. Proceed(c, rest, pending) /\ delivered' = delivered \cup {x}
  BY <1>1, <1>2
<1>7. Settled(c, x, rest, pending)
  <2>1. TypeOK
    OBVIOUS
  <2>2. \A d : d # x => (Contains(pending, d) <=> Contains(pending, d))
    OBVIOUS
  <2> QED BY <2>1, <2>2, <1>1, <1>3, <1>4, <1>5, <1>6, SettleFacts, Zenon
<1> USE <1>7 DEF Settled
<1>8. TypeOK'
  <2>1. x \in owed
    BY <1>3 DEF Known
  <2> QED BY <2>1, <1>1, <1>6, <1>7 DEF TypeOK
<1>9. ASSUME NEW d \in Deliveries, rest # <<>>, d = Head(rest)
      PROVE  Held(d) /\ Contains(rest, d) /\ d # x
  <2>1. Contains(rest, d)
    BY <1>3, <1>9, TailContains, Zenon
  <2> QED BY <2>1, <1>3 DEF Held
<1>10. Known'
  BY <1>1, <1>3, <1>7, <1>9 DEF Known
<1>11. Alone'
  <2> SUFFICES ASSUME ~overlapped
               PROVE  Alone'
    BY <1>1 DEF Alone, InTurn
  <2>1. ~Contains(pending, x) /\ \A b \in Calls \ {c} : todo[b] = <<>>
    BY <1>1, <1>2 DEF Alone, InTurn
  <2>2. ~Held(x)'
    <3>1. \A d : ~Contains(<<>>, d)
      BY DEF Contains
    <3> QED BY <3>1, <2>1, <1>7
  <2>3. InTurn'
    <3>1. \A d : d # x /\ d # Head(rest) => (Contains(pending', d) <=> Contains(pending, d))
      BY <1>7
    <3>2. rest # <<>> => ~Contains(pending', Head(rest))
      BY <1>7
    <3>3. \A d \in Deliveries : d # x => due'[d] = due[d]
      BY <1>1
    <3> QED BY <3>1, <3>2, <3>3, <1>1, <1>2, <1>7, SettleAlone, Zenon
  <2>4. ASSUME NEW d \in Deliveries
        PROVE  /\ posts'[d] <= Limit /\ posts'[d] <= attempts[d] + 1
               /\ Held(d)' => attempts[d] < Limit /\ d \notin delivered'
               /\ Contains(pending', d) => posts'[d] <= attempts[d]
    <3>1. /\ posts[d] <= Limit /\ posts[d] <= attempts[d] + 1
          /\ Held(d) => attempts[d] < Limit /\ d \notin delivered
          /\ Contains(pending, d) => posts[d] <= attempts[d]
      BY DEF Alone, InTurn
    <3>2. attempts[d] \in Nat /\ posts[d] \in Nat /\ Limit \in Nat
      BY LimitFacts DEF TypeOK
    <3>3. Held(d)' => attempts[d] < Limit /\ d \notin delivered'
      BY <3>1, <2>2, <1>6, <1>7
    <3>4. CASE rest # <<>> /\ d = Head(rest)
      <4>1. Contains(pending, d)
        BY <3>4, <1>1, <1>2, <1>9 DEF Alone, InTurn
      <4>2. posts'[d] = posts[d] + 1 /\ Held(d)
        BY <3>4, <1>7, <1>9
      <4>3. ~Contains(pending', d)
        BY <3>4, <1>7
      <4> QED BY <4>1, <4>2, <4>3, <3>1, <3>2, <3>3
    <3>5. CASE ~(rest # <<>> /\ d = Head(rest))
      <4>1. posts'[d] = posts[d] /\ (Contains(pending', d) => Contains(pending, d))
        BY <3>5, <1>7
      <4> QED BY <4>1, <3>1, <3>3
    <3> QED BY <3>4, <3>5
  <2> QED BY <2>3, <2>4, <1>1 DEF Alone, InTurn, Limit
<1>12. StaysBound'
  <2> SUFFICES ASSUME NEW d \in Deliveries
               PROVE  /\ Contains(pending', d) => posts'[d] <= Cardinality(Calls) * (Stays(d) - 1)
                      /\ posts'[d] + Cardinality(Behind(d)') <= Cardinality(Calls) * Stays(d)
    <3>1. \A d \in Deliveries : Stays(d)' = Stays(d)
      BY <1>1 DEF Stays
    <3> QED BY <3>1 DEF StaysBound
  <2>1. /\ Contains(pending, d) => posts[d] <= Cardinality(Calls) * (Stays(d) - 1)
        /\ posts[d] + Cardinality(Behind(d)) <= Cardinality(Calls) * Stays(d)
    BY DEF StaysBound
  <2>2. Contains(pending', d) => posts'[d] = posts[d] /\ Contains(pending, d)
    BY <1>7
  <2>3. posts'[d] + Cardinality(Behind(d)') = posts[d] + Cardinality(Behind(d))
    BY <1>7
  <2> QED BY <2>1, <2>2, <2>3
<1>13. NoSilentLoss'
  BY <1>1, <1>6, <1>7 DEF NoSilentLoss, Limit
<1> QED BY <1>8, <1>10, <1>11, <1>12, <1>13

(* A delivery that fails keeps the invariant: it is pending again, or      *)
(* given up at its limit.                                                  *)
LEMMA DeliveryFailsKeeps ==
    ASSUME IInv, NEW c \in Calls, DeliveryFails(c)
    PROVE  IInv'
<1>1. PICK x, rest, n, pend :
         /\ x = Head(todo[c]) /\ rest = Tail(todo[c]) /\ n = attempts[x] + 1
         /\ pend = IF MayRetry(n) THEN Put(x, pending) ELSE pending
  OBVIOUS
<1>2. /\ todo[c] # <<>>
      /\ attempts' = [attempts EXCEPT ![x] = n]
      /\ due' = [due EXCEPT ![x] = @ /\ ~MayRetry(n)]
      /\ Proceed(c, rest, pend)
      /\ UNCHANGED <<subscription, emitted, deliveryTimer, owed, delivered, lost, overlapped>>
  BY <1>1 DEF DeliveryFails
<1> USE DEF IInv
<1>3. /\ x \in Deliveries /\ rest \in Seq(Deliveries) /\ IsInjective(rest) /\ ~Contains(rest, x)
      /\ \A d : Contains(todo[c], d) <=> d = x \/ Contains(rest, d)
      /\ Held(x)
  BY <1>1, <1>2, HeadHeld
<1>4. \A d : c \in Behind(d) <=> Contains(rest, d)
  BY <1>1, <1>2 DEF Behind
<1>5. pending \in Seq(Deliveries) /\ IsInjective(pending)
  BY DEF TypeOK
<1>6. /\ pend \in Seq(Deliveries) /\ IsInjective(pend)
      /\ \A d : d # x => (Contains(pend, d) <=> Contains(pending, d))
      /\ Contains(pend, x) <=> Contains(pending, x) \/ MayRetry(n)
  BY <1>1, <1>3, <1>5, PutFacts
<1>8. /\ attempts[x] \in Nat /\ n \in Nat \ {0} /\ attempts' \in [Deliveries -> Nat] /\ attempts'[x] = n
      /\ \A d \in Deliveries : d # x => attempts'[d] = attempts[d] /\ due'[d] = due[d]
      /\ \A d \in Deliveries : attempts[d] <= attempts'[d]
      /\ MayRetry(n) <=> n < Limit
  <2>1. attempts \in [Deliveries -> Nat] /\ due \in [Deliveries -> BOOLEAN]
    BY DEF TypeOK
  <2>2. attempts[x] \in Nat
    BY <2>1, <1>3
  <2>3. n = attempts[x] + 1
    BY <1>1
  <2>4. n \in Nat \ {0} /\ attempts[x] <= n
    BY <2>2, <2>3
  <2>5. attempts' \in [Deliveries -> Nat] /\ attempts'[x] = n
        /\ \A d \in Deliveries : d # x => attempts'[d] = attempts[d] /\ due'[d] = due[d]
    BY <2>1, <2>4, <1>2, <1>3
  <2>6. ASSUME NEW d \in Deliveries
        PROVE  attempts[d] <= attempts'[d]
    <3>1. CASE d = x
      BY <3>1, <2>4, <2>5
    <3>2. CASE d # x
      <4>1. attempts'[d] = attempts[d] /\ attempts[d] \in Nat
        BY <3>2, <2>1, <2>5
      <4> QED BY <4>1
    <3> QED BY <3>1, <3>2
  <2> QED BY <2>2, <2>4, <2>5, <2>6, LimitFacts
<1>7. Settled(c, x, rest, pend)
  <2>1. TypeOK
    OBVIOUS
  <2>2. Contains(pending, x) => Contains(pend, x)
    BY <1>6
  <2> QED BY <2>1, <2>2, <1>2, <1>3, <1>4, <1>6, SettleFacts, Zenon
<1> USE <1>7 DEF Settled
<1>9. TypeOK'
  <2>1. due' \in [Deliveries -> BOOLEAN]
    <3>1. (due[x] /\ ~MayRetry(n)) \in BOOLEAN
      OBVIOUS
    <3> QED BY <3>1, <1>2 DEF TypeOK
  <2> QED BY <2>1, <1>2, <1>8 DEF TypeOK
<1>10. ASSUME NEW d \in Deliveries, rest # <<>>, d = Head(rest)
       PROVE  Held(d) /\ Contains(rest, d) /\ d # x
  <2>1. Contains(rest, d)
    BY <1>3, <1>10, TailContains, Zenon
  <2> QED BY <2>1, <1>3 DEF Held
<1>11. \A d : Held(d)' => Held(d)
  BY <1>3
<1>12. Known'
  <2>1. \A d \in Deliveries : d \notin owed => d # x /\ (rest # <<>> => d # Head(rest))
    BY <1>3, <1>10 DEF Known
  <2> QED BY <2>1, <1>2, <1>8, <1>11 DEF Known
<1>13. Alone'
  <2> SUFFICES ASSUME ~overlapped
               PROVE  Alone'
    BY <1>2 DEF Alone, InTurn
  <2>1. ~Contains(pending, x) /\ \A b \in Calls \ {c} : todo[b] = <<>>
    BY <1>1, <1>2 DEF Alone, InTurn
  <2>2. Held(x)' => MayRetry(n)
    <3>1. \A d : ~Contains(<<>>, d)
      BY DEF Contains
    <3> QED BY <3>1, <2>1, <1>6
  <2>3. InTurn'
    <3>1. \A d : d # x /\ d # Head(rest) => (Contains(pending', d) <=> Contains(pending, d))
      BY <1>6
    <3>2. rest # <<>> => ~Contains(pending', Head(rest))
      OBVIOUS
    <3>3. \A d \in Deliveries : d # x => due'[d] = due[d]
      BY <1>8
    <3>4. /\ todo' \in [Calls -> Seq(Deliveries)] /\ todo'[c] = rest
          /\ \A b \in Calls \ {c} : todo'[b] = todo[b]
      OBVIOUS
    <3>5. TypeOK /\ Alone /\ x = Head(todo[c]) /\ rest = Tail(todo[c]) /\ todo[c] # <<>>
      BY <1>1, <1>2
    <3>6. ~overlapped
      OBVIOUS
    <3> HIDE <1>7
    <3> QED BY <3>1, <3>2, <3>3, <3>4, <3>5, <3>6, SettleAlone, ZenonT(30)
  <2>4. ASSUME NEW d \in Deliveries
        PROVE  /\ posts'[d] <= Limit /\ posts'[d] <= attempts'[d] + 1
               /\ Held(d)' => attempts'[d] < Limit /\ d \notin delivered
               /\ Contains(pending', d) => posts'[d] <= attempts'[d]
    <3>1. /\ posts[d] <= Limit /\ posts[d] <= attempts[d] + 1
          /\ Held(d) => attempts[d] < Limit /\ d \notin delivered
          /\ Contains(pending, d) => posts[d] <= attempts[d]
      BY DEF Alone, InTurn
    <3>2. attempts[d] \in Nat /\ posts[d] \in Nat /\ Limit \in Nat
      BY LimitFacts DEF TypeOK
    <3>3. CASE d = x
      <4>1. posts'[d] = posts[d]
        BY <3>3, <1>10
      <4>2. attempts'[d] = attempts[d] + 1
        BY <3>3, <1>1, <1>8
      <4>3. Held(d)' => attempts'[d] < Limit /\ d \notin delivered
        BY <3>1, <3>3, <2>2, <1>8, <1>3
      <4> QED BY <4>1, <4>2, <4>3, <3>1, <3>2
    <3>4. CASE d # x /\ rest # <<>> /\ d = Head(rest)
      <4>1. Contains(pending, d)
        BY <3>4, <1>1, <1>2, <1>10 DEF Alone, InTurn
      <4>2. posts'[d] = posts[d] + 1 /\ Held(d) /\ attempts'[d] = attempts[d]
        BY <3>4, <1>8, <1>10
      <4>3. ~Contains(pending', d)
        BY <3>4
      <4> QED BY <4>1, <4>2, <4>3, <3>1, <3>2
    <3>5. CASE d # x /\ ~(rest # <<>> /\ d = Head(rest))
      <4>1. posts'[d] = posts[d] /\ (Contains(pending', d) => Contains(pending, d)) /\ attempts'[d] = attempts[d]
        BY <3>5, <1>6, <1>8
      <4> QED BY <4>1, <3>1, <1>11
    <3> QED BY <3>3, <3>4, <3>5
  <2> QED BY <2>3, <2>4, <1>2 DEF Alone, InTurn, Limit
<1>14. StaysBound'
  <2> SUFFICES ASSUME NEW d \in Deliveries
               PROVE  /\ Contains(pending', d) => posts'[d] <= Cardinality(Calls) * (Stays(d)' - 1)
                      /\ posts'[d] + Cardinality(Behind(d)') <= Cardinality(Calls) * Stays(d)'
    BY DEF StaysBound
  <2>1. /\ Contains(pending, d) => posts[d] <= Cardinality(Calls) * (Stays(d) - 1)
        /\ posts[d] + Cardinality(Behind(d)) <= Cardinality(Calls) * Stays(d)
    BY DEF StaysBound
  <2>2. posts'[d] + Cardinality(Behind(d)') = posts[d] + Cardinality(Behind(d))
    OBVIOUS
  <2>3. Limit' = Limit
    BY DEF Limit
  <2>4. Stays(d) \in Nat \ {0} /\ Stays(d)' \in Nat \ {0} /\ Stays(d) <= Stays(d)'
    <3>1. attempts[d] \in Nat /\ attempts'[d] \in Nat /\ attempts[d] <= attempts'[d]
      BY <1>8 DEF TypeOK
    <3> HIDE <1>7
    <3>2. Limit \in Nat \ {0}
      BY LimitFacts
    <3>3. Stays(d) = (IF attempts[d] < Limit THEN attempts[d] + 1 ELSE Limit)
          /\ Stays(d)' = (IF attempts'[d] < Limit THEN attempts'[d] + 1 ELSE Limit)
      BY <2>3 DEF Stays
    <3>4. \A i, j, l \in Nat : i <= j => (IF i < l THEN i + 1 ELSE l) <= (IF j < l THEN j + 1 ELSE l)
      OBVIOUS
    <3> QED BY <3>1, <3>2, <3>3, <3>4
  <2>5. Cardinality(Calls) \in Nat /\ Cardinality(Behind(d)) \in Nat /\ posts[d] \in Nat /\ posts'[d] \in Nat
    BY BehindFinite DEF TypeOK
  <2>6. Cardinality(Calls) * Stays(d) <= Cardinality(Calls) * Stays(d)'
        /\ Cardinality(Calls) * Stays(d) \in Nat /\ Cardinality(Calls) * Stays(d)' \in Nat
    BY <2>4, <2>5, Times
  <2>7. posts'[d] + Cardinality(Behind(d)') <= Cardinality(Calls) * Stays(d)'
    BY <2>1, <2>2, <2>5, <2>6
  <2>8. ASSUME Contains(pending', d)
        PROVE  posts'[d] <= Cardinality(Calls) * (Stays(d)' - 1)
    <3>1. Contains(pend, d) /\ posts'[d] = posts[d]
      BY <2>8
    <3>2. CASE Contains(pending, d)
      <4>1. Stays(d) - 1 \in Nat /\ Stays(d)' - 1 \in Nat /\ Stays(d) - 1 <= Stays(d)' - 1
        BY <2>4
      <4>2. Cardinality(Calls) * (Stays(d) - 1) <= Cardinality(Calls) * (Stays(d)' - 1)
            /\ Cardinality(Calls) * (Stays(d) - 1) \in Nat /\ Cardinality(Calls) * (Stays(d)' - 1) \in Nat
        BY <4>1, <2>5, Times
      <4> QED BY <4>2, <3>1, <3>2, <2>1, <2>5
    <3>3. CASE d = x /\ MayRetry(n)
      <4>1. Stays(d)' - 1 = Stays(d)
        BY <3>3, <2>3, <1>1, <1>8, LimitFacts DEF Stays
      <4> QED BY <4>1, <3>1, <2>1, <2>5, <2>6
    <3> QED BY <3>1, <3>2, <3>3, <1>6
  <2> QED BY <2>7, <2>8
<1>15. NoSilentLoss'
  <2> SUFFICES ASSUME NEW d \in owed
               PROVE  Held(d)' \/ d \in delivered \cup lost \/ attempts'[d] >= Limit
    BY <1>2 DEF NoSilentLoss, Limit
  <2>1. Held(d) \/ d \in delivered \cup lost \/ attempts[d] >= Limit
    BY DEF NoSilentLoss
  <2>2. d \in Deliveries /\ attempts[d] \in Nat /\ attempts'[d] \in Nat /\ Limit \in Nat
    BY <1>8, LimitFacts DEF TypeOK
  <2>3. CASE d = x
    BY <2>2, <2>3, <1>6, <1>8
  <2>4. CASE d # x
    BY <2>1, <2>2, <2>4, <1>8
  <2> QED BY <2>3, <2>4
<1> QED BY <1>9, <1>12, <1>13, <1>14, <1>15

(* The service starts as the invariant says.                               *)
LEMMA InitKeeps == Init => IInv
<1> SUFFICES ASSUME Init
             PROVE  IInv
  OBVIOUS
<1> USE DEF Init
<1>1. \A d : ~Contains(<<>>, d)
  BY DEF Contains
<1>2. \A d : ~Held(d)
  BY <1>1 DEF Held
<1>3. TypeOK
  <2>1. pending \in Seq(Deliveries) /\ IsInjective(pending)
    BY DEF IsInjective
  <2>2. \A c \in Calls : todo[c] \in Seq(Deliveries) /\ IsInjective(todo[c])
    BY DEF IsInjective
  <2> QED BY <2>1, <2>2 DEF TypeOK
<1>4. Known /\ NoSilentLoss
  BY <1>2 DEF Known, NoSilentLoss
<1>5. Alone
  BY <1>1, <1>2, LimitFacts DEF Alone, InTurn
<1>6. StaysBound
  <2> SUFFICES ASSUME NEW d \in Deliveries
               PROVE  posts[d] + Cardinality(Behind(d)) <= Cardinality(Calls) * Stays(d)
    BY <1>1 DEF StaysBound
  <2>1. Behind(d) = {} /\ Cardinality({}) = 0
    BY FS_EmptySet DEF Behind
  <2>2. Stays(d) \in Nat
    BY <1>3, StaysFacts
  <2>3. Cardinality(Calls) * Stays(d) \in Nat
    BY <2>2, BehindFinite
  <2> QED BY <2>1, <2>3
<1> QED BY <1>3, <1>4, <1>5, <1>6 DEF IInv

(* Every step of the service keeps the invariant.                          *)
LEMMA NextKeeps == IInv /\ [Next]_vars => IInv'
<1> SUFFICES ASSUME IInv, [Next]_vars
             PROVE  IInv'
  OBVIOUS
<1>1. CASE UNCHANGED vars
  BY <1>1, QuietSteps
<1>2. ASSUME NEW s \in Subs,
             \/ CreateSubscription(s) \/ DeleteSubscription(s)
             \/ \E to \in {"enabled", "disabled"} : UpdateSubscription(s, to)
      PROVE  IInv'
  BY <1>2, QuietSteps DEF CreateSubscription, DeleteSubscription, UpdateSubscription
<1>3. ASSUME NEW e \in Events, EmitEvent(e)
      PROVE  IInv'
  BY <1>3, EmitEventKeeps
<1>4. ASSUME NEW c \in Calls, IntervalFires(c) \/ Settles(c)
      PROVE  IInv'
  BY <1>4, IntervalFiresKeeps, Answered2xxKeeps, DeliveryFailsKeeps DEF Settles
<1>5. ASSUME NEW d \in Deliveries, BackoffElapses(d)
      PROVE  IInv'
  BY <1>5, QuietSteps
<1>6. CASE Destroy
  BY <1>6, QuietSteps
<1>7. CASE Restart
  BY <1>7, RestartKeeps
<1> QED BY <1>1, <1>2, <1>3, <1>4, <1>5, <1>6, <1>7 DEF Next

(* In every reachable state the invariant of the proof holds: in           *)
(* particular a call's snapshot holds each delivery once.                  *)
THEOREM WebhookInvariant == Spec => []IInv
BY InitKeeps, NextKeeps, PTL DEF Spec

(* webhook_service.ts:140-163: the loop lets a delivery go only when it    *)
(* was answered 2xx or has used up its attempts.                           *)
THEOREM NothingIsLostSilently == Spec => []NoSilentLoss
<1>1. IInv => NoSilentLoss
  BY DEF IInv
<1> QED BY <1>1, WebhookInvariant, PTL

(* The invariant has the bounds on attempts and on overlaps.               *)
LEMMA BoundsFollow == IInv => TypeOK /\ AttemptsBounded /\ OverlapBounded
<1> SUFFICES ASSUME IInv
             PROVE  TypeOK /\ AttemptsBounded /\ OverlapBounded
  OBVIOUS
<1>1. AttemptsBounded
  BY DEF IInv, TypeOK, Alone, AttemptsBounded
<1>2. OverlapBounded
  <2> SUFFICES ASSUME NEW d \in Deliveries
               PROVE  posts[d] <= Cardinality(Calls) * Limit
    BY DEF OverlapBounded
  <2>1. posts[d] + Cardinality(Behind(d)) <= Cardinality(Calls) * Stays(d) /\ posts[d] \in Nat
    BY DEF IInv, StaysBound, TypeOK
  <2>2. Cardinality(Behind(d)) \in Nat /\ Cardinality(Calls) \in Nat
    BY BehindFinite
  <2>3. Stays(d) \in Nat /\ Limit \in Nat /\ Stays(d) <= Limit
    BY LimitFacts DEF Stays, IInv, TypeOK
  <2>4. /\ Cardinality(Calls) * Stays(d) <= Cardinality(Calls) * Limit
        /\ Cardinality(Calls) * Stays(d) \in Nat /\ Cardinality(Calls) * Limit \in Nat
    BY <2>2, <2>3, Times
  <2> QED BY <2>1, <2>2, <2>4
<1> QED BY <1>1, <1>2 DEF IInv

(* The POST a call sends is of the first delivery of what it goes on with. *)
LEMMA ProceedSends ==
    ASSUME TypeOK, NEW c \in Calls, NEW rest, NEW pend, Proceed(c, rest, pend),
           NEW d \in Deliveries, posts'[d] > posts[d]
    PROVE  rest # <<>> /\ d = Head(rest)
BY DEF Proceed, TypeOK

(* While calls do not overlap only what is due is sent.                    *)
LEMMA SendsDue ==
    IInv /\ [Next]_vars => (~overlapped => \A d \in Deliveries : posts'[d] > posts[d] => due[d])
<1> SUFFICES ASSUME IInv, [Next]_vars, ~overlapped, NEW d \in Deliveries, posts'[d] > posts[d]
             PROVE  due[d]
  OBVIOUS
<1>1. TypeOK /\ Alone /\ ~(posts'[d] = posts[d])
  BY DEF IInv, TypeOK
<1>2. PICK c \in Calls : IntervalFires(c) \/ Settles(c)
  BY <1>1 DEF Next, vars, CreateSubscription, DeleteSubscription, UpdateSubscription, Subscribed,
     EmitEvent, BackoffElapses, Destroy, Restart
<1>3. CASE IntervalFires(c)
  <2>1. Snapshot # <<>> /\ d = Head(Snapshot)
    BY <1>1, <1>3, ProceedSends DEF IntervalFires
  <2>2. Contains(Snapshot, d)
    BY <2>1, <1>1, SnapshotFacts, TailContains
  <2> QED BY <2>2, <1>1, SnapshotFacts
<1>4. CASE Settles(c)
  <2>1. PICK pend : todo[c] # <<>> /\ Proceed(c, Tail(todo[c]), pend)
    BY <1>4 DEF Settles, Answered2xx, DeliveryFails
  <2>2. Tail(todo[c]) # <<>> /\ d = Head(Tail(todo[c]))
    BY <1>1, <2>1, ProceedSends
  <2>3. Contains(Tail(todo[c]), d)
    BY <2>1, <2>2, <1>1, HeadHeld, TailContains
  <2>4. Contains(todo[c], d)
    BY <2>1, <2>3, <1>1, HeadHeld
  <2> QED BY <2>1, <2>4, <1>1 DEF Alone, InTurn
<1> QED BY <1>2, <1>3, <1>4

(* webhook_service.ts:138,154: how often, and when at the earliest, a      *)
(* delivery is sent.                                                       *)
THEOREM SendsAreBounded == Spec => SendsBounded
<1> DEFINE A == ~overlapped => \A d \in Deliveries : posts'[d] > posts[d] => due[d]
           B == TypeOK /\ AttemptsBounded /\ OverlapBounded
<1>1. IInv => B
  BY BoundsFollow
<1>2. IInv /\ [Next]_vars => [A]_vars
  BY SendsDue
<1>3. Spec => []B /\ [][A]_vars
  <2> HIDE DEF A, B
  <2> QED BY <1>1, <1>2, WebhookInvariant, PTL DEF Spec
<1> QED BY <1>3 DEF SendsBounded

-----------------------------------------------------------------------------
(* The refinement of RetryJobs, while calls do not overlap and the process *)
(* lives.                                                                  *)
LEMMA PromiseCardinality == \A S : Promise!Cardinality(S) = Cardinality(S)
  BY DEF Promise!Cardinality, Cardinality

\* Some call has it still to send or in flight.
Active(d) == \E c \in Calls : Contains(todo[c], d)

(* What is held stands as it should: it is running in a snapshot, else     *)
(* pending in the map.                                                     *)
LEMMA StandingFacts ==
    ASSUME IInv, ~overlapped, NEW d \in Deliveries
    PROVE  /\ Standing[d] = "new" <=> d \notin owed
           /\ Active(d) => Standing[d] = "running"
           /\ Contains(pending, d) /\ ~Active(d) => Standing[d] = "pending"
           /\ Standing[d] = "running" => Active(d)
<1>1. Active(d) \/ Contains(pending, d) => d \in owed /\ d \notin delivered
  BY DEF IInv, Known, Alone, Held, Active
<1> QED BY <1>1 DEF Standing, Active

(* A step moves the deliveries of S, and no other.                         *)
LEMMA Moves ==
    ASSUME NEW S, NEW to, \A d \in Deliveries : Standing'[d] = IF d \in S THEN to ELSE Standing[d]
    PROVE  Promise!Move(S, to)
<1>1. Standing' = [d \in Deliveries |-> Standing'[d]]
  BY DEF Standing
<1> HIDE DEF Standing
<1>2. Standing' = [d \in Deliveries |-> IF d \in S THEN to ELSE Standing[d]]
  BY <1>1
<1> QED BY <1>2 DEF Promise!Move

(* An event submits what it creates.                                       *)
LEMMA EmitRefines ==
    ASSUME IInv, ~overlapped, NEW e \in Events, EmitEvent(e)
    PROVE  Promise!Next
<1> DEFINE S == Matching(e)
<1>1. /\ owed' = owed \cup S /\ UNCHANGED <<todo, attempts, delivered>>
      /\ S \subseteq Deliveries /\ \A d \in S : d \notin owed /\ ~Held(d)
      /\ Cardinality(S) <= Cardinality(Subs)
      /\ \A d : Contains(pending', d) <=> Contains(pending, d) \/ d \in S
  BY EmitFacts
<1> HIDE DEF S
<1>2. delivered \subseteq owed
  BY DEF IInv, TypeOK
<1>3. ASSUME NEW d \in Deliveries
      PROVE  Standing'[d] = IF d \in S THEN "pending" ELSE Standing[d]
  <2>1. CASE d \in S
    <3>1. d \in owed' /\ d \notin delivered' /\ Contains(pending', d)
          /\ ~\E c \in Calls : Contains(todo'[c], d)
      BY <2>1, <1>1, <1>2 DEF Held
    <3> QED BY <3>1, <2>1 DEF Standing
  <2>2. CASE d \notin S
    BY <2>2, <1>1 DEF Standing
  <2> QED BY <2>1, <2>2
<1>4. S \subseteq Promise!In("new")
  BY <1>1, StandingFacts DEF Promise!In
<1>5. Promise!Cardinality(S) <= Promise!Cardinality(Subs)
  BY <1>1, PromiseCardinality
<1>6. Promise!Submit(S)
  BY <1>1, <1>3, <1>4, <1>5, Moves, PromiseCardinality DEF Promise!Submit
<1> QED BY <1>1, <1>6 DEF Promise!Next

(* A call that takes its snapshot starts all of it at once.                *)
LEMMA IntervalRefines ==
    ASSUME IsFiniteSet(Events), IInv, ~overlapped', NEW c \in Calls, IntervalFires(c)
    PROVE  Promise!Next
<1> DEFINE snap == Snapshot
           S == {d \in Deliveries : Contains(snap, d)}
<1>1. /\ snap # <<>> /\ Proceed(c, snap, pending)
      /\ ~overlapped /\ \A b \in Calls : todo[b] = <<>>
      /\ UNCHANGED <<attempts, owed, delivered>>
  BY DEF IntervalFires
<1>2. /\ TypeOK /\ pending \in Seq(Deliveries) /\ IsInjective(pending)
      /\ snap \in Seq(Deliveries) /\ IsInjective(snap)
      /\ \A d : Contains(snap, d) <=> Contains(pending, d) /\ d \in Deliveries /\ due[d]
  BY SnapshotFacts DEF IInv, TypeOK
<1> HIDE DEF snap
<1>3. /\ todo'[c] = snap /\ \A b \in Calls \ {c} : todo'[b] = todo[b]
      /\ \A d : Contains(pending', d) <=> Contains(pending, d) /\ ~(snap # <<>> /\ d = Head(snap))
  BY <1>1, <1>2, ProceedFacts, Zenon
<1>4. Contains(snap, Head(snap))
  BY <1>1, <1>2, TailContains
<1>5. \A b \in Calls, d \in Deliveries : ~Contains(todo[b], d)
  BY <1>1 DEF Contains
<1>6. ASSUME NEW d \in Deliveries
      PROVE  /\ (\E b \in Calls : Contains(todo'[b], d)) <=> d \in S
             /\ ~\E b \in Calls : Contains(todo[b], d)
             /\ d \notin S => (Contains(pending', d) <=> Contains(pending, d))
  BY <1>3, <1>4, <1>5
<1>7. ASSUME NEW d \in S
      PROVE  d \in owed /\ d \notin delivered /\ Standing[d] = "pending"
  <2>1. Held(d)
    BY <1>2 DEF Held
  <2>2. d \in owed /\ d \notin delivered
    BY <2>1, <1>1 DEF IInv, Known, Alone
  <2> QED BY <2>2, <1>1, <1>2, <1>6, StandingFacts DEF Active
<1>8. ASSUME NEW d \in Deliveries
      PROVE  Standing'[d] = IF d \in S THEN "running" ELSE Standing[d]
  <2>1. CASE d \in S
    BY <2>1, <1>1, <1>6, <1>7 DEF Standing
  <2>2. CASE d \notin S
    <3> HIDE DEF S
    <3> QED BY <2>2, <1>1, <1>6 DEF Standing
  <2> QED BY <2>1, <2>2
<1>9. Promise!Move(S, "running")
  BY <1>8, Moves
<1>10. S \in SUBSET Deliveries /\ S \subseteq Promise!In("pending")
  BY <1>7 DEF Promise!In
<1>11. Promise!Cardinality(Promise!In("running")) + Promise!Cardinality(S) <= Promise!Cardinality(Deliveries)
  <2>1. Promise!In("running") = {}
    BY <1>1, <1>6, StandingFacts DEF Promise!In, Active
  <2>2. IsFiniteSet(Deliveries)
    BY FS_Product, WebhookAssumption DEF Deliveries
  <2>3. /\ Cardinality(S) <= Cardinality(Deliveries) /\ Cardinality({}) = 0
        /\ Cardinality(S) \in Nat
    BY <2>2, FS_Subset, FS_EmptySet, FS_CardinalityType
  <2> HIDE DEF S
  <2>4. Promise!Cardinality({}) = 0
    BY <2>3, PromiseCardinality, Zenon
  <2>5. Promise!Cardinality(S) = Cardinality(S) /\ Promise!Cardinality(Deliveries) = Cardinality(Deliveries)
    BY PromiseCardinality, Zenon
  <2> QED BY <2>1, <2>3, <2>4, <2>5
<1>12. Promise!Start(S)
  BY <1>1, <1>9, <1>10, <1>11, PromiseCardinality DEF Promise!Start
<1> QED BY <1>10, <1>12 DEF Promise!Next

(* Where the others stand when a call is done with x.                      *)
LEMMA OthersStand ==
    ASSUME IInv, ~overlapped, NEW c \in Calls, todo[c] # <<>>,
           NEW pend \in Seq(Deliveries), IsInjective(pend),
           \A d : d # Head(todo[c]) => (Contains(pend, d) <=> Contains(pending, d)),
           Proceed(c, Tail(todo[c]), pend)
    PROVE  /\ Standing[Head(todo[c])] = "running" /\ Head(todo[c]) \in Deliveries
           /\ Head(todo[c]) \in owed /\ Head(todo[c]) \notin delivered
           /\ attempts[Head(todo[c])] < Limit
           /\ ~Contains(pending, Head(todo[c]))
           /\ ~\E b \in Calls : Contains(todo'[b], Head(todo[c]))
           /\ Contains(pending', Head(todo[c])) <=> Contains(pend, Head(todo[c]))
           /\ \A d \in Deliveries : d # Head(todo[c]) =>
                /\ (\E b \in Calls : Contains(todo'[b], d)) <=> (\E b \in Calls : Contains(todo[b], d))
                /\ ~(\E b \in Calls : Contains(todo[b], d)) => (Contains(pending', d) <=> Contains(pending, d))
<1>1. PICK x, rest : x = Head(todo[c]) /\ rest = Tail(todo[c])
  OBVIOUS
<1>2. TypeOK /\ Alone /\ InTurn
  BY DEF IInv, Alone
<1>3. /\ x \in Deliveries /\ rest \in Seq(Deliveries) /\ IsInjective(rest) /\ ~Contains(rest, x)
      /\ \A d : Contains(todo[c], d) <=> d = x \/ Contains(rest, d)
      /\ Held(x)
  BY <1>1, <1>2, HeadHeld
<1>4. /\ todo'[c] = rest /\ \A b \in Calls \ {c} : todo'[b] = todo[b]
      /\ \A d : Contains(pending', d) <=> Contains(pend, d) /\ ~(rest # <<>> /\ d = Head(rest))
  BY <1>1, <1>2, <1>3, ProceedFacts, Zenon
<1>5. rest # <<>> => Contains(rest, Head(rest))
  BY <1>3, TailContains, Zenon
<1>6. \A b \in Calls \ {c}, d \in Deliveries : ~Contains(todo[b], d)
  <2>1. \A b \in Calls \ {c} : todo[b] = <<>>
    BY <1>2 DEF InTurn
  <2> QED BY <2>1 DEF Contains
<1>7. /\ x \in owed /\ x \notin delivered /\ attempts[x] < Limit /\ ~Contains(pending, x)
      /\ Standing[x] = "running"
  <2>1. Active(x)
    BY <1>3 DEF Active
  <2> QED BY <2>1, <1>1, <1>2, <1>3, StandingFacts DEF IInv, Known, Alone, InTurn
<1>8. /\ ~\E b \in Calls : Contains(todo'[b], x)
      /\ Contains(pending', x) <=> Contains(pend, x)
  BY <1>3, <1>4, <1>5, <1>6
<1>9. ASSUME NEW d \in Deliveries, d # x
      PROVE  /\ (\E b \in Calls : Contains(todo'[b], d)) <=> (\E b \in Calls : Contains(todo[b], d))
             /\ ~(\E b \in Calls : Contains(todo[b], d)) => (Contains(pending', d) <=> Contains(pending, d))
  <2>1. \A b \in Calls : Contains(todo'[b], d) <=> Contains(todo[b], d)
    BY <1>3, <1>4, <1>9
  <2>2. Contains(pend, d) <=> Contains(pending, d)
    BY <1>1, <1>9
  <2> QED BY <2>1, <2>2, <1>3, <1>4, <1>5
<1> QED BY <1>1, <1>3, <1>7, <1>8, <1>9

(* A delivery that is answered is complete.                                *)
LEMMA AnsweredRefines ==
    ASSUME IInv, ~overlapped, NEW c \in Calls, Answered2xx(c)
    PROVE  Promise!Next
<1>1. PICK x : x = Head(todo[c])
  OBVIOUS
<1>2. /\ todo[c] # <<>> /\ delivered' = delivered \cup {x} /\ Proceed(c, Tail(todo[c]), pending)
      /\ UNCHANGED <<attempts, owed>>
  BY <1>1 DEF Answered2xx
<1>3. pending \in Seq(Deliveries) /\ IsInjective(pending)
  BY DEF IInv, TypeOK
<1>4. /\ Standing[x] = "running" /\ x \in Deliveries /\ x \in owed
      /\ \A d \in Deliveries : d # x =>
           /\ (\E b \in Calls : Contains(todo'[b], d)) <=> (\E b \in Calls : Contains(todo[b], d))
           /\ ~(\E b \in Calls : Contains(todo[b], d)) => (Contains(pending', d) <=> Contains(pending, d))
  BY <1>1, <1>2, <1>3, OthersStand
<1>5. ASSUME NEW d \in Deliveries
      PROVE  Standing'[d] = IF d \in {x} THEN "completed" ELSE Standing[d]
  BY <1>2, <1>4 DEF Standing
<1>6. Promise!Move({x}, "completed")
  BY <1>5, Moves
<1>7. Promise!Complete(x)
  BY <1>2, <1>4, <1>6 DEF Promise!Complete
<1> QED BY <1>4, <1>7 DEF Promise!Next

(* A delivery that fails has used an attempt.                              *)
LEMMA FailsRefines ==
    ASSUME IInv, ~overlapped, NEW c \in Calls, DeliveryFails(c)
    PROVE  Promise!Next
<1>1. PICK x, n, pend : /\ x = Head(todo[c]) /\ n = attempts[x] + 1
                        /\ pend = IF MayRetry(n) THEN Put(x, pending) ELSE pending
  OBVIOUS
<1>2. /\ todo[c] # <<>> /\ attempts' = [attempts EXCEPT ![x] = n] /\ Proceed(c, Tail(todo[c]), pend)
      /\ UNCHANGED <<owed, delivered>>
  BY <1>1 DEF DeliveryFails
<1>3. pending \in Seq(Deliveries) /\ IsInjective(pending) /\ x \in Deliveries
  BY <1>1, <1>2, HeadHeld DEF IInv, TypeOK
<1>4. /\ pend \in Seq(Deliveries) /\ IsInjective(pend)
      /\ \A d : d # x => (Contains(pend, d) <=> Contains(pending, d))
      /\ Contains(pend, x) <=> Contains(pending, x) \/ MayRetry(n)
  BY <1>1, <1>3, PutFacts
<1>5. /\ Standing[x] = "running" /\ x \in owed /\ x \notin delivered
      /\ ~Contains(pending, x) /\ ~\E b \in Calls : Contains(todo'[b], x)
      /\ Contains(pending', x) <=> Contains(pend, x)
      /\ \A d \in Deliveries : d # x =>
           /\ (\E b \in Calls : Contains(todo'[b], d)) <=> (\E b \in Calls : Contains(todo[b], d))
           /\ ~(\E b \in Calls : Contains(todo[b], d)) => (Contains(pending', d) <=> Contains(pending, d))
  BY <1>1, <1>2, <1>4, OthersStand
<1>6. ASSUME NEW d \in Deliveries
      PROVE  Standing'[d] = IF d \in {x} THEN IF n < maxRetries THEN "pending" ELSE "failed"
                                          ELSE Standing[d]
  <2>1. CASE d = x
    BY <2>1, <1>2, <1>4, <1>5 DEF Standing, MayRetry
  <2>2. CASE d # x
    BY <2>2, <1>2, <1>5 DEF Standing
  <2> QED BY <2>1, <2>2
<1>7. Promise!Move({x}, IF attempts[x] + 1 < maxRetries THEN "pending" ELSE "failed")
  BY <1>1, <1>6, Moves
<1>8. Promise!UseAttempt(x)
  BY <1>1, <1>2, <1>5, <1>7 DEF Promise!UseAttempt
<1> QED BY <1>3, <1>8 DEF Promise!Next

(* Every step in which calls do not overlap and the process lives is a     *)
(* step of RetryJobs or none.                                              *)
LEMMA StepKeepsPromise ==
    ASSUME IsFiniteSet(Events), IInv, [Next]_vars, ~overlapped', ~Restart
    PROVE  [Promise!Next]_(Promise!jobVars)
<1>1. ASSUME UNCHANGED <<pending, todo, attempts, owed, delivered>>
      PROVE  [Promise!Next]_(Promise!jobVars)
  BY <1>1 DEF Promise!jobVars, Standing
<1>2. CASE UNCHANGED vars
  BY <1>1, <1>2 DEF vars
<1>3. ASSUME NEW s \in Subs,
             \/ CreateSubscription(s) \/ DeleteSubscription(s)
             \/ \E to \in {"enabled", "disabled"} : UpdateSubscription(s, to)
      PROVE  [Promise!Next]_(Promise!jobVars)
  BY <1>1, <1>3 DEF CreateSubscription, DeleteSubscription, UpdateSubscription, Subscribed
<1>4. ASSUME NEW e \in Events, EmitEvent(e)
      PROVE  Promise!Next
  <2>1. ~overlapped
    BY <1>4 DEF EmitEvent
  <2> QED BY <2>1, <1>4, EmitRefines
<1>5. ASSUME NEW c \in Calls, IntervalFires(c)
      PROVE  Promise!Next
  BY <1>5, IntervalRefines
<1>6. ASSUME NEW c \in Calls, Settles(c)
      PROVE  Promise!Next
  <2>1. ~overlapped
    BY <1>6 DEF Settles, Answered2xx, DeliveryFails
  <2> QED BY <2>1, <1>6, AnsweredRefines, FailsRefines DEF Settles
<1>7. ASSUME NEW d \in Deliveries, BackoffElapses(d)
      PROVE  [Promise!Next]_(Promise!jobVars)
  BY <1>1, <1>7 DEF BackoffElapses
<1>8. CASE Destroy
  BY <1>1, <1>8 DEF Destroy
<1> QED BY <1>2, <1>3, <1>4, <1>5, <1>6, <1>7, <1>8 DEF Next

(* webhook_service.ts:119-163: what the retry queue promises of its     *)
(* items the delivery loop promises of its deliveries, as long as its      *)
(* calls do not overlap.                                                   *)
THEOREM DeliveriesKeepRetryJobs ==
    ASSUME IsFiniteSet(Events)
    PROVE  Spec => KeepsRetryJobs
<1> DEFINE A == ~overlapped' /\ ~Restart => [Promise!Next]_(Promise!jobVars)
<1>1. Init => Promise!Init
  BY DEF Init, Promise!Init, Standing
<1>2. IInv /\ [Next]_vars => [A]_vars
  BY StepKeepsPromise
<1>3. Spec => Promise!Init /\ [][A]_vars
  <2> HIDE DEF A
  <2> QED BY <1>1, <1>2, WebhookInvariant, PTL DEF Spec
<1> QED BY <1>3 DEF KeepsRetryJobs

-----------------------------------------------------------------------------
(***************************************************************************)
(* For every size of the buffer and any number of connections, emissions   *)
(* and notices of a close, however late: a connection is written what it is*)
(* owed.                                                                   *)
(*                                                                         *)
(* What the proof rests on is the buffer: it is the end of the sequence of *)
(* all emissions, cut only when it is over its size.                       *)
(***************************************************************************)

Emissions == [e \in DOMAIN topic |-> e]

Conn == [id : Clients, topics : TopicSets, closed : BOOLEAN, resumed : BOOLEAN,
         openedAt : Nat, written : Seq(Nat)]

StreamTypes ==
    /\ conns \in Seq(Conn) /\ topic \in Seq(Topics) /\ eventBuffer \in Seq(Nat)
    /\ clients \in [Clients -> 0 .. Len(conns)]
    /\ \A c \in DOMAIN conns : conns[c].openedAt <= Len(topic)

\* old are the emissions that were cut off.
CutOff(old) ==
    /\ Emissions = old \o eventBuffer
    /\ old # <<>> => Len(eventBuffer) = MAX_BUFFER_SIZE

BufferIsEnd ==
    /\ Len(eventBuffer) <= MAX_BUFFER_SIZE
    /\ \E old \in Seq(Nat) : CutOff(old)

Wanted(c) == {e \in DOMAIN topic :
    /\ e > conns[c].openedAt - (IF conns[c].resumed THEN MAX_BUFFER_SIZE ELSE 0)
    /\ Matches(conns[c].topics, topic[e])}

Written(c) ==
    /\ Listed(c) => ~conns[c].closed /\ conns[c].written = Owed(c)
    /\ ~Listed(c) => \E n \in 0 .. Len(Owed(c)) : conns[c].written = SubSeq(Owed(c), 1, n)

Displaced(c) == ~Listed(c) =>
    conns[c].closed \/ \E d \in DOMAIN conns \ {c} : conns[d].id = conns[c].id /\ (d > c \/ conns[d].closed)

StreamInv == StreamTypes /\ BufferIsEnd /\ \A c \in DOMAIN conns : Written(c) /\ Displaced(c)

USE StreamAssumption DEF StreamAssumption
-----------------------------------------------------------------------------
(* The emissions are numbered in their order.                              *)
LEMMA EmissionFacts ==
  ASSUME StreamTypes
  PROVE  /\ Emissions \in Seq(Nat) /\ Len(Emissions) = Len(topic) /\ Len(topic) \in Nat
         /\ DOMAIN topic = 1 .. Len(topic)
         /\ \A e \in 1 .. Len(topic) : Emissions[e] = e
BY DEF Emissions, StreamTypes

(* What a connection is owed is part of the emissions.                     *)
LEMMA OwedFacts ==
  ASSUME StreamTypes, NEW c
  PROVE  /\ Owed(c) = Retain(Emissions, Wanted(c)) /\ Owed(c) \in Seq(Nat)
         /\ Len(Owed(c)) \in Nat /\ Len(Owed(c)) <= Len(topic)
<1>1. Owed(c) = Retain(Emissions, Wanted(c))
  BY DEF Owed, Emissions, Wanted
<1> QED BY <1>1, EmissionFacts, RetainContains, RetainShorter

(* What is added to the emissions is added to what a connection is owed.   *)
LEMMA OwedGrows ==
  ASSUME StreamTypes, StreamTypes', NEW t \in Topics, topic' = Append(topic, t), NEW c \in DOMAIN conns,
         c \in DOMAIN conns',
         conns'[c].topics = conns[c].topics, conns'[c].resumed = conns[c].resumed,
         conns'[c].openedAt = conns[c].openedAt
  PROVE  Owed(c)' = IF Matches(conns[c].topics, t) THEN Append(Owed(c), Len(topic) + 1) ELSE Owed(c)
<1> DEFINE e == Len(topic) + 1
<1>1. e \in Nat /\ Len(topic') = e /\ topic'[e] = t /\ \A i \in 1 .. Len(topic) : topic'[i] = topic[i]
  BY DEF StreamTypes
<1>2. Emissions \in Seq(Nat) /\ Len(Emissions) = Len(topic) /\ \A i \in 1 .. Len(topic) : Emissions[i] = i
      /\ DOMAIN topic = 1 .. Len(topic)
  BY EmissionFacts
<1>3. Emissions' \in Seq(Nat) /\ Len(Emissions') = e /\ (\A i \in 1 .. e : Emissions'[i] = i)
      /\ DOMAIN topic' = 1 .. e
  <2>1. topic' \in Seq(Topics)
    BY DEF StreamTypes
  <2> QED BY <2>1, <1>1 DEF Emissions
<1>4. Emissions' = Append(Emissions, e)
  <2>1. Append(Emissions, e) \in Seq(Nat) /\ Len(Append(Emissions, e)) = e
    BY <1>1, <1>2
  <2>2. \A i \in 1 .. e : Append(Emissions, e)[i] = i
    BY <1>1, <1>2
  <2> QED BY <1>3, <2>1, <2>2
<1>5. \A i \in 1 .. Len(topic) : i \in Wanted(c)' <=> i \in Wanted(c)
  BY <1>1, <1>2, <1>3 DEF Wanted
<1>6. e \in Wanted(c)' <=> Matches(conns[c].topics, t)
  <2>0. conns[c] \in Conn /\ conns[c].openedAt <= Len(topic) /\ Len(topic) \in Nat
    BY DEF StreamTypes
  <2>1. e \in DOMAIN topic' /\ conns[c].openedAt \in Nat /\ conns[c].openedAt < e
    BY <2>0, <1>3 DEF Conn
  <2>2. e > conns[c].openedAt - (IF conns[c].resumed THEN MAX_BUFFER_SIZE ELSE 0)
    BY <2>1, <1>1
  <2> QED BY <2>1, <2>2, <1>1 DEF Wanted
<1>7. Retain(Emissions, Wanted(c)') = Retain(Emissions, Wanted(c))
  BY <1>2, <1>5, RetainAgree
<1>8. \A T : Retain(Append(Emissions, e), T) = IF e \in T THEN Append(Retain(Emissions, T), e) ELSE Retain(Emissions, T)
  <2>1. e \in Nat /\ Emissions \in Seq(Nat)
    BY <1>1, <1>2
  <2> HIDE DEF e
  <2> QED BY <2>1, RetainAppend
<1>9. Owed(c)' = Retain(Emissions', Wanted(c)') /\ Owed(c) = Retain(Emissions, Wanted(c))
  BY DEF Owed, Emissions, Wanted
<1> HIDE DEF e
<1>10. Owed(c)' = IF Matches(conns[c].topics, t) THEN Append(Owed(c), e) ELSE Owed(c)
  BY <1>4, <1>6, <1>7, <1>8, <1>9
<1> QED BY <1>10 DEF e

(* Nothing is added to it without an emission.                             *)
LEMMA OwedStays ==
  ASSUME StreamTypes, topic' = topic, NEW c,
         conns'[c].topics = conns[c].topics, conns'[c].resumed = conns[c].resumed,
         conns'[c].openedAt = conns[c].openedAt
  PROVE  Owed(c)' = Owed(c)
BY DEF Owed

(* A browser that resumes is replayed what it is owed, if the buffer is the*)
(* end of the emissions; another one is owed nothing yet.                  *)
LEMMA OwedAtOnce ==
  ASSUME StreamTypes, StreamTypes', BufferIsEnd, topic' = topic, NEW c,
         conns'[c].openedAt = Len(topic), conns'[c].resumed \in BOOLEAN
  PROVE  Owed(c)' = IF conns'[c].resumed THEN Replay(conns'[c].topics) ELSE <<>>
<1> DEFINE n == Len(topic)
           kept == {e \in DOMAIN topic : Matches(conns'[c].topics, topic[e])}
<1>1. Emissions \in Seq(Nat) /\ Len(Emissions) = n /\ (\A i \in 1 .. n : Emissions[i] = i)
      /\ DOMAIN topic = 1 .. n /\ n \in Nat
  BY EmissionFacts
<1>2. Owed(c)' = Retain(Emissions, Wanted(c)')
  BY DEF Owed, Emissions, Wanted
<1>3. Wanted(c)' = {e \in kept : e > n - (IF conns'[c].resumed THEN MAX_BUFFER_SIZE ELSE 0)}
  BY DEF Wanted
<1> HIDE DEF kept
<1>4. CASE ~conns'[c].resumed
  <2>1. \A i \in 1 .. n : Emissions[i] \notin Wanted(c)'
    BY <1>1, <1>3, <1>4
  <2>2. Retain(Emissions, Wanted(c)') = <<>>
    BY <2>1, <1>1, RetainNothing
  <2> QED BY <2>2, <1>2, <1>4
<1>5. CASE conns'[c].resumed
  <2>1. PICK old \in Seq(Nat) : /\ Emissions = old \o eventBuffer
                                /\ old # <<>> => Len(eventBuffer) = MAX_BUFFER_SIZE
    BY DEF BufferIsEnd, CutOff
  <2>2. eventBuffer \in Seq(Nat) /\ Len(eventBuffer) <= MAX_BUFFER_SIZE
    BY DEF BufferIsEnd, StreamTypes
  <2>3. /\ n = Len(old) + Len(eventBuffer) /\ Len(old) \in Nat /\ Len(eventBuffer) \in Nat
        /\ \A i \in 1 .. Len(old) : Emissions[i] = old[i]
        /\ \A i \in 1 .. Len(eventBuffer) : Emissions[Len(old) + i] = eventBuffer[i]
    BY <2>1, <2>2, <1>1, ConcatFacts
  <2>4. /\ \A i \in 1 .. Len(old) : old[i] = i
        /\ \A i \in 1 .. Len(eventBuffer) : eventBuffer[i] = Len(old) + i
    <3>1. ASSUME NEW i \in 1 .. Len(old)
          PROVE  old[i] = i
      BY <2>3, <1>1
    <3>2. ASSUME NEW i \in 1 .. Len(eventBuffer)
          PROVE  eventBuffer[i] = Len(old) + i
      <4>1. Len(old) + i \in 1 .. n
        BY <2>3
      <4> QED BY <4>1, <2>3, <1>1
    <3> QED BY <3>1, <3>2
  <2>5. Wanted(c)' = {e \in kept : e > n - MAX_BUFFER_SIZE}
    BY <1>3, <1>5
  <2>6. ASSUME NEW i \in 1 .. Len(old)
        PROVE  old[i] \notin Wanted(c)'
    <3>1. Len(eventBuffer) = MAX_BUFFER_SIZE
      BY <2>1, <2>3
    <3>2. i <= n - MAX_BUFFER_SIZE
      BY <3>1, <2>3
    <3> QED BY <3>2, <2>3, <2>4, <2>5
  <2>7. ASSUME NEW i \in 1 .. Len(eventBuffer)
        PROVE  eventBuffer[i] \in Wanted(c)' <=> eventBuffer[i] \in kept
    <3>1. Len(old) + i > n - MAX_BUFFER_SIZE
      BY <2>2, <2>3
    <3> QED BY <3>1, <2>4, <2>5
  <2>8. Retain(old, Wanted(c)') = <<>>
    BY <2>6, RetainNothing
  <2>9. Retain(eventBuffer, Wanted(c)') = Retain(eventBuffer, kept)
    BY <2>2, <2>7, RetainAgree
  <2>10. Retain(Emissions, Wanted(c)') = Retain(old, Wanted(c)') \o Retain(eventBuffer, Wanted(c)')
    BY <2>1, <2>2, RetainConcat
  <2>11. Retain(eventBuffer, kept) \in Seq(Nat)
    BY <2>2, RetainContains
  <2>12. <<>> \o Retain(eventBuffer, kept) = Retain(eventBuffer, kept)
    BY <2>11
  <2> QED BY <1>2, <1>5, <2>8, <2>9, <2>10, <2>12 DEF Replay, kept
<1> QED BY <1>4, <1>5

-----------------------------------------------------------------------------
(* A connection keeps the invariant: it is written what the buffer has for *)
(* it.                                                                     *)
LEMMA ConnectKeeps ==
  ASSUME StreamInv, NEW k \in Clients, NEW topics \in TopicSets, NEW resumes \in BOOLEAN, Connect(k, topics, resumes)
  PROVE  StreamInv'
<1> DEFINE n == Len(conns)
           conn == [id |-> k, topics |-> topics, closed |-> FALSE, resumed |-> resumes,
                    openedAt |-> Len(topic), written |-> IF resumes THEN Replay(topics) ELSE <<>>]
<1> USE DEF StreamInv
<1>1. /\ conns' = Append(conns, conn) /\ clients' = [clients EXCEPT ![k] = n + 1]
      /\ UNCHANGED <<eventBuffer, topic>>
  BY DEF Connect
<1>2. conns \in Seq(Conn) /\ n \in Nat /\ DOMAIN conns = 1 .. n /\ Len(topic) \in Nat
  BY DEF StreamTypes
<1>3. conn \in Conn
  <2>1. (IF resumes THEN Replay(topics) ELSE <<>>) \in Seq(Nat)
    <3>1. eventBuffer \in Seq(Nat)
      BY DEF StreamTypes
    <3>2. Replay(topics) \in Seq(Nat)
      BY <3>1, RetainContains DEF Replay
    <3>3. <<>> \in Seq(Nat)
      OBVIOUS
    <3> QED BY <3>2, <3>3
  <2> QED BY <2>1, <1>2 DEF Conn
<1>4. /\ conn.id = k /\ conn.topics = topics /\ conn.resumed = resumes /\ conn.openedAt = Len(topic) /\ ~conn.closed
      /\ conn.written = IF resumes THEN Replay(topics) ELSE <<>>
  OBVIOUS
<1> HIDE DEF conn
<1>5. /\ conns' \in Seq(Conn) /\ DOMAIN conns' = 1 .. n + 1 /\ conns'[n + 1] = conn /\ Len(conns') = n + 1
      /\ \A c \in 1 .. n : conns'[c] = conns[c]
  BY <1>1, <1>2, <1>3
<1>6. clients \in [Clients -> 0 .. n] /\ clients' \in [Clients -> 0 .. n + 1] /\ clients'[k] = n + 1
      /\ \A j \in Clients \ {k} : clients'[j] = clients[j]
  BY <1>1, <1>2 DEF StreamTypes
<1> HIDE DEF n
<1>7. StreamTypes'
  <2>1. \A c \in DOMAIN conns' : conns'[c].openedAt <= Len(topic')
    <3>1. \A c \in 1 .. n : conns'[c].openedAt <= Len(topic')
      BY <1>1, <1>2, <1>5 DEF StreamTypes
    <3>2. conns'[n + 1].openedAt <= Len(topic')
      BY <1>1, <1>2, <1>4, <1>5
    <3> QED BY <3>1, <3>2, <1>2, <1>5
  <2> QED BY <2>1, <1>1, <1>5, <1>6 DEF StreamTypes
<1>8. BufferIsEnd'
  BY <1>1 DEF BufferIsEnd, CutOff, Emissions
<1>9. ASSUME NEW c \in 1 .. n
      PROVE  Written(c)' /\ Displaced(c)'
  <2>0. c \in DOMAIN conns /\ conns'[c] = conns[c] /\ conns[c] \in Conn /\ c # n + 1
    BY <1>2, <1>5
  <2>1. c \in DOMAIN conns /\ conns'[c] = conns[c] /\ conns[c].id \in Clients /\ c # n + 1
    BY <2>0 DEF Conn
  <2>2. Owed(c)' = Owed(c)
    BY <2>1, <1>1, OwedStays
  <2>3. Listed(c)' <=> Listed(c) /\ conns[c].id # k
    BY <2>1, <1>6 DEF Listed
  <2>4. Written(c) /\ Displaced(c)
    BY <2>1
  <2>5. Listed(c) => conns[c].written = SubSeq(Owed(c), 1, Len(Owed(c))) /\ Len(Owed(c)) \in 0 .. Len(Owed(c))
    <3>1. Owed(c) \in Seq(Nat)
      BY OwedFacts
    <3>2. \A s \in Seq(Nat) : SubSeq(s, 1, Len(s)) = s /\ Len(s) \in 0 .. Len(s)
      OBVIOUS
    <3> QED BY <3>1, <3>2, <2>4 DEF Written
  <2>6. Written(c)'
    BY <2>1, <2>2, <2>3, <2>4, <2>5 DEF Written
  <2>7. Displaced(c)'
    <3>1. CASE Listed(c) /\ conns[c].id = k
      <4>1. n + 1 \in DOMAIN conns' \ {c} /\ conns'[n + 1].id = conns'[c].id /\ n + 1 > c
        BY <3>1, <2>1, <1>2, <1>4, <1>5
      <4> QED BY <4>1 DEF Displaced
    <3>2. CASE ~Listed(c)
      <4>1. \A d \in DOMAIN conns : d \in DOMAIN conns' /\ conns'[d] = conns[d]
        BY <1>2, <1>5
      <4> QED BY <4>1, <3>2, <2>1, <2>4 DEF Displaced
    <3> QED BY <3>1, <3>2, <2>3 DEF Displaced
  <2> QED BY <2>6, <2>7
<1>10. ASSUME NEW c, c = n + 1
       PROVE  Written(c)' /\ Displaced(c)'
  <2>1. conns'[c] = conn /\ topic' = topic
    BY <1>1, <1>5, <1>10
  <2>2. /\ conns'[c].openedAt = Len(topic) /\ conns'[c].resumed \in BOOLEAN
        /\ conns'[c].written = (IF conns'[c].resumed THEN Replay(conns'[c].topics) ELSE <<>>)
        /\ ~conns'[c].closed /\ conns'[c].id = k
    BY <2>1, <1>4
  <2>3. StreamTypes /\ BufferIsEnd
    OBVIOUS
  <2>4. Owed(c)' = IF conns'[c].resumed THEN Replay(conns'[c].topics) ELSE <<>>
    BY <2>1, <2>2, <2>3, <1>7, OwedAtOnce
  <2>5. Listed(c)'
    BY <2>2, <1>6, <1>10 DEF Listed
  <2>6. conns'[c].written = Owed(c)'
    BY <2>2, <2>4
  <2> QED BY <2>2, <2>5, <2>6 DEF Written, Displaced
<1>11. ASSUME NEW c \in DOMAIN conns'
       PROVE  Written(c)' /\ Displaced(c)'
  <2>1. c \in 1 .. n \/ c = n + 1
    BY <1>2, <1>5
  <2> QED BY <2>1, <1>9, <1>10
<1> QED BY <1>7, <1>8, <1>11

(* The notice of a close keeps the invariant.                              *)
LEMMA CloseKeeps ==
  ASSUME StreamInv, NEW b \in DOMAIN conns, Close(b)
  PROVE  StreamInv'
<1> USE DEF StreamInv
<1>1. /\ conns' = [conns EXCEPT ![b].closed = TRUE] /\ clients' = [clients EXCEPT ![conns[b].id] = 0]
      /\ UNCHANGED <<eventBuffer, topic>>
  BY DEF Close
<1>2. conns \in Seq(Conn) /\ \A c \in DOMAIN conns : conns[c] \in Conn /\ conns[c].id \in Clients
  <2>1. conns \in Seq(Conn) /\ \A c \in DOMAIN conns : conns[c] \in Conn
    BY DEF StreamTypes
  <2>2. \A r \in Conn : r.id \in Clients
    BY DEF Conn
  <2> QED BY <2>1, <2>2
<1>3. /\ conns' \in Seq(Conn) /\ DOMAIN conns' = DOMAIN conns /\ Len(conns') = Len(conns)
      /\ conns'[b] = [conns[b] EXCEPT !.closed = TRUE] /\ \A c \in DOMAIN conns \ {b} : conns'[c] = conns[c]
  <2>1. [conns[b] EXCEPT !.closed = TRUE] \in Conn
    BY <1>2 DEF Conn
  <2> QED BY <2>1, <1>1, <1>2
<1>4. \A c \in DOMAIN conns :
        /\ conns'[c].id = conns[c].id /\ conns'[c].topics = conns[c].topics /\ conns'[c].resumed = conns[c].resumed
        /\ conns'[c].openedAt = conns[c].openedAt /\ conns'[c].written = conns[c].written
        /\ conns'[c].closed = (conns[c].closed \/ c = b)
  <2>1. conns[b] \in Conn /\ \A c \in DOMAIN conns : conns[c].closed \in BOOLEAN
    BY <1>2 DEF Conn
  <2>2. ASSUME NEW c \in DOMAIN conns, c # b
        PROVE  conns'[c] = conns[c] /\ conns'[c].closed = (conns[c].closed \/ c = b)
    BY <2>2, <1>3, <2>1
  <2>3. /\ conns'[b].id = conns[b].id /\ conns'[b].topics = conns[b].topics /\ conns'[b].resumed = conns[b].resumed
        /\ conns'[b].openedAt = conns[b].openedAt /\ conns'[b].written = conns[b].written /\ conns'[b].closed = TRUE
    BY <2>1, <1>3 DEF Conn
  <2> QED BY <2>2, <2>3
<1>5. clients \in [Clients -> 0 .. Len(conns)] /\ clients' \in [Clients -> 0 .. Len(conns)]
      /\ clients'[conns[b].id] = 0 /\ \A j \in Clients \ {conns[b].id} : clients'[j] = clients[j]
  <2>1. clients \in [Clients -> 0 .. Len(conns)] /\ 0 \in 0 .. Len(conns)
    BY DEF StreamTypes
  <2> QED BY <2>1, <1>1, <1>2
<1>6. StreamTypes'
  BY <1>1, <1>3, <1>4, <1>5 DEF StreamTypes
<1>7. BufferIsEnd'
  BY <1>1 DEF BufferIsEnd, CutOff, Emissions
<1>8. ASSUME NEW c \in DOMAIN conns
      PROVE  Written(c)' /\ Displaced(c)'
  <2>1. Written(c) /\ Displaced(c) /\ c # 0
    BY <1>2
  <2>2. Owed(c)' = Owed(c)
    BY <1>1, <1>4, OwedStays
  <2>3. Listed(c)' <=> Listed(c) /\ conns[c].id # conns[b].id
    BY <2>1, <1>2, <1>4, <1>5 DEF Listed
  <2>4. Listed(c) => conns[c].written = SubSeq(Owed(c), 1, Len(Owed(c))) /\ Len(Owed(c)) \in 0 .. Len(Owed(c))
    <3>1. Owed(c) \in Seq(Nat)
      BY OwedFacts
    <3>2. \A s \in Seq(Nat) : SubSeq(s, 1, Len(s)) = s /\ Len(s) \in 0 .. Len(s)
      OBVIOUS
    <3> QED BY <3>1, <3>2, <2>1 DEF Written
  <2>5. Written(c)'
    <3>1. Listed(c)' => ~conns'[c].closed
      BY <2>1, <2>3, <1>4 DEF Written
    <3> QED BY <3>1, <2>1, <2>2, <2>3, <2>4, <1>4 DEF Written
  <2>6. Displaced(c)'
    <3>1. CASE Listed(c) /\ conns[c].id = conns[b].id
      <4>1. CASE c = b
        BY <4>1, <1>4 DEF Displaced
      <4>2. CASE c # b
        <5>1. b \in DOMAIN conns' \ {c} /\ conns'[b].id = conns'[c].id /\ conns'[b].closed
          BY <4>2, <3>1, <1>2, <1>3, <1>4
        <5> QED BY <5>1 DEF Displaced
      <4> QED BY <4>1, <4>2
    <3>2. CASE ~Listed(c)
      <4>1. conns[c].closed \/ \E d \in DOMAIN conns \ {c} :
              conns[d].id = conns[c].id /\ (d > c \/ conns[d].closed)
        BY <3>2, <2>1 DEF Displaced
      <4>2. conns'[c].closed \/ \E d \in DOMAIN conns' \ {c} :
              conns'[d].id = conns'[c].id /\ (d > c \/ conns'[d].closed)
        BY <4>1, <1>3, <1>4
      <4> QED BY <4>2 DEF Displaced
    <3> QED BY <3>1, <3>2, <2>3 DEF Displaced
  <2> QED BY <2>5, <2>6
<1> QED BY <1>3, <1>6, <1>7, <1>8

(* An emission goes to the end of the buffer, and to the end of what each  *)
(* registered connection of its topic was written.                         *)
LEMMA EmitKeeps ==
  ASSUME StreamInv, NEW t \in Topics, Emit(t)
  PROVE  StreamInv'
<1> DEFINE e == Len(topic) + 1
           Taking(c) == Listed(c) /\ Matches(conns[c].topics, t)
<1> USE DEF StreamInv
<1>1. /\ eventBuffer' = Buffered(e) /\ topic' = Append(topic, t) /\ clients' = clients
      /\ conns' = [c \in DOMAIN conns |->
            IF Taking(c) THEN [conns[c] EXCEPT !.written = Append(@, e)] ELSE conns[c]]
  BY DEF Emit
<1>2. /\ conns \in Seq(Conn) /\ topic \in Seq(Topics) /\ Len(topic) \in Nat /\ eventBuffer \in Seq(Nat)
      /\ Len(eventBuffer) \in Nat /\ Len(conns) \in Nat /\ DOMAIN conns = 1 .. Len(conns)
      /\ e \in Nat /\ e = Len(topic) + 1 /\ \A c \in DOMAIN conns : conns[c] \in Conn
  BY DEF StreamTypes
<1> HIDE DEF Taking, e
<1>3. topic' \in Seq(Topics) /\ Len(topic') = e
  BY <1>1, <1>2
<1>4. ASSUME NEW r \in Conn
      PROVE  LET w == [r EXCEPT !.written = Append(@, e)]
             IN  /\ w \in Conn /\ w.id = r.id /\ w.topics = r.topics /\ w.closed = r.closed
                 /\ w.resumed = r.resumed /\ w.openedAt = r.openedAt /\ w.written = Append(r.written, e)
  <2>1. r.written \in Seq(Nat) /\ e \in Nat
    BY <1>2 DEF Conn
  <2>2. Append(r.written, e) \in Seq(Nat)
    BY <2>1
  <2> QED BY <2>2 DEF Conn
<1>5. DOMAIN conns' = DOMAIN conns /\ \A c \in DOMAIN conns :
        conns'[c] = IF Taking(c) THEN [conns[c] EXCEPT !.written = Append(@, e)] ELSE conns[c]
  BY <1>1
<1>6. \A c \in DOMAIN conns :
        /\ conns'[c] \in Conn
        /\ conns'[c].id = conns[c].id /\ conns'[c].topics = conns[c].topics /\ conns'[c].closed = conns[c].closed
        /\ conns'[c].resumed = conns[c].resumed /\ conns'[c].openedAt = conns[c].openedAt
        /\ conns'[c].written = IF Taking(c) THEN Append(conns[c].written, e) ELSE conns[c].written
  <2> SUFFICES ASSUME NEW c \in DOMAIN conns
               PROVE  /\ conns'[c] \in Conn
                      /\ conns'[c].id = conns[c].id /\ conns'[c].topics = conns[c].topics
                      /\ conns'[c].closed = conns[c].closed
                      /\ conns'[c].resumed = conns[c].resumed /\ conns'[c].openedAt = conns[c].openedAt
                      /\ conns'[c].written = IF Taking(c) THEN Append(conns[c].written, e) ELSE conns[c].written
    OBVIOUS
  <2>1. conns[c] \in Conn
    BY <1>2
  <2>2. CASE Taking(c)
    BY <2>1, <2>2, <1>4, <1>5
  <2>3. CASE ~Taking(c)
    BY <2>1, <2>3, <1>5
  <2> QED BY <2>2, <2>3
<1>7. conns' \in Seq(Conn) /\ Len(conns') = Len(conns)
  <2> DEFINE l == Len(conns)
  <2>1. l \in Nat /\ DOMAIN conns' = 1 .. l /\ conns' = [c \in 1 .. l |-> conns'[c]]
        /\ \A c \in 1 .. l : conns'[c] \in Conn
    <3>1. conns' = [c \in DOMAIN conns' |-> conns'[c]]
      BY <1>1
    <3> QED BY <3>1, <1>2, <1>5, <1>6
  <2> HIDE DEF l
  <2>2. conns' \in Seq(Conn) /\ Len(conns') = l
    BY <2>1
  <2> QED BY <2>2 DEF l
<1>8. StreamTypes'
  <2>1. eventBuffer' \in Seq(Nat)
    <3> DEFINE pushed == Append(eventBuffer, e)
    <3>1. pushed \in Seq(Nat) /\ Tail(pushed) \in Seq(Nat)
      BY <1>2, AppendFacts
    <3> QED BY <3>1, <1>1 DEF Buffered
  <2>2. \A c \in DOMAIN conns' : conns'[c].openedAt <= Len(topic')
    <3> SUFFICES ASSUME NEW c \in DOMAIN conns
                 PROVE  conns[c].openedAt <= e
      BY <1>3, <1>5, <1>6
    <3>1. conns[c].openedAt <= Len(topic) /\ conns[c] \in Conn
      BY <1>2 DEF StreamTypes
    <3>2. conns[c].openedAt \in Nat
      BY <3>1 DEF Conn
    <3> QED BY <3>1, <3>2, <1>2
  <2> QED BY <2>1, <2>2, <1>1, <1>3, <1>7 DEF StreamTypes
<1>9. BufferIsEnd'
  <2>1. PICK old \in Seq(Nat) : /\ Emissions = old \o eventBuffer
                                /\ old # <<>> => Len(eventBuffer) = MAX_BUFFER_SIZE
    BY DEF BufferIsEnd, CutOff
  <2> DEFINE pushed == Append(eventBuffer, e)
  <2>2. Emissions \in Seq(Nat) /\ Len(Emissions) = Len(topic) /\ \A i \in 1 .. Len(topic) : Emissions[i] = i
    BY EmissionFacts
  <2>3. Emissions' = Append(Emissions, e)
    <3>1. DOMAIN topic' = 1 .. e
      BY <1>3, <1>2
    <3>2. Emissions' \in Seq(Nat) /\ Len(Emissions') = e /\ (\A i \in 1 .. e : Emissions'[i] = i)
      BY <3>1, <1>2, <1>3 DEF Emissions
    <3>3. Append(Emissions, e) \in Seq(Nat) /\ Len(Append(Emissions, e)) = e
          /\ \A i \in 1 .. e : Append(Emissions, e)[i] = i
      BY <1>2, <2>2
    <3> QED BY <3>2, <3>3
  <2>10. eventBuffer \in Seq(Nat) /\ e \in Nat /\ old \in Seq(Nat)
    BY <1>2
  <2>4. Append(old \o eventBuffer, e) = old \o pushed
    <3>1. Appended(Joined(old, eventBuffer), e) = Joined(old, Appended(eventBuffer, e))
      BY <2>10, AppendConcat
    <3> QED BY <3>1 DEF Appended, Joined, pushed
  <2>5. Emissions' = old \o pushed
    BY <2>1, <2>3, <2>4
  <2>6. pushed \in Seq(Nat) /\ Len(pushed) = Len(eventBuffer) + 1 /\ pushed # <<>>
    BY <2>10, AppendFacts
  <2>7. Len(eventBuffer) <= MAX_BUFFER_SIZE /\ eventBuffer' = IF Len(pushed) > MAX_BUFFER_SIZE THEN Tail(pushed) ELSE pushed
    BY <1>1 DEF BufferIsEnd, Buffered
  <2> HIDE DEF pushed
  <2>8. CASE Len(pushed) > MAX_BUFFER_SIZE
    <3>1. eventBuffer' = Tail(pushed) /\ Len(Tail(pushed)) = MAX_BUFFER_SIZE
      BY <2>6, <2>7, <2>8, <1>2
    <3>2. PICK older \in Seq(Nat) : old \o pushed = older \o Tail(pushed)
      <4>1. Append(old, Head(pushed)) \in Seq(Nat) /\ old \o pushed = Append(old, Head(pushed)) \o Tail(pushed)
        BY <2>6
      <4> QED BY <4>1
    <3>3. Emissions' = older \o eventBuffer' /\ Len(eventBuffer') = MAX_BUFFER_SIZE
      BY <3>1, <3>2, <2>5
    <3>4. CutOff(older)'
      BY <3>3 DEF CutOff
    <3>5. Len(eventBuffer') <= MAX_BUFFER_SIZE
      BY <3>3
    <3> QED BY <3>2, <3>4, <3>5 DEF BufferIsEnd
  <2>9. CASE ~(Len(pushed) > MAX_BUFFER_SIZE)
    <3>1. eventBuffer' = pushed /\ Len(pushed) <= MAX_BUFFER_SIZE
      BY <2>6, <2>7, <2>9, <1>2
    <3>2. old = <<>>
      BY <3>1, <2>1, <2>6
    <3>3. CutOff(old)'
      BY <3>1, <3>2, <2>5 DEF CutOff
    <3>4. Len(eventBuffer') <= MAX_BUFFER_SIZE
      BY <3>1
    <3> QED BY <3>3, <3>4 DEF BufferIsEnd
  <2> QED BY <2>8, <2>9
<1>10. ASSUME NEW c \in DOMAIN conns'
       PROVE  Written(c)' /\ Displaced(c)'
  <2>1. c \in DOMAIN conns
    BY <1>5
  <2>2. Written(c) /\ Displaced(c) /\ StreamTypes
    BY <2>1
  <2>3. Listed(c)' <=> Listed(c)
    BY <2>1, <1>1, <1>6 DEF Listed
  <2>4. conns'[c].topics = conns[c].topics /\ conns'[c].resumed = conns[c].resumed
        /\ conns'[c].openedAt = conns[c].openedAt
    BY <2>1, <1>6
  <2>5. Owed(c)' = IF Matches(conns[c].topics, t) THEN Append(Owed(c), Len(topic) + 1) ELSE Owed(c)
    BY <2>1, <2>2, <2>4, <1>1, <1>8, OwedGrows
  <2>6. Owed(c) \in Seq(Nat) /\ Len(Owed(c)) \in Nat
    BY <2>2, OwedFacts
  <2>7. CASE Listed(c)
    <3>1. conns'[c].written = Owed(c)'
      BY <2>1, <2>2, <2>5, <2>7, <1>2, <1>6 DEF Written, Taking
    <3> QED BY <3>1, <2>1, <2>2, <2>3, <2>7, <1>6 DEF Written, Displaced
  <2>8. CASE ~Listed(c)
    <3>1. PICK n \in 0 .. Len(Owed(c)) : conns[c].written = SubSeq(Owed(c), 1, n)
      BY <2>2, <2>8 DEF Written
    <3>2. conns'[c].written = SubSeq(Owed(c), 1, n)
      BY <3>1, <2>1, <2>8, <1>6 DEF Taking
    <3>3. n \in 0 .. Len(Owed(c)') /\ SubSeq(Owed(c)', 1, n) = SubSeq(Owed(c), 1, n)
      <4>1. ASSUME NEW s \in Seq(Nat), NEW i \in 0 .. Len(s), NEW x \in Nat
            PROVE  i \in 0 .. Len(Append(s, x)) /\ SubSeq(Append(s, x), 1, i) = SubSeq(s, 1, i)
        OBVIOUS
      <4> QED BY <4>1, <2>5, <2>6, <1>2
    <3>4. Written(c)'
      BY <3>2, <3>3, <2>3, <2>8 DEF Written
    <3>5. conns'[c].closed \/ \E d \in DOMAIN conns' \ {c} :
              conns'[d].id = conns'[c].id /\ (d > c \/ conns'[d].closed)
      <4>1. conns[c].closed \/ \E d \in DOMAIN conns \ {c} :
              conns[d].id = conns[c].id /\ (d > c \/ conns[d].closed)
        BY <2>2, <2>8 DEF Displaced
      <4> QED BY <4>1, <2>1, <1>5, <1>6
    <3>6. Displaced(c)'
      BY <3>5 DEF Displaced
    <3> QED BY <3>4, <3>6
  <2> QED BY <2>7, <2>8
<1> QED BY <1>8, <1>9, <1>10

(* The invariant says that a connection is written what it is owed.        *)
LEMMA InvComplete ==
  ASSUME StreamInv
  PROVE  StreamComplete
<1> USE DEF StreamInv
<1>1. StreamTypeOK
  <2>1. ASSUME NEW c \in DOMAIN conns
        PROVE  conns[c].id \in Clients /\ conns[c].topics \in TopicSets
    <3>1. conns[c] \in Conn
      BY DEF StreamTypes
    <3> QED BY <3>1 DEF Conn
  <2> QED BY <2>1 DEF StreamTypeOK, StreamTypes, BufferIsEnd
<1>2. ASSUME NEW c \in DOMAIN conns
      PROVE  IF Listed(c)
             THEN ~conns[c].closed /\ conns[c].written = Owed(c)
             ELSE /\ \E n \in 0 .. Len(topic) : conns[c].written = SubSeq(Owed(c), 1, n)
                  /\ \/ conns[c].closed
                     \/ \E d \in DOMAIN conns \ {c} :
                         conns[d].id = conns[c].id /\ (d > c \/ conns[d].closed)
  <2>1. Written(c) /\ Displaced(c) /\ StreamTypes
    OBVIOUS
  <2>2. Len(Owed(c)) \in Nat /\ Len(Owed(c)) <= Len(topic) /\ Len(topic) \in Nat
    BY <2>1, OwedFacts, EmissionFacts
  <2>3. \A n \in 0 .. Len(Owed(c)) : n \in 0 .. Len(topic)
    BY <2>2
  <2> QED BY <2>1, <2>3 DEF Written, Displaced
<1> QED BY <1>1, <1>2 DEF StreamComplete

(* A browser that is registered was written every event it is owed, once   *)
(* and in the order of the emissions, also when it resumed (sse.ts:38-110).*)
THEOREM BrowsersAreWritten == StreamSpec => []StreamComplete
<1>1. StreamInit => StreamInv
  <2> SUFFICES ASSUME StreamInit PROVE StreamInv
    OBVIOUS
  <2>1. <<>> \in Seq(Conn) /\ <<>> \in Seq(Topics) /\ <<>> \in Seq(Nat) /\ Len(<<>>) = 0
        /\ DOMAIN <<>> = {} /\ <<>> \o <<>> = <<>>
    OBVIOUS
  <2>2. StreamTypes
    BY <2>1 DEF StreamInit, StreamTypes
  <2>3. Emissions = <<>>
    BY <2>1 DEF StreamInit, Emissions
  <2>4. BufferIsEnd
    <3>1. eventBuffer = <<>> /\ Len(eventBuffer) <= MAX_BUFFER_SIZE
      BY <2>1 DEF StreamInit
    <3>2. CutOff(<<>>)
      BY <2>1, <2>3, <3>1 DEF CutOff
    <3> QED BY <3>1, <3>2, <2>1 DEF BufferIsEnd
  <2> QED BY <2>1, <2>2, <2>4 DEF StreamInit, StreamInv
<1>2. StreamInv /\ [StreamNext]_streamVars => StreamInv'
  <2> SUFFICES ASSUME StreamInv, [StreamNext]_streamVars PROVE StreamInv'
    OBVIOUS
  <2>1. CASE StreamNext
    BY <2>1, ConnectKeeps, EmitKeeps, CloseKeeps DEF StreamNext
  <2>2. CASE UNCHANGED streamVars
    <3>1. UNCHANGED <<clients, eventBuffer, topic, conns>>
      BY <2>2 DEF streamVars
    <3>2. StreamTypes' /\ BufferIsEnd'
      BY <3>1 DEF StreamInv, StreamTypes, BufferIsEnd, CutOff, Emissions
    <3>3. ASSUME NEW c \in DOMAIN conns
          PROVE  Written(c)' /\ Displaced(c)'
      <4>1. Written(c) /\ Displaced(c)
        BY DEF StreamInv
      <4>2. Owed(c)' = Owed(c) /\ (Listed(c)' <=> Listed(c))
        BY <3>1 DEF Owed, Listed
      <4> QED BY <3>1, <4>1, <4>2 DEF Written, Displaced
    <3> QED BY <3>1, <3>2, <3>3 DEF StreamInv
  <2> QED BY <2>1, <2>2
<1>3. StreamInv => StreamComplete
  BY InvComplete
<1> QED BY <1>1, <1>2, <1>3, PTL DEF StreamSpec

HIDE StreamAssumption DEF StreamAssumption

-----------------------------------------------------------------------------
(***************************************************************************)
(* For every set of nodes, every limits and every number of validators:    *)
(* the set keeps its size and its epoch, the flags of a round mean what    *)
(* they say, and quorums of a round share an honest validator.             *)
(***************************************************************************)

USE AuthoritySetAssumption DEF AuthoritySetAssumption, Types
-----------------------------------------------------------------------------
(* with() and without() of one node. *)
LEMMA WithSize ==
  ASSUME NEW ns, NEW n, NEW w, IsFiniteSet(DOMAIN ns), n \notin DOMAIN ns
  PROVE  /\ DOMAIN With(ns, n, w) = DOMAIN ns \cup {n}
         /\ IsFiniteSet(DOMAIN With(ns, n, w))
         /\ Size(ns) \in Nat
         /\ Size(With(ns, n, w)) = Size(ns) + 1
<1>1. DOMAIN With(ns, n, w) = DOMAIN ns \cup {n}
  BY DEF With
<1> QED
  BY <1>1, FS_AddElement, FS_CardinalityType DEF Size

(* The size of a set of nodes without one of them.                         *)
LEMMA WithoutSize ==
  ASSUME NEW ns, NEW n, IsFiniteSet(DOMAIN ns), n \in DOMAIN ns
  PROVE  /\ DOMAIN WithoutNode(ns, n) = DOMAIN ns \ {n}
         /\ IsFiniteSet(DOMAIN WithoutNode(ns, n))
         /\ Size(ns) \in Nat /\ Size(WithoutNode(ns, n)) \in Nat
         /\ Size(WithoutNode(ns, n)) = Size(ns) - 1
<1>1. DOMAIN WithoutNode(ns, n) = DOMAIN ns \ {n}
  BY DEF WithoutNode, Restrict
<1> QED
  BY <1>1, FS_RemoveElement, FS_CardinalityType DEF Size

(* What a node set may be. *)
NodeSet(ns) == DOMAIN ns \subseteq Nodes /\ ns \in [DOMAIN ns -> Weights]

(* A set of nodes is finite.                                               *)
LEMMA NodeSetFinite ==
  ASSUME NEW ns, NodeSet(ns)
  PROVE  IsFiniteSet(DOMAIN ns) /\ Size(ns) \in Nat
  BY FS_Subset, FS_CardinalityType DEF NodeSet, Size

(* A set of nodes stays one with and without a node.                       *)
LEMMA NodeSetKept ==
  ASSUME NEW ns, NodeSet(ns), NEW n \in Nodes, NEW w \in Weights
  PROVE  NodeSet(With(ns, n, w)) /\ NodeSet(WithoutNode(ns, n))
  BY DEF NodeSet, With, WithoutNode, Restrict

SetInv == SetTypeOK /\ SizeKept

(* The set starts as its invariant says.                                   *)
LEMMA SetInitInv == SetInit => SetInv
<1> SUFFICES ASSUME SetInit PROVE SetInv
  OBVIOUS
<1>1. DOMAIN nodes = {}
  BY DEF SetInit
<1>2. Size(nodes) = 0
  BY <1>1, FS_EmptySet DEF Size
<1>3. nodes \in [DOMAIN nodes -> Weights]
  <2>1. nodes = [i \in {} |-> nodes[i]]
    BY DEF SetInit
  <2> QED
    BY <1>1, <2>1
<1>4. epoch \in 0 .. MaxEpoch
  BY DEF SetInit
<1>5. reached \in BOOLEAN /\ (reached => min_nodes = 0)
  BY Zenon DEF SetInit
<1>6. SetTypeOK
  BY <1>1, <1>3, <1>4, <1>5, Zenon DEF SetTypeOK
<1>7. SizeKept
  BY <1>2, <1>5 DEF SizeKept
<1> QED
  BY <1>6, <1>7 DEF SetInv

(* One operation keeps the set between its limits, and the epoch counts it *)
(* only if it exchanged a node.                                            *)
LEMMA SetStep ==
  ASSUME SetInv, SetNext
  PROVE  /\ SetInv'
         /\ epoch' # epoch => /\ epoch' = epoch + 1
                              /\ Size(nodes') = Size(nodes)
                              /\ Cardinality(DOMAIN nodes' \ DOMAIN nodes) <= 1
<1> USE DEF SetInv, SetTypeOK, SizeKept
<1>0. NodeSet(nodes) /\ IsFiniteSet(DOMAIN nodes) /\ Size(nodes) \in Nat
  BY NodeSetFinite DEF NodeSet
<1>1. ASSUME NEW n \in Nodes, RemoveNode(n) PROVE SetInv' /\ epoch' = epoch
  <2>1. NodeSet(nodes')
    BY <1>0, <1>1, NodeSetKept DEF RemoveNode, Become, MayRemove, NodeSet, WithoutNode, Restrict
  <2>2. Size(nodes') = Size(nodes) - 1
    BY <1>0, <1>1, WithoutSize DEF RemoveNode, Become, MayRemove
  <2> QED
    BY <1>0, <1>1, <2>1, <2>2 DEF RemoveNode, Become, MayRemove, NodeSet
<1>2. ASSUME NEW n \in Nodes, NEW w \in Weights, RegisterNode(n, w) PROVE SetInv' /\ epoch' = epoch
  <2>1. NodeSet(nodes')
    BY <1>0, <1>2, NodeSetKept DEF RegisterNode, Become
  <2>2. Size(nodes') = Size(nodes) + 1
    BY <1>0, <1>2, WithSize DEF RegisterNode, Become, MayRegister
  <2> QED
    BY <1>0, <1>2, <2>1, <2>2 DEF RegisterNode, Become, MayRegister, NodeSet
<1>3. ASSUME NEW n \in Nodes, NEW new \in Nodes, NEW w \in Weights, Rotate(n, new, w)
      PROVE  /\ SetInv'
             /\ epoch' # epoch => /\ epoch' = epoch + 1
                                  /\ Size(nodes') = Size(nodes)
                                  /\ Cardinality(DOMAIN nodes' \ DOMAIN nodes) <= 1
  <2> DEFINE kept == WithoutNode(nodes, n)
  <2>1. /\ NodeSet(kept) /\ IsFiniteSet(DOMAIN kept)
        /\ DOMAIN kept = DOMAIN nodes \ {n}
        /\ Size(kept) = Size(nodes) - 1 /\ Size(kept) \in Nat
    <3>1. n \in DOMAIN nodes
      BY <1>3 DEF Rotate, MayRemove
    <3>2. NodeSet(kept)
      BY <1>0 DEF NodeSet, WithoutNode, Restrict
    <3> QED
      BY <1>0, <3>1, <3>2, WithoutSize
  <2> HIDE DEF kept
  <2>2. CASE MayRegister(kept, new)
    <3>1. nodes' = With(kept, new, w) /\ epoch' = epoch + 1
      BY <1>3, <2>2 DEF Rotate, Become, kept
    <3>2. NodeSet(nodes')
      BY <2>1, <3>1, NodeSetKept
    <3>3. Size(nodes') = Size(nodes) /\ DOMAIN nodes' = DOMAIN kept \cup {new}
      <4>1. new \notin DOMAIN kept
        BY <2>2 DEF MayRegister
      <4>2. Size(With(kept, new, w)) = Size(kept) + 1 /\ DOMAIN With(kept, new, w) = DOMAIN kept \cup {new}
        BY <2>1, <4>1, WithSize
      <4> QED
        BY <1>0, <2>1, <3>1, <4>2
    <3>4. Cardinality(DOMAIN nodes' \ DOMAIN nodes) <= 1
      <4>1. DOMAIN nodes' \ DOMAIN nodes \subseteq {new}
        BY <2>1, <3>3
      <4>2. IsFiniteSet({new}) /\ Cardinality({new}) = 1
        BY FS_Singleton
      <4> QED
        BY <4>1, <4>2, FS_Subset
    <3>5. epoch' \in 0 .. MaxEpoch /\ reached' = (reached \/ Size(nodes') >= min_nodes)
      BY <1>3, <3>1 DEF Rotate, Become
    <3> QED
      BY <1>0, <3>1, <3>2, <3>3, <3>4, <3>5 DEF NodeSet
  <2>3. CASE ~MayRegister(kept, new)
    <3>1. nodes' = kept /\ epoch' = epoch /\ reached' = (reached \/ Size(kept) >= min_nodes)
      BY <1>3, <2>3 DEF Rotate, Become, kept
    <3>2. Size(nodes) > min_nodes
      BY <1>3 DEF Rotate, MayRemove
    <3> QED
      BY <1>0, <2>1, <3>1, <3>2 DEF NodeSet
  <2> QED
    BY <2>2, <2>3
<1> QED
  BY <1>1, <1>2, <1>3 DEF SetNext
-----------------------------------------------------------------------------
(* The theorems about the set. *)
THEOREM SetInvariant == GovernanceSpec => []SetInv
<1>1. GovernanceInit => SetInv
  BY SetInitInv DEF GovernanceInit
<1>2. SetInv /\ [GovernanceNext]_governanceVars => SetInv'
  <2> SUFFICES ASSUME SetInv, [GovernanceNext]_governanceVars PROVE SetInv'
    OBVIOUS
  <2>1. CASE SetNext
    BY <2>1, SetStep
  <2>2. CASE UNCHANGED setVars
    BY <2>2 DEF setVars, SetInv, SetTypeOK, SizeKept, Size
  <2> QED
    BY <2>1, <2>2 DEF GovernanceNext, governanceVars
<1> QED
  BY <1>1, <1>2, PTL DEF GovernanceSpec

(* However rotations fail half way, the set keeps its limits, and the epoch*)
(* counts exchanges of one node (authority.rs:131).                        *)
THEOREM RotationsStaySound == GovernanceSpec => RotationsSound
<1> DEFINE A == /\ SizeKept'
                /\ epoch' # epoch => /\ epoch' = epoch + 1
                                     /\ Size(nodes') = Size(nodes)
                                     /\ Cardinality(DOMAIN nodes' \ DOMAIN nodes) <= 1
<1>1. SetInv /\ [GovernanceNext]_governanceVars => [A]_setVars
  <2> SUFFICES ASSUME SetInv, [GovernanceNext]_governanceVars PROVE [A]_setVars
    OBVIOUS
  <2>1. CASE SetNext
    BY <2>1, SetStep DEF SetInv
  <2>2. CASE UNCHANGED setVars
    BY <2>2
  <2> QED
    BY <2>1, <2>2 DEF GovernanceNext, governanceVars
<1> QED
  BY <1>1, SetInvariant, PTL DEF GovernanceSpec, RotationsSound
-----------------------------------------------------------------------------
(* A round: the counters count the votes and the repeats, and nothing else.*)
RoundInv ==
    /\ RoundTypeOK
    /\ current_view <= resets
    /\ prepare_count <= votes["Prepare"] + repeats
    /\ precommit_count <= votes["PreCommit"] + repeats
    /\ prepared => prepare_count >= quorum_size
    /\ committed => prepared /\ precommit_count >= quorum_size

(* A quorum is not empty.                                                  *)
LEMMA QuorumSizeType == quorum_size \in Nat \ {0}
  BY ConsensusAssumption DEF ConsensusAssumption, quorum_size

(* A round starts as its invariant says.                                   *)
LEMMA RoundInitInv == RoundInit => RoundInv
<1> SUFFICES ASSUME RoundInit PROVE RoundInv
  OBVIOUS
<1>1. votes \in [Types -> 0 .. validator_count] /\ votes["Prepare"] = 0 /\ votes["PreCommit"] = 0
  BY ConsensusAssumption DEF ConsensusAssumption, RoundInit, NoVotes
<1>2. ~prepared /\ ~committed /\ prepared \in BOOLEAN /\ committed \in BOOLEAN
  BY Zenon DEF RoundInit
<1>3. /\ current_view \in 0 .. MaxResets /\ repeats \in 0 .. MaxRepeats /\ resets \in 0 .. MaxResets
      /\ prepare_count = 0 /\ precommit_count = 0 /\ repeats = 0
      /\ commit_count = 0 /\ current_view <= resets
  BY ConsensusAssumption DEF ConsensusAssumption, RoundInit
<1> QED
  BY <1>1, <1>2, <1>3 DEF RoundInv, RoundTypeOK

(* Counting a message: the counter of its type grows, the others stay.     *)
LEMMA CountStep ==
  ASSUME RoundInv, NEW ty \in Types, Count(ty)
  PROVE  /\ current_view' = current_view /\ resets' = resets
         /\ prepared' \in BOOLEAN /\ committed' \in BOOLEAN
         /\ prepare_count' \in Nat /\ precommit_count' \in Nat /\ commit_count' \in Nat
         /\ prepare_count' = prepare_count + (IF ty = "Prepare" THEN 1 ELSE 0)
         /\ precommit_count' = precommit_count + (IF ty = "PreCommit" THEN 1 ELSE 0)
         /\ prepared' => prepare_count' >= quorum_size
         /\ committed' => prepared' /\ precommit_count' >= quorum_size
<1> USE DEF Count
<1>1. /\ prepare_count' = prepare_count + (IF ty = "Prepare" THEN 1 ELSE 0)
      /\ precommit_count' = precommit_count + (IF ty = "PreCommit" THEN 1 ELSE 0)
      /\ prepare_count' \in Nat /\ precommit_count' \in Nat /\ commit_count' \in Nat
      /\ prepare_count' >= prepare_count /\ precommit_count' >= precommit_count
  BY DEF RoundInv, RoundTypeOK
<1>2. prepare_count \in Nat /\ precommit_count \in Nat
  BY DEF RoundInv, RoundTypeOK
<1>3. prepared => prepare_count' >= quorum_size
  BY <1>1, <1>2, QuorumSizeType DEF RoundInv
<1>4. committed => prepared /\ precommit_count' >= quorum_size
  BY <1>1, <1>2, QuorumSizeType DEF RoundInv
<1>5. prepared' \in BOOLEAN /\ committed' \in BOOLEAN
  BY Zenon DEF check_phase
<1>6. prepared' => prepare_count' >= quorum_size
  BY <1>3, Zenon DEF check_phase
<1>7. committed' => prepared' /\ precommit_count' >= quorum_size
  BY <1>4, Zenon DEF check_phase
<1> QED
  BY <1>1, <1>5, <1>6, <1>7

(* Every step of a round keeps its invariant.                              *)
LEMMA RoundStep ==
  ASSUME RoundInv, RoundNext
  PROVE  RoundInv'
<1> USE ConsensusAssumption DEF ConsensusAssumption
<1>1. ASSUME NEW ty \in Types, Vote(ty) PROVE RoundInv'
  <2>1. Count(ty)
    BY <1>1 DEF Vote
  <2>2. /\ votes' \in [Types -> 0 .. validator_count]
        /\ \A t \in Types : votes'[t] = votes[t] + (IF t = ty THEN 1 ELSE 0)
        /\ \A t \in Types : votes[t] \in Nat
        /\ repeats' = repeats /\ repeats \in Nat
    BY <1>1 DEF Vote, RoundInv, RoundTypeOK
  <2> QED
    BY <2>1, <2>2, CountStep DEF RoundInv, RoundTypeOK
<1>2. ASSUME NEW ty \in Types, Repeat(ty) PROVE RoundInv'
  <2>1. Count(ty)
    BY <1>2 DEF Repeat
  <2>2. /\ votes' = votes /\ \A t \in Types : votes[t] \in Nat
        /\ repeats' = repeats + 1 /\ repeats \in Nat /\ repeats' \in 0 .. MaxRepeats
    BY <1>2 DEF Repeat, RoundInv, RoundTypeOK
  <2> QED
    BY <2>1, <2>2, CountStep DEF RoundInv, RoundTypeOK
<1>3. ASSUME NewRound PROVE RoundInv'
  <2>1. prepare_count' = 0 /\ precommit_count' = 0 /\ commit_count' = 0
    BY <1>3 DEF NewRound, reset_round
  <2>2. ~(0 >= quorum_size)
    BY QuorumSizeType
  <2>3. /\ ~prepared' /\ prepared' \in BOOLEAN
        /\ ~committed' /\ committed' \in BOOLEAN
    BY <1>3, <2>1, <2>2, Zenon DEF NewRound, check_phase
  <2>4. votes' \in [Types -> 0 .. validator_count] /\ votes'["Prepare"] = 0 /\ votes'["PreCommit"] = 0
    BY <1>3 DEF NewRound, NoVotes
  <2>5. /\ current_view' \in Nat /\ resets' \in 0 .. MaxResets
        /\ current_view' <= resets' /\ repeats' = 0
    BY <1>3 DEF NewRound, RoundInv, RoundTypeOK
  <2> QED
    BY <2>1, <2>3, <2>4, <2>5 DEF RoundInv, RoundTypeOK
<1> QED
  BY <1>1, <1>2, <1>3 DEF RoundNext

(* The inductive invariant of a round of consensus                         *)
(* (crates/governance/src/consensus.rs).                                   *)
THEOREM RoundInvariant == GovernanceSpec => []RoundInv
<1>1. GovernanceInit => RoundInv
  BY RoundInitInv DEF GovernanceInit
<1>2. RoundInv /\ [GovernanceNext]_governanceVars => RoundInv'
  <2> SUFFICES ASSUME RoundInv, [GovernanceNext]_governanceVars PROVE RoundInv'
    OBVIOUS
  <2>1. CASE RoundNext
    BY <2>1, RoundStep
  <2>2. CASE UNCHANGED roundVars
    BY <2>2 DEF roundVars, RoundInv, RoundTypeOK, quorum_size
  <2> QED
    BY <2>1, <2>2 DEF GovernanceNext, governanceVars
<1> QED
  BY <1>1, <1>2, PTL DEF GovernanceSpec

(* The types of the set and of the round.                                  *)
THEOREM TypeCorrect == GovernanceSpec => []GovernanceTypeOK
<1>1. SetInv /\ RoundInv => GovernanceTypeOK
  BY DEF SetInv, RoundInv, GovernanceTypeOK
<1> QED
  BY <1>1, SetInvariant, RoundInvariant, PTL

(* prepared and committed mean that a quorum voted, less the messages that *)
(* were counted twice or belong to another round (consensus.rs:116).       *)
THEOREM FlagsMeanQuorumsAlways == GovernanceSpec => []FlagsMeanQuorums
<1>1. RoundInv => FlagsMeanQuorums
  <2> SUFFICES ASSUME RoundInv PROVE FlagsMeanQuorums
    OBVIOUS
  <2>1. /\ votes["Prepare"] \in Nat /\ votes["PreCommit"] \in Nat /\ repeats \in Nat
        /\ prepare_count \in Nat /\ precommit_count \in Nat
    BY ConsensusAssumption DEF ConsensusAssumption, RoundInv, RoundTypeOK
  <2> QED
    BY <2>1, QuorumSizeType DEF RoundInv, FlagsMeanQuorums
<1> QED
  BY <1>1, RoundInvariant, PTL
-----------------------------------------------------------------------------
(* What quorum_size and max_byzantine() promise together (consensus.rs:97):*)
(* the honest validators alone make a quorum, and two quorums overlap in   *)
(* more than the faulty ones.                                              *)
THEOREM QuorumsFit ==
    /\ quorum_size \in Nat /\ max_byzantine \in Nat
    /\ validator_count - max_byzantine >= quorum_size
    /\ 2 * quorum_size - validator_count > max_byzantine
  BY ConsensusAssumption DEF ConsensusAssumption, quorum_size, max_byzantine

(* Two sets of quorum_size validators share more than max_byzantine() of   *)
(* them, an honest one therefore: two rounds cannot both be decided        *)
(* without a validator that voted in both.                                 *)
THEOREM QuorumsShareHonest ==
  ASSUME NEW V, IsFiniteSet(V), Cardinality(V) = validator_count,
         NEW P \in SUBSET V, NEW Q \in SUBSET V,
         Cardinality(P) >= quorum_size, Cardinality(Q) >= quorum_size
  PROVE  Cardinality(P \cap Q) > max_byzantine
<1>0. P \cup Q \subseteq V /\ P \cap Q \subseteq V
  OBVIOUS
<1>1. IsFiniteSet(P) /\ IsFiniteSet(Q) /\ IsFiniteSet(P \cup Q) /\ IsFiniteSet(P \cap Q)
  BY <1>0, FS_Subset
<1>2. Cardinality(P \cup Q) <= validator_count
  BY <1>0, FS_Subset
<1>3. Cardinality(P \cup Q) = Cardinality(P) + Cardinality(Q) - Cardinality(P \cap Q)
  BY <1>1, FS_Union
<1>4. /\ Cardinality(P) \in Nat /\ Cardinality(Q) \in Nat
      /\ Cardinality(P \cap Q) \in Nat /\ Cardinality(P \cup Q) \in Nat
  BY <1>1, FS_CardinalityType
<1>5. validator_count \in Nat
  BY ConsensusAssumption DEF ConsensusAssumption
<1> QED
  BY <1>2, <1>3, <1>4, <1>5, QuorumsFit, SMTT(30)
-----------------------------------------------------------------------------
Some(T) == CHOOSE x \in T : TRUE

Unfold(f, T) == IF T = {} THEN 0 ELSE nodes[Some(T)] + f[T \ {Some(T)}]

\* f is the recursion of the fold over S.
Sums(f, S) == f = [T \in SUBSET S |-> Unfold(f, T)]

Level(n) == {T \in SUBSET DOMAIN nodes : Cardinality(T) <= n}

LevelSums(n) == {f \in [Level(n) -> Nat] : \A T \in Level(n) : f[T] = Unfold(f, T)}

(* The fold that sums the weights is the one that Sums describes.          *)
LEMMA WeightUnfolds ==
  ASSUME NEW S
  PROVE  Weight(S) = (CHOOSE f : Sums(f, S))[S]
BY DEF Weight, FoldFunctionOnSet, MapThenFoldSet, Sums, Unfold, Some

(* Subsets of a finite set of nodes, and what taking one node away does to *)
(* their size.                                                             *)
LEMMA SubsetFacts ==
  ASSUME IsFiniteSet(DOMAIN nodes), NEW T \in SUBSET DOMAIN nodes
  PROVE  /\ IsFiniteSet(T) /\ Cardinality(T) \in Nat /\ Cardinality(T) <= Cardinality(DOMAIN nodes)
         /\ (T = {} <=> Cardinality(T) = 0)
         /\ \A x \in T : T \ {x} \in SUBSET DOMAIN nodes /\ Cardinality(T \ {x}) = Cardinality(T) - 1
<1>1. IsFiniteSet(T) /\ Cardinality(T) <= Cardinality(DOMAIN nodes)
  BY FS_Subset
<1> QED BY <1>1, FS_CardinalityType, FS_EmptySet, FS_RemoveElement

(* There is a function that sums the weights of every subset.              *)
LEMMA SumsExist ==
  ASSUME IsFiniteSet(DOMAIN nodes), nodes \in [DOMAIN nodes -> Nat]
  PROVE  \E f \in [SUBSET DOMAIN nodes -> Nat] : \A T \in SUBSET DOMAIN nodes : f[T] = Unfold(f, T)
<1> DEFINE D == DOMAIN nodes
           size == Cardinality(D)
           G == {n \in Nat : LevelSums(n) # {}}
<1>1. size \in Nat
  BY FS_CardinalityType
<1>2. \A T \in SUBSET D : T # {} => Some(T) \in T /\ nodes[Some(T)] \in Nat
  BY DEF Some
<1>3. 0 \in G
  <2>1. \A T \in Level(0) : T = {}
    BY SubsetFacts DEF Level
  <2> DEFINE f == [T \in Level(0) |-> 0]
  <2>2. f \in LevelSums(0)
    BY <2>1 DEF LevelSums, Unfold
  <2> QED BY <2>2
<1>4. ASSUME NEW n \in 0 .. size - 1, n \in G
      PROVE  n + 1 \in G
  <2>1. PICK f : f \in LevelSums(n)
    BY <1>4
  <2>2. n \in Nat /\ f \in [Level(n) -> Nat] /\ \A T \in Level(n) : f[T] = Unfold(f, T)
    BY <2>1 DEF LevelSums
  <2>3. ASSUME NEW T \in Level(n + 1), T # {}
        PROVE  Some(T) \in T /\ nodes[Some(T)] \in Nat /\ T \ {Some(T)} \in Level(n)
    <3>1. T \in SUBSET D /\ Cardinality(T) <= n + 1
      BY DEF Level
    <3>2. Some(T) \in T /\ nodes[Some(T)] \in Nat
      BY <3>1, <2>3, <1>2
    <3>3. T \ {Some(T)} \in SUBSET D /\ Cardinality(T \ {Some(T)}) = Cardinality(T) - 1 /\ Cardinality(T) \in Nat
      BY <3>1, <3>2, SubsetFacts
    <3> QED BY <3>1, <3>2, <3>3, <2>2 DEF Level
  <2> DEFINE g == [T \in Level(n + 1) |-> Unfold(f, T)]
  <2>4. ASSUME NEW T \in Level(n + 1)
        PROVE  Unfold(f, T) \in Nat
    <3>1. CASE T = {}
      BY <3>1 DEF Unfold
    <3>2. CASE T # {}
      <4>1. f[T \ {Some(T)}] \in Nat /\ nodes[Some(T)] \in Nat
        BY <3>2, <2>2, <2>3
      <4> QED BY <4>1, <3>2 DEF Unfold
    <3> QED BY <3>1, <3>2
  <2>5. \A T \in Level(n) : T \in Level(n + 1) /\ g[T] = f[T]
    <3>1. ASSUME NEW T \in Level(n)
          PROVE  T \in Level(n + 1)
      <4>1. T \in SUBSET D /\ Cardinality(T) <= n /\ Cardinality(T) \in Nat
        BY SubsetFacts DEF Level
      <4> QED BY <4>1, <2>2 DEF Level
    <3> QED BY <3>1, <2>2
  <2>6. ASSUME NEW T \in Level(n + 1)
        PROVE  g[T] = Unfold(g, T)
    <3>1. CASE T = {}
      BY <3>1 DEF Unfold
    <3>2. CASE T # {}
      <4>1. g[T \ {Some(T)}] = f[T \ {Some(T)}]
        BY <3>2, <2>3, <2>5
      <4>2. g[T] = Unfold(f, T)
        OBVIOUS
      <4> HIDE DEF g
      <4> QED BY <3>2, <4>1, <4>2 DEF Unfold
    <3> QED BY <3>1, <3>2
  <2>7. g \in LevelSums(n + 1)
    <3>1. g \in [Level(n + 1) -> Nat]
      BY <2>4
    <3> HIDE DEF g
    <3> QED BY <3>1, <2>6 DEF LevelSums
  <2> QED BY <2>7, <2>2
<1>5. size \in G
  <2> HIDE DEF G, size
  <2> QED BY <1>1, <1>3, <1>4, Induction
<1>6. Level(size) = SUBSET D
  BY SubsetFacts DEF Level
<1> QED BY <1>5, <1>6 DEF LevelSums

(* The fold of the weights is a sum.                                       *)
LEMMA WeightSums ==
  ASSUME IsFiniteSet(DOMAIN nodes), nodes \in [DOMAIN nodes -> Nat]
  PROVE  /\ Weight({}) = 0
         /\ \A S \in SUBSET DOMAIN nodes :
              /\ Weight(S) \in Nat
              /\ S # {} => Some(S) \in S /\ Weight(S) = nodes[Some(S)] + Weight(S \ {Some(S)})
<1> DEFINE D == DOMAIN nodes
<1>1. PICK f \in [SUBSET D -> Nat] : \A T \in SUBSET D : f[T] = Unfold(f, T)
  BY SumsExist
<1>2. \A T \in SUBSET D : T # {} => Some(T) \in T /\ T \ {Some(T)} \in SUBSET D
  BY DEF Some
<1>3. ASSUME NEW S \in SUBSET D
      PROVE  Weight(S) = f[S]
  <2> DEFINE r == [T \in SUBSET S |-> f[T]]
             c == CHOOSE h : Sums(h, S)
  <2>1. \A T \in SUBSET S : T \in SUBSET D /\ (T # {} => T \ {Some(T)} \in SUBSET S)
    BY <1>2
  <2>2. Sums(r, S)
    <3>1. ASSUME NEW T \in SUBSET S
          PROVE  f[T] = Unfold(r, T)
      <4>1. f[T] = Unfold(f, T)
        BY <1>1, <2>1
      <4> QED BY <4>1, <2>1 DEF Unfold
    <3> QED BY <3>1 DEF Sums
  <2>3. Sums(c, S)
    <3> HIDE DEF r
    <3> QED BY <2>2
  <2> HIDE DEF c
  <2>4. \A T \in SUBSET S : c[T] = Unfold(c, T)
    BY <2>3 DEF Sums
  <2> DEFINE G == {T \in SUBSET S : c[T] = f[T]}
  <2>5. {} \in G
    <3>1. {} \in SUBSET S /\ {} \in SUBSET D
      OBVIOUS
    <3> QED BY <3>1, <2>4, <1>1 DEF Unfold
  <2>6. ASSUME NEW T \in SUBSET S, T # {}, \A x \in T : T \ {x} \in G
        PROVE  T \in G
    <3>1. T \ {Some(T)} \in G
      BY <2>6, <1>2
    <3>2. f[T] = Unfold(f, T) /\ c[T] = Unfold(c, T)
      BY <1>1, <2>1, <2>4
    <3> QED BY <2>6, <3>1, <3>2 DEF Unfold
  <2>7. IsFiniteSet(S)
    BY FS_Subset
  <2>8. SUBSET S \subseteq G
    <3> HIDE DEF G
    <3> QED BY <2>5, <2>6, <2>7, SubsetInduction
  <2>9. c[S] = f[S]
    BY <2>8
  <2> QED BY <2>9, WeightUnfolds DEF c
<1>4. Weight({}) = 0
  <2>1. {} \in SUBSET D
    OBVIOUS
  <2> QED BY <2>1, <1>1, <1>3 DEF Unfold
<1>5. ASSUME NEW S \in SUBSET D
      PROVE  /\ Weight(S) \in Nat
             /\ S # {} => Some(S) \in S /\ Weight(S) = nodes[Some(S)] + Weight(S \ {Some(S)})
  <2>1. f[S] \in Nat /\ f[S] = Unfold(f, S)
    BY <1>1
  <2> QED BY <2>1, <1>2, <1>3 DEF Unfold
<1> QED BY <1>4, <1>5

(* Whichever node is taken out, its weight is.                             *)
LEMMA WeightRemove ==
  ASSUME IsFiniteSet(DOMAIN nodes), nodes \in [DOMAIN nodes -> Nat]
  PROVE  \A S \in SUBSET DOMAIN nodes : \A y \in S : Weight(S) = nodes[y] + Weight(S \ {y})
<1> DEFINE D == DOMAIN nodes
           G == {S \in SUBSET D : \A y \in S : Weight(S) = nodes[y] + Weight(S \ {y})}
<1>1. \A S \in SUBSET D : /\ Weight(S) \in Nat
                          /\ S # {} => Some(S) \in S /\ Weight(S) = nodes[Some(S)] + Weight(S \ {Some(S)})
  BY WeightSums
<1>2. \A x \in D : nodes[x] \in Nat
  OBVIOUS
<1>3. {} \in G
  OBVIOUS
<1>4. ASSUME NEW S \in SUBSET D, S # {}, \A x \in S : S \ {x} \in G
      PROVE  S \in G
  <2> DEFINE x == Some(S)
  <2>1. x \in S /\ Weight(S) = nodes[x] + Weight(S \ {x})
    BY <1>1, <1>4
  <2> HIDE DEF x
  <2>2. ASSUME NEW y \in S, y # x
        PROVE  Weight(S) = nodes[y] + Weight(S \ {y})
    <3>1. S \ {x} \in G /\ S \ {y} \in G
      BY <1>4, <2>1
    <3>2. Weight(S \ {x}) = nodes[y] + Weight((S \ {x}) \ {y})
      BY <3>1, <2>2
    <3>3. Weight(S \ {y}) = nodes[x] + Weight((S \ {y}) \ {x})
      BY <3>1, <2>1, <2>2
    <3>4. (S \ {x}) \ {y} = (S \ {y}) \ {x} /\ (S \ {x}) \ {y} \in SUBSET D
      OBVIOUS
    <3>5. Weight((S \ {x}) \ {y}) \in Nat /\ nodes[x] \in Nat /\ nodes[y] \in Nat
      BY <3>4, <2>1, <1>1, <1>2
    <3>6. Weight((S \ {y}) \ {x}) = Weight((S \ {x}) \ {y})
      BY <3>4
    <3> DEFINE both == Weight((S \ {x}) \ {y})
    <3>7. Weight(S) = nodes[x] + (nodes[y] + both) /\ Weight(S \ {y}) = nodes[x] + both /\ both \in Nat
      BY <2>1, <3>2, <3>3, <3>5, <3>6
    <3> HIDE DEF both
    <3> QED BY <3>5, <3>7
  <2> QED BY <2>1, <2>2
<1>5. SUBSET D \subseteq G
  <2>1. IsFiniteSet(D)
    OBVIOUS
  <2>2. \A S \in SUBSET D : S # {} /\ (\A x \in S : S \ {x} \in G) => S \in G
    BY <1>4
  <2> HIDE DEF D, G
  <2> QED BY <2>1, <2>2, <1>3, SubsetInduction
<1> QED BY <1>5

(* Sets that share no node have the weight of both together.               *)
LEMMA WeightAdds ==
  ASSUME IsFiniteSet(DOMAIN nodes), nodes \in [DOMAIN nodes -> Nat]
  PROVE  \A B \in SUBSET DOMAIN nodes : \A A \in SUBSET DOMAIN nodes :
            A \cap B = {} => Weight(A \cup B) = Weight(A) + Weight(B)
<1> DEFINE D == DOMAIN nodes
           G == {B \in SUBSET D : \A A \in SUBSET D : A \cap B = {} => Weight(A \cup B) = Weight(A) + Weight(B)}
<1>1. Weight({}) = 0 /\ \A S \in SUBSET D : Weight(S) \in Nat
  BY WeightSums
<1>2. \A S \in SUBSET D : \A y \in S : Weight(S) = nodes[y] + Weight(S \ {y})
  BY WeightRemove
<1>3. {} \in G
  <2>1. \A A \in SUBSET D : A \cup {} = A
    OBVIOUS
  <2>2. \A A \in SUBSET D : Weight(A \cup {}) = Weight(A) + Weight({})
    BY <2>1, <1>1
  <2> QED BY <2>2
<1>4. ASSUME NEW B \in SUBSET D, B # {}, \A x \in B : B \ {x} \in G
      PROVE  B \in G
  <2> SUFFICES ASSUME NEW A \in SUBSET D, A \cap B = {}
               PROVE  Weight(A \cup B) = Weight(A) + Weight(B)
    OBVIOUS
  <2>1. PICK x : x \in B
    BY <1>4
  <2> DEFINE rest == B \ {x}
  <2>2. rest \in G /\ A \cap rest = {} /\ rest \in SUBSET D
    BY <1>4, <2>1
  <2>3. Weight(A \cup rest) = Weight(A) + Weight(rest)
    BY <2>2
  <2>4. Weight(B) = nodes[x] + Weight(rest)
    BY <1>2, <2>1
  <2>5. (A \cup B) \ {x} = A \cup rest /\ x \in A \cup B /\ A \cup B \in SUBSET D
    BY <2>1
  <2>6. Weight(A \cup B) = nodes[x] + Weight(A \cup rest)
    <3>1. Weight(A \cup B) = nodes[x] + Weight((A \cup B) \ {x})
      BY <1>2, <2>5
    <3> QED BY <3>1, <2>5
  <2>7. nodes[x] \in Nat /\ Weight(A) \in Nat /\ Weight(rest) \in Nat
    BY <1>1, <2>1, <2>2
  <2> HIDE DEF rest
  <2> QED BY <2>3, <2>4, <2>6, <2>7
<1>5. SUBSET D \subseteq G
  <2>1. IsFiniteSet(D)
    OBVIOUS
  <2>2. \A S \in SUBSET D : S # {} /\ (\A x \in S : S \ {x} \in G) => S \in G
    BY <1>4
  <2> HIDE DEF D, G
  <2> QED BY <2>1, <2>2, <1>3, SubsetInduction
<1> QED BY <1>5

(* Two quorums of more than two thirds share more than a third.            *)
LEMMA TwoThirds ==
  ASSUME NEW total \in Nat, NEW a \in Nat, NEW b \in Nat, NEW both \in Nat,
         a >= (total * 2) \div 3 + 1, b >= (total * 2) \div 3 + 1, a + b <= total + both
  PROVE  3 * both > total
<1> DEFINE q == (total * 2) \div 3
<1>1. q \in Nat /\ 3 * q + 3 > total * 2
  OBVIOUS
<1> HIDE DEF q
<1>2. a >= q + 1 /\ b >= q + 1
  BY DEF q
<1> QED BY <1>1, <1>2

(* Two quorums of two thirds of the weight share a third of it, and more.  *)
LEMMA WeightsShare ==
  ASSUME IsFiniteSet(DOMAIN nodes), nodes \in [DOMAIN nodes -> Nat]
  PROVE  QuorumsShare
<1> DEFINE D == DOMAIN nodes
           total == Weight(D)
<1>1. \A S \in SUBSET D : Weight(S) \in Nat
  BY WeightSums
<1>2. \A B \in SUBSET D : \A A \in SUBSET D : A \cap B = {} => Weight(A \cup B) = Weight(A) + Weight(B)
  BY WeightAdds
<1>3. total \in Nat
  BY <1>1
<1>4. ASSUME total # 0
      PROVE  IsQuorum(D)
  <2> HIDE DEF total
  <2>1. total >= (total * 2) \div 3 + 1
    BY <1>3, <1>4
  <2> QED BY <1>4, <2>1 DEF IsQuorum, total
<1>5. ASSUME NEW Q \in SUBSET D, NEW R \in SUBSET D, IsQuorum(Q), IsQuorum(R)
      PROVE  3 * Weight(Q \cap R) > total
  <2> DEFINE both == Q \cap R
             lone == Q \ R
             rest == D \ (Q \cup R)
  <2>1. Weight(Q) = Weight(lone) + Weight(both)
    <3>1. lone \cap both = {} /\ lone \cup both = Q
      OBVIOUS
    <3> QED BY <3>1, <1>2
  <2>2. Weight(Q \cup R) = Weight(lone) + Weight(R)
    <3>1. lone \cap R = {} /\ lone \cup R = Q \cup R
      OBVIOUS
    <3> QED BY <3>1, <1>2
  <2>3. total = Weight(Q \cup R) + Weight(rest)
    <3>1. (Q \cup R) \cap rest = {} /\ (Q \cup R) \cup rest = D /\ Q \cup R \in SUBSET D /\ rest \in SUBSET D
      OBVIOUS
    <3>2. Weight((Q \cup R) \cup rest) = Weight(Q \cup R) + Weight(rest)
      BY <3>1, <1>2
    <3> QED BY <3>1, <3>2
  <2>4. Weight(Q) \in Nat /\ Weight(R) \in Nat /\ Weight(both) \in Nat /\ Weight(lone) \in Nat /\ Weight(rest) \in Nat
    BY <1>1
  <2>5. Weight(Q) >= (total * 2) \div 3 + 1 /\ Weight(R) >= (total * 2) \div 3 + 1
    BY <1>5 DEF IsQuorum
  <2> HIDE DEF both, lone, rest, total
  <2>6. Weight(Q) + Weight(R) <= total + Weight(both)
    BY <2>1, <2>2, <2>3, <2>4, <1>3
  <2>7. 3 * Weight(both) > total
    BY <2>4, <2>5, <2>6, <1>3, TwoThirds
  <2> QED BY <2>7 DEF both
<1> QED BY <1>4, <1>5 DEF QuorumsShare

(* Whatever was registered, removed and rotated, any two quorums of the    *)
(* authority set share more than a third of its weight (authority.rs:157). *)
THEOREM QuorumsAlwaysShare == GovernanceSpec => []QuorumsShare
<1>1. SetInv => QuorumsShare
  <2> SUFFICES ASSUME SetInv PROVE QuorumsShare
    OBVIOUS
  <2>1. DOMAIN nodes \subseteq Nodes /\ nodes \in [DOMAIN nodes -> Weights]
    BY DEF SetInv, SetTypeOK
  <2>2. IsFiniteSet(DOMAIN nodes)
    BY <2>1, FS_Subset
  <2>3. nodes \in [DOMAIN nodes -> Nat]
    BY <2>1
  <2> QED BY <2>2, <2>3, WeightsShare
<1> QED BY <1>1, SetInvariant, PTL

HIDE AuthoritySetAssumption DEF AuthoritySetAssumption, Types
=============================================================================
