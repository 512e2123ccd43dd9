---------------------------- MODULE EventBusProofs ----------------------------
(***************************************************************************)
(* The map of the event bus is sound, a once subscription gets one event,  *)
(* and a returning emitSync() has reached whom it concerned, for any set   *)
(* of types, number of subscriptions and depth of nesting.                 *)
(***************************************************************************)
EXTENDS EventBus, DataLemmas

Subscription == [type : Types \cup {AllTypes}, once : BOOLEAN, filter : BOOLEAN]
Fates == {"live", "spent", "cancelled", "cleared"}
SyncCall == [event : Events, type : Types, at : Nat, set : Sets, concerned : SUBSET Subs]

BusTypes ==
    /\ subs \in Seq(Subscription) /\ Len(subs) <= MaxSubs
    /\ fate \in [Made -> Fates]
    /\ DOMAIN handlers \subseteq Types /\ handlers \in [DOMAIN handlers -> Sets \ {Wild}]
    /\ members \in [Sets -> SUBSET Made]
    /\ frames \in Seq(SyncCall) /\ Len(frames) <= MaxDepth
    /\ timers \in Seq(Made \X Events)
    /\ emitted \in 0 .. MaxEvents
    /\ called \subseteq Made \X Events /\ owed \subseteq Made \X Events /\ detached \subseteq Made
    /\ \A i \in DOMAIN frames : frames[i].concerned \subseteq Made

Used == {Wild} \cup Range(handlers) \cup {frames[i].set : i \in DOMAIN frames}

\* The Set o is the one of type t, in the map or for a running emitSync().
Serves(o, t) ==
    \/ (t \in DOMAIN handlers /\ handlers[t] = o)
    \/ \E i \in DOMAIN frames : frames[i].set = o /\ frames[i].type = t

\* No Set serves two types, and no subscription is in two Sets.
SetsApart ==
    /\ \A o \in Sets \ {Wild}, t, u \in Types : Serves(o, t) /\ Serves(o, u) => t = u
    /\ \A o \in Sets \ {Wild}, t \in Types : Serves(o, t) => \A s \in members[o] : subs[s].type = t
    /\ \A s \in members[Wild] : subs[s].type = AllTypes /\ ~subs[s].once
    /\ \A o, p \in Used : o # p => members[o] \cap members[p] = {}

\* What is in the map is live, and an empty Set stays there only while an
\* emitSync() iterates it.
MapIsLive ==
    /\ \A s \in members[Wild] : fate[s] = "live"
    /\ \A t \in DOMAIN handlers : \A s \in members[handlers[t]] : fate[s] = "live"
    /\ \A t \in DOMAIN handlers : members[handlers[t]] = {} =>
           \E i \in DOMAIN frames : frames[i].set = handlers[t]

\* Who is in a Set that took the place of the one an emitSync() iterates
\* came during that emitSync().
Shadowed == \A i \in DOMAIN frames : \A t \in DOMAIN handlers :
    frames[i].type = t /\ frames[i].set # Wild /\ handlers[t] # frames[i].set =>
        members[handlers[t]] \subseteq detached

\* A once subscription that has been called or scheduled has left its Set,
\* and it was for one event.
OnceGone ==
    /\ \A p \in called \cup Range(timers) : subs[p[1]].once => \A o \in Used : p[1] \notin members[o]
    /\ \A p, q \in called \cup Range(timers) : p[1] = q[1] /\ subs[p[1]].once => p[2] = q[2]

\* The call of s by the emitSync() f is still to come.
Pending(f, s) ==
    \/ f.set = Wild /\ subs[s].type = AllTypes /\ s > f.at
    \/ f.set # Wild /\ subs[s].type = AllTypes
    \/ f.set # Wild /\ subs[s].type = f.type /\ s > f.at

Reached(f, s) == <<s, f.event>> \in called \/ fate[s] # "live" \/ s \in detached \/ Pending(f, s)

Awaits(f) == \A s \in f.concerned :
    subs[s].type \in {f.type, AllTypes} /\ Accepts(s, f.event) /\ Reached(f, s)

\* A running emitSync() has reached whom it concerned, or will.
SyncReaches == \A i \in DOMAIN frames : Awaits(frames[i])

BusInv == BusTypes /\ SetsApart /\ MapIsLive /\ LostOnlyInEmitSync /\ Shadowed /\ OnceGone /\ SyncReaches
-----------------------------------------------------------------------------
(* A function has no more values than arguments.                           *)
LEMMA RangeIsSmall ==
    ASSUME NEW f, IsFiniteSet(DOMAIN f)
    PROVE  IsFiniteSet(Range(f)) /\ Cardinality(Range(f)) <= Cardinality(DOMAIN f)
<1>1. [x \in DOMAIN f |-> f[x]] \in Surjection(DOMAIN f, Range(f))
  BY DEF Surjection, Range
<1> QED BY <1>1, FS_Surjection

(* Every Set of natural numbers that is not empty has its Min.             *)
LEMMA MinIsLeast ==
    ASSUME NEW S \in SUBSET Nat, S # {}
    PROVE  Min(S) \in S /\ \A x \in S : Min(S) <= x
BY LeastNatural DEF Min

(* The Set objects in use are Set objects, the wildcard one and those of   *)
(* the map among them.                                                     *)
LEMMA SetsInUse ==
    ASSUME BusTypes
    PROVE  Used \subseteq Sets /\ Unused = Sets \ Used /\ Wild \in Sets /\ \A t \in DOMAIN handlers : handlers[t] \in Used
<1>1. Cardinality(Types) \in Nat /\ MaxDepth \in Nat
  BY EventBusAssumption, FS_CardinalityType
<1>2. Wild \in Sets
  BY <1>1 DEF Wild, Sets
<1>3. \A i \in DOMAIN frames : frames[i].set \in Sets
  <2>1. \A i \in DOMAIN frames : frames[i] \in SyncCall
    BY DEF BusTypes
  <2> QED BY <2>1 DEF SyncCall
<1> QED BY <1>2, <1>3 DEF BusTypes, Used, Unused, Range

(* A list is a sequence of its length.                                     *)
LEMMA ListsAreSequences ==
    ASSUME NEW S, NEW n \in Nat, NEW f \in [1 .. n -> S]
    PROVE  f \in Seq(S) /\ Len(f) = n
OBVIOUS

(* There is a Set object left for a type that has none in the map.         *)
LEMMA SetLeft ==
    ASSUME BusTypes, NEW t \in Types, t \notin DOMAIN handlers
    PROVE  Min(Unused) \in Unused
<1>1. IsFiniteSet(Types) /\ Cardinality(Types) \in Nat /\ MaxDepth \in Nat
  BY EventBusAssumption, FS_CardinalityType
<1> DEFINE H == Range(handlers)
           F == Range([i \in DOMAIN frames |-> frames[i].set])
<1>2. Used = {Wild} \cup H \cup F
  BY DEF Used, Range
<1>3. IsFiniteSet(H) /\ Cardinality(H) <= Cardinality(Types) - 1
  <2>1. IsFiniteSet(Types \ {t}) /\ Cardinality(Types \ {t}) = Cardinality(Types) - 1
    BY <1>1, FS_RemoveElement
  <2>2. DOMAIN handlers \in SUBSET (Types \ {t})
    BY DEF BusTypes
  <2>3. IsFiniteSet(DOMAIN handlers) /\ Cardinality(DOMAIN handlers) <= Cardinality(Types) - 1
    BY <2>1, <2>2, FS_Subset
  <2>4. IsFiniteSet(H) /\ Cardinality(H) <= Cardinality(DOMAIN handlers)
    BY <2>3, RangeIsSmall
  <2> QED BY <2>3, <2>4, <1>1, FS_CardinalityType
<1>4. IsFiniteSet(F) /\ Cardinality(F) <= MaxDepth
  <2>1. DOMAIN frames = 1 .. Len(frames) /\ Len(frames) \in Nat /\ Len(frames) <= MaxDepth
    BY DEF BusTypes
  <2>2. IsFiniteSet(1 .. Len(frames)) /\ Cardinality(1 .. Len(frames)) <= MaxDepth
    <3>1. 1 \in Int /\ Len(frames) \in Int
      BY <2>1
    <3>2. /\ IsFiniteSet(1 .. Len(frames))
          /\ Cardinality(1 .. Len(frames)) = IF 1 > Len(frames) THEN 0 ELSE Len(frames) - 1 + 1
      BY <3>1, FS_Interval
    <3> QED BY <2>1, <3>2, <1>1
  <2> DEFINE g == [i \in DOMAIN frames |-> frames[i].set]
  <2>3. DOMAIN g = 1 .. Len(frames)
    BY <2>1
  <2> HIDE DEF g
  <2>4. IsFiniteSet(Range(g)) /\ Cardinality(Range(g)) <= Cardinality(1 .. Len(frames))
    BY <2>2, <2>3, RangeIsSmall
  <2>5. Cardinality(Range(g)) \in Nat /\ Cardinality(1 .. Len(frames)) \in Nat
    BY <2>2, <2>4, FS_CardinalityType
  <2> QED BY <2>2, <2>4, <2>5, <1>1 DEF g
<1> HIDE DEF H, F
<1>5. IsFiniteSet({Wild} \cup H) /\ Cardinality({Wild} \cup H) <= Cardinality(Types)
  <2>1. IsFiniteSet({Wild}) /\ Cardinality({Wild}) = 1
    BY FS_Singleton
  <2>2. Cardinality(H) \in Nat /\ Cardinality({Wild} \cap H) \in Nat
    BY <1>3, <2>1, FS_CardinalityType, FS_Intersection
  <2>3. /\ IsFiniteSet({Wild} \cup H)
        /\ Cardinality({Wild} \cup H) = Cardinality({Wild}) + Cardinality(H) - Cardinality({Wild} \cap H)
    BY <1>3, <2>1, FS_Union
  <2> QED BY <1>1, <1>3, <2>1, <2>2, <2>3
<1>6. IsFiniteSet(Used) /\ Cardinality(Used) <= Cardinality(Types) + MaxDepth
  <2> DEFINE G == {Wild} \cup H
  <2> HIDE DEF G
  <2>1. IsFiniteSet(G) /\ Cardinality(G) <= Cardinality(Types)
    BY <1>5 DEF G
  <2>2. Cardinality(G) \in Nat /\ Cardinality(F) \in Nat /\ Cardinality(G \cap F) \in Nat
    BY <1>4, <2>1, FS_CardinalityType, FS_Intersection
  <2>3. IsFiniteSet(G \cup F) /\ Cardinality(G \cup F) = Cardinality(G) + Cardinality(F) - Cardinality(G \cap F)
    BY <1>4, <2>1, FS_Union
  <2>4. Used = G \cup F
    BY <1>2 DEF G
  <2>5. Cardinality(G \cup F) <= Cardinality(Types) + MaxDepth
    BY <2>1, <2>2, <2>3, <1>1, <1>4
  <2> QED BY <2>3, <2>4, <2>5
<1>7. IsFiniteSet(Sets) /\ Cardinality(Sets) = MaxDepth + Cardinality(Types) + 1
  <2> DEFINE n == MaxDepth + Cardinality(Types)
  <2>1. n \in Nat
    BY <1>1
  <2> HIDE DEF n
  <2>2. 0 \in Int /\ n \in Int
    BY <2>1
  <2>3. IsFiniteSet(0 .. n) /\ Cardinality(0 .. n) = IF 0 > n THEN 0 ELSE n - 0 + 1
    BY <2>2, FS_Interval
  <2>4. Sets = 0 .. n
    BY DEF Sets, n
  <2>5. Cardinality(Sets) = n + 1
    BY <2>1, <2>3, <2>4
  <2> QED BY <2>3, <2>4, <2>5 DEF n
<1>8. Unused # {}
  <2>1. SUFFICES ASSUME Unused = {} PROVE FALSE
    OBVIOUS
  <2>2. Sets \in SUBSET Used
    BY <2>1, SetsInUse
  <2>3. Cardinality(Sets) <= Cardinality(Used)
    BY <2>2, <1>6, FS_Subset
  <2>4. Cardinality(Used) \in Nat
    BY <1>6, FS_CardinalityType
  <2> QED BY <1>1, <1>6, <1>7, <2>3, <2>4
<1>9. Unused \in SUBSET Nat
  BY <1>1 DEF Unused, Sets
<1> QED BY <1>8, <1>9, MinIsLeast

-----------------------------------------------------------------------------
(* The bus starts as the invariant says.                                   *)
LEMMA BusStarts == Init => BusInv
<1> SUFFICES ASSUME Init PROVE BusInv
  OBVIOUS
<1>1. Made = {} /\ DOMAIN handlers = {} /\ DOMAIN frames = {} /\ Range(timers) = {}
  BY DEF Init, Made, Range
<1>2. \A o \in Sets : members[o] = {}
  BY DEF Init
<1>3. MaxSubs \in Nat /\ MaxEvents \in Nat /\ MaxDepth \in Nat /\ Cardinality(Types) \in Nat
  BY EventBusAssumption, FS_CardinalityType
<1>4. Wild \in Sets
  BY <1>3 DEF Wild, Sets
<1>5. BusTypes
  <2>1. subs \in Seq(Subscription) /\ frames \in Seq(SyncCall) /\ timers \in Seq(Made \X Events)
    BY DEF Init
  <2>2. fate \in [Made -> Fates] /\ handlers \in [DOMAIN handlers -> Sets \ {Wild}]
    BY <1>1 DEF Init
  <2>3. members \in [Sets -> SUBSET Made]
    BY DEF Init
  <2>4. Len(subs) = 0 /\ Len(frames) = 0 /\ emitted \in 0 .. MaxEvents
    BY <1>3 DEF Init
  <2>5. called = {} /\ owed = {} /\ detached = {}
    BY DEF Init
  <2> QED BY <1>1, <1>3, <2>1, <2>2, <2>3, <2>4, <2>5 DEF BusTypes
<1>6. Used = {Wild}
  BY <1>1 DEF Used, Range
<1>7. SetsApart
  BY <1>1, <1>2, <1>4, <1>6 DEF SetsApart, Serves
<1>8. MapIsLive /\ LostOnlyInEmitSync /\ Shadowed /\ SyncReaches
  BY <1>1, <1>2, <1>4 DEF MapIsLive, LostOnlyInEmitSync, Shadowed, SyncReaches
<1>9. OnceGone
  BY <1>1 DEF OnceGone, Init
<1> QED BY <1>5, <1>7, <1>8, <1>9 DEF BusInv

\* No subscription begins, and the Sets in use were in use before.
Narrows ==
    /\ subs' = subs /\ detached' = detached
    /\ DOMAIN handlers' \subseteq DOMAIN handlers
    /\ \A t \in DOMAIN handlers' : handlers'[t] = handlers[t]
    /\ \A o \in Sets : members'[o] \subseteq members[o]
    /\ \A i \in DOMAIN frames' : frames'[i].set = Wild \/ Serves(frames'[i].set, frames'[i].type)

(* Sets that only shrink stay apart.                                       *)
LEMMA NarrowsKeeps ==
    ASSUME BusInv, BusTypes', Narrows
    PROVE  SetsApart' /\ Shadowed' /\ Used' \subseteq Used
<1>1. ASSUME NEW o, NEW t, o # Wild, Serves(o, t)'
      PROVE  Serves(o, t)
  BY <1>1 DEF Serves, Narrows
<1>2. Used' \subseteq Used
  <2>1. ASSUME NEW i \in DOMAIN frames'
        PROVE  frames'[i].set \in Used
    BY DEF Narrows, Serves, Used, Range
  <2>2. ASSUME NEW t \in DOMAIN handlers'
        PROVE  handlers'[t] \in Used
    BY DEF Narrows, Used, Range
  <2> QED BY <2>1, <2>2 DEF Used, Range
<1>3. Used \subseteq Sets /\ Wild \in Sets
  BY SetsInUse DEF BusInv
<1>4. SetsApart'
  <2>1. \A o \in Sets \ {Wild}, t, u \in Types : Serves(o, t)' /\ Serves(o, u)' => t = u
    BY <1>1 DEF BusInv, SetsApart
  <2>2. \A o \in Sets \ {Wild}, t \in Types : Serves(o, t)' => \A s \in members'[o] : subs'[s].type = t
    BY <1>1 DEF BusInv, SetsApart, Narrows
  <2>3. \A s \in members'[Wild] : subs'[s].type = AllTypes /\ ~subs'[s].once
    BY <1>3 DEF BusInv, SetsApart, Narrows
  <2>4. \A o, p \in Used' : o # p => members'[o] \cap members'[p] = {}
    <3> SUFFICES ASSUME NEW o \in Used, NEW p \in Used, o # p
                 PROVE  members'[o] \cap members'[p] = {}
      BY <1>2
    <3>1. members'[o] \subseteq members[o] /\ members'[p] \subseteq members[p]
      BY <1>3 DEF Narrows
    <3>2. members[o] \cap members[p] = {}
      BY DEF BusInv, SetsApart
    <3> QED BY <3>1, <3>2
  <2> QED BY <2>1, <2>2, <2>3, <2>4 DEF SetsApart
<1>5. Shadowed'
  <2> SUFFICES ASSUME NEW i \in DOMAIN frames', NEW t \in DOMAIN handlers', frames'[i].type = t,
                      frames'[i].set # Wild, handlers'[t] # frames'[i].set
               PROVE  members'[handlers'[t]] \subseteq detached'
    BY DEF Shadowed
  <2>1. t \in DOMAIN handlers /\ handlers[t] = handlers'[t]
    BY DEF Narrows
  <2>2. Serves(frames'[i].set, t)
    BY DEF Narrows
  <2>3. PICK j \in DOMAIN frames : frames[j].set = frames'[i].set /\ frames[j].type = t
    BY <2>1, <2>2 DEF Serves
  <2>4. members[handlers[t]] \subseteq detached
    BY <2>1, <2>3 DEF BusInv, Shadowed
  <2>5. handlers[t] \in Sets
    BY <1>3, <2>1 DEF Used, Range
  <2> QED BY <2>1, <2>4, <2>5 DEF Narrows
<1> QED BY <1>2, <1>4, <1>5

(* When nobody new is called or scheduled, a once subscription that was    *)
(* stays out of the Sets.                                                  *)
LEMMA OnceStaysGone ==
    ASSUME BusInv, Narrows, Used' \subseteq Used,
           called' \cup Range(timers') \subseteq called \cup Range(timers)
    PROVE  OnceGone'
<1>1. Used \subseteq Sets
  BY SetsInUse DEF BusInv
<1>2. subs' = subs /\ \A o \in Used : members'[o] \subseteq members[o]
  BY <1>1 DEF Narrows
<1>3. Range(timers)' = Range(timers')
  BY DEF Range
<1>4. \A p \in (called \cup Range(timers))' : p \in called \cup Range(timers)
  BY <1>3
<1>5. \A p \in (called \cup Range(timers))' : subs'[p[1]].once => \A o \in Used' : p[1] \notin members'[o]
  BY <1>2, <1>4 DEF BusInv, OnceGone
<1>6. \A p, q \in (called \cup Range(timers))' : p[1] = q[1] /\ subs'[p[1]].once => p[2] = q[2]
  BY <1>2, <1>4 DEF BusInv, OnceGone
<1> QED BY <1>5, <1>6 DEF OnceGone

\* The subscriptions stay, and their ends and calls are not taken back.
Ages ==
    /\ \A s \in Made : subs'[s] = subs[s] /\ (fate[s] # "live" => fate'[s] # "live")
    /\ called \subseteq called' /\ detached \subseteq detached'

(* What an emitSync() has reached, or will, it goes on having so.          *)
LEMMA AwaitsStill ==
    ASSUME NEW f, f.concerned \subseteq Made, Awaits(f), Ages
    PROVE  Awaits(f)'
<1> SUFFICES ASSUME NEW s \in f.concerned
             PROVE  subs'[s].type \in {f.type, AllTypes} /\ Accepts(s, f.event)' /\ Reached(f, s)'
  BY DEF Awaits
<1>1. s \in Made /\ subs'[s] = subs[s] /\ (fate[s] # "live" => fate'[s] # "live")
  BY DEF Ages
<1>2. subs[s].type \in {f.type, AllTypes} /\ Accepts(s, f.event) /\ Reached(f, s)
  BY DEF Awaits
<1>3. Accepts(s, f.event)'
  BY <1>1, <1>2 DEF Accepts
<1>4. Pending(f, s) => Pending(f, s)'
  BY <1>1 DEF Pending
<1>5. Reached(f, s)'
  BY <1>1, <1>2, <1>4 DEF Reached, Ages
<1> QED BY <1>1, <1>2, <1>3, <1>5

(* A step that gets only older and leaves the calls of emitSync() as they  *)
(* are keeps what they owe.                                                *)
LEMMA SyncStillReaches ==
    ASSUME BusInv, Ages, \A i \in DOMAIN frames' : i \in DOMAIN frames /\ frames'[i] = frames[i]
    PROVE  SyncReaches'
<1> SUFFICES ASSUME NEW i \in DOMAIN frames'
             PROVE  Awaits(frames[i])'
  BY DEF SyncReaches
<1>1. PICK f : f = frames[i]
  OBVIOUS
<1>2. i \in DOMAIN frames /\ frames'[i] = f
  BY <1>1
<1>3. f.concerned \subseteq Made /\ Awaits(f)
  BY <1>1, <1>2 DEF BusInv, BusTypes, SyncReaches
<1>4. Awaits(f)'
  BY <1>3, AwaitsStill
<1> QED BY <1>2, <1>4

-----------------------------------------------------------------------------
\* Where add() may put a subscription of type t: the Set of the map, or one
\* that nothing uses.
Place(t, o, once, map) ==
    \/ t = AllTypes /\ o = Wild /\ ~once /\ map = handlers
    \/ /\ t \in Types /\ o \in Sets \ {Wild}
       /\ DOMAIN map = DOMAIN handlers \cup {t} /\ map[t] = o
       /\ map = [u \in DOMAIN map |-> map[u]]
       /\ \A u \in DOMAIN handlers : map[u] = handlers[u]
       /\ t \in DOMAIN handlers \/ o \notin Used

(* A new subscription joins its Set.                                       *)
LEMMA AddKeeps ==
    ASSUME BusInv, NEW t, NEW o, NEW once \in BOOLEAN, NEW filter \in BOOLEAN, NEW map,
           Add(t, o, once, filter, map), Place(t, o, once, map)
    PROVE  BusInv'
<1>1. PICK s : s = Len(subs) + 1
  OBVIOUS
<1>2. AllTypes \notin Types /\ Wild \in Sets /\ Used \subseteq Sets
  BY EventBusAssumption, SetsInUse DEF BusInv
<1>3. BusTypes
  BY DEF BusInv
<1>4. /\ subs \in Seq(Subscription) /\ Made = 1 .. Len(subs) /\ Len(subs) \in Nat
      /\ s \in Subs /\ s \notin Made /\ s \in Nat
      /\ [type |-> t, once |-> once, filter |-> filter] \in Subscription
  BY <1>1, <1>2, <1>3 DEF BusTypes, Made, Add, Place, Subscription, Subs
<1>5. /\ subs' \in Seq(Subscription) /\ Len(subs') = s /\ Made' = Made \cup {s}
      /\ \A x \in Made : subs'[x] = subs[x]
      /\ subs'[s] = [type |-> t, once |-> once, filter |-> filter]
  BY <1>1, <1>4 DEF Made, Add
<1>6. /\ fate' \in [Made' -> Fates] /\ \A x \in Made : fate'[x] = fate[x]
      /\ fate'[s] = "live"
  <2>1. fate \in Seq(Fates) /\ Len(fate) = Len(subs)
    <3>1. fate \in [1 .. Len(subs) -> Fates] /\ Len(subs) \in Nat
      BY <1>3, <1>4 DEF BusTypes
    <3> QED BY <3>1, ListsAreSequences
  <2>2. fate' = Append(fate, "live") /\ "live" \in Fates
    BY DEF Add, Fates
  <2>3. fate' \in Seq(Fates) /\ Len(fate') = s /\ fate'[s] = "live"
    BY <1>1, <2>1, <2>2
  <2>4. \A x \in Made : fate'[x] = fate[x]
    BY <1>4, <2>1, <2>2
  <2>5. Made' = 1 .. s
    BY <1>1, <1>4, <1>5
  <2> QED BY <2>3, <2>4, <2>5
<1>7. /\ handlers' = map /\ o \in Sets /\ DOMAIN map \subseteq Types
      /\ map \in [DOMAIN map -> Sets \ {Wild}]
      /\ \A u \in DOMAIN handlers : u \in DOMAIN map /\ map[u] = handlers[u]
      /\ \A u \in DOMAIN map : u \in DOMAIN handlers \/ (u = t /\ map[u] = o /\ o \notin Used)
  <2>1. handlers' = map
    BY DEF Add
  <2>2. DOMAIN handlers \subseteq Types /\ handlers \in [DOMAIN handlers -> Sets \ {Wild}]
    BY <1>3 DEF BusTypes
  <2>3. CASE t = AllTypes /\ o = Wild /\ map = handlers
    BY <1>2, <2>1, <2>2, <2>3
  <2>4. CASE t \in Types /\ o \in Sets \ {Wild} /\ DOMAIN map = DOMAIN handlers \cup {t}
    <3>1. \A u \in DOMAIN handlers : map[u] = handlers[u] /\ map[u] \in Sets \ {Wild}
      BY <1>2, <2>2, <2>4 DEF Place
    <3>2. map[t] = o /\ map = [u \in DOMAIN map |-> map[u]]
      BY <1>2, <2>4 DEF Place
    <3>3. \A u \in DOMAIN map : map[u] \in Sets \ {Wild}
      BY <2>4, <3>1, <3>2
    <3>4. map \in [DOMAIN map -> Sets \ {Wild}]
      BY <3>2, <3>3
    <3>5. \A u \in DOMAIN map : u \in DOMAIN handlers \/ (u = t /\ map[u] = o /\ o \notin Used)
      BY <1>2, <2>4, <3>2 DEF Place
    <3> QED BY <2>1, <2>2, <2>4, <3>1, <3>4, <3>5
  <2> QED BY <2>3, <2>4 DEF Place
<1> DEFINE base == IF o \in Used THEN members[o] ELSE {}
<1>8. members \in [Sets -> SUBSET Made]
  BY <1>3 DEF BusTypes
<1>9. /\ members' \in [Sets -> SUBSET Made']
      /\ members'[o] = base \cup {s}
      /\ \A x \in Sets \ {o} : members'[x] = members[x]
  <2>1. CASE o \in Used
    <3>1. o \in Range(handlers) \cup {Wild}
      BY <2>1 DEF Place, Range
    <3>2. members' = [members EXCEPT ![o] = @ \cup {s}]
      BY <1>1, <3>1 DEF Add
    <3> QED BY <1>5, <1>7, <1>8, <2>1, <3>2
  <2>2. CASE o \notin Used
    <3>1. o \notin Range(handlers) \cup {Wild}
      BY <2>2 DEF Used
    <3>2. members' = [members EXCEPT ![o] = {s}]
      BY <1>1, <3>1 DEF Add
    <3> QED BY <1>5, <1>7, <1>8, <2>2, <3>2
  <2> QED BY <2>1, <2>2
<1> HIDE DEF base
<1>10. /\ detached \subseteq detached' /\ detached' \subseteq Made'
       /\ Outdated(t, map) => s \in detached'
  BY <1>1, <1>3, <1>5 DEF BusTypes, Add
<1>11. UNCHANGED <<frames, timers, emitted, called, owed>>
  BY DEF Add
<1>12. BusTypes'
  <2>1. timers' \in Seq(Made' \X Events)
    <3>1. timers \in Seq(Made \X Events)
      BY <1>3 DEF BusTypes
    <3>2. (Made \X Events) \subseteq (Made' \X Events)
      BY <1>5
    <3> QED BY <3>1, <3>2, <1>11
  <2>2. called' \subseteq Made' \X Events /\ owed' \subseteq Made' \X Events
    BY <1>3, <1>5, <1>11 DEF BusTypes
  <2>3. Len(subs') <= MaxSubs
    BY <1>4, <1>5 DEF Subs
  <2>4. /\ frames' \in Seq(SyncCall) /\ Len(frames') <= MaxDepth /\ emitted' \in 0 .. MaxEvents
        /\ \A i \in DOMAIN frames' : frames'[i].concerned \subseteq Made'
    BY <1>3, <1>5, <1>11 DEF BusTypes
  <2> QED BY <1>5, <1>6, <1>7, <1>9, <1>10, <2>1, <2>2, <2>3, <2>4 DEF BusTypes
<1>13. /\ \A x \in Sets : s \notin members[x]
       /\ \A x \in Sets : x # o => members'[x] = members[x]
       /\ Used' = Used \cup {o}
  <2>1. Range(map) \cup {o} = Range(handlers) \cup {o}
    BY <1>7 DEF Range
  <2>2. o = Wild \/ o \in Range(map)
    BY <1>7 DEF Place, Range
  <2>3. Used' = {Wild} \cup Range(map) \cup {frames[i].set : i \in DOMAIN frames}
    BY <1>7, <1>11 DEF Used
  <2> QED BY <1>4, <1>8, <1>9, <2>1, <2>2, <2>3 DEF Used
<1>14. ASSUME NEW p, NEW u, p # Wild, Serves(p, u)'
       PROVE  Serves(p, u) \/ (p = o /\ u = t /\ o \notin Used)
  BY <1>7, <1>11, <1>14 DEF Serves
<1>15. ASSUME NEW p, NEW u, Serves(p, u) PROVE p \in Used
  BY <1>15 DEF Serves, Used, Range
<1>16. SetsApart'
  <2>1. \A p \in Sets \ {Wild}, u, v \in Types : Serves(p, u)' /\ Serves(p, v)' => u = v
    BY <1>3, <1>14, <1>15 DEF BusInv, SetsApart
  <2>2. ASSUME NEW p \in Sets \ {Wild}, NEW u \in Types, Serves(p, u)', NEW x \in members'[p]
        PROVE  subs'[x].type = u
    <3>1. CASE p # o
      <4>1. Serves(p, u) /\ x \in members[p] /\ x \in Made
        BY <1>8, <1>13, <1>14, <2>2, <3>1
      <4> QED BY <1>5, <4>1 DEF BusInv, SetsApart
    <3>2. CASE p = o /\ x = s
      <4>1. t \in Types /\ (t \in DOMAIN handlers \/ o \notin Used)
        BY <3>2 DEF Place
      <4>2. CASE o \notin Used
        BY <1>5, <1>14, <1>15, <2>2, <3>2, <4>2
      <4>3. CASE o \in Used
        <5>1. t \in DOMAIN handlers /\ handlers[t] = o
          BY <3>2, <4>3 DEF Place
        <5>2. Serves(o, t) /\ Serves(o, u)
          BY <1>14, <2>2, <3>2, <4>3, <5>1 DEF Serves
        <5> QED BY <1>5, <2>2, <3>2, <4>1, <5>2 DEF BusInv, SetsApart
      <4> QED BY <4>2, <4>3
    <3>3. CASE p = o /\ x # s
      <4>1. x \in members[o] /\ o \in Used /\ x \in Made
        BY <1>8, <1>9, <2>2, <3>3 DEF base
      <4>2. Serves(o, u)
        BY <1>14, <2>2, <3>3, <4>1
      <4> QED BY <1>5, <2>2, <3>3, <4>1, <4>2 DEF BusInv, SetsApart
    <3> QED BY <3>1, <3>2, <3>3
  <2>3. ASSUME NEW x \in members'[Wild]
        PROVE  subs'[x].type = AllTypes /\ ~subs'[x].once
    <3>1. CASE x = s
      <4>1. o = Wild
        BY <1>2, <1>13, <3>1, <2>3
      <4> QED BY <1>5, <3>1, <4>1 DEF Place
    <3>2. CASE x # s
      <4>1. x \in members[Wild] /\ x \in Made
        BY <1>2, <1>8, <1>9, <2>3, <3>2 DEF base
      <4> QED BY <1>5, <4>1 DEF BusInv, SetsApart
    <3> QED BY <3>1, <3>2
  <2>4. ASSUME NEW p \in Used', NEW q \in Used', p # q
        PROVE  members'[p] \cap members'[q] = {}
    <3>1. ASSUME NEW a \in Used', NEW b \in Used', a # b, a # o, NEW x, x \in members'[a], x \in members'[b]
          PROVE  FALSE
      <4>1. a \in Used /\ a \in Sets /\ b \in Sets /\ x \in members[a] /\ x # s
        BY <1>2, <1>7, <1>13, <3>1
      <4>2. b \in Used /\ x \in members[b]
        BY <1>9, <1>13, <3>1, <4>1 DEF base
      <4> QED BY <3>1, <4>1, <4>2 DEF BusInv, SetsApart
    <3> QED BY <2>4, <3>1
  <2> QED BY <2>1, <2>2, <2>3, <2>4 DEF SetsApart
<1>17. ASSUME NEW p \in Sets, NEW x \in members'[p], x # s
       PROVE  x \in members[p] /\ x \in Made /\ (p \in Used \/ p # o)
  BY <1>8, <1>9, <1>17 DEF base
<1>18. \A p \in Used : members[p] \subseteq members'[p]
  BY <1>2, <1>9 DEF base
<1>19. \A u \in DOMAIN handlers : handlers[u] \in Used /\ handlers[u] # Wild
  BY <1>3, SetsInUse DEF BusTypes
<1>20. MapIsLive'
  <2>1. ASSUME NEW x \in members'[Wild]
        PROVE  fate'[x] = "live"
    <3>1. x # s => x \in members[Wild] /\ x \in Made
      BY <1>2, <1>17, <2>1
    <3> QED BY <1>6, <3>1 DEF BusInv, MapIsLive
  <2>2. ASSUME NEW u \in DOMAIN map, NEW x \in members'[map[u]]
        PROVE  fate'[x] = "live"
    <3>1. map[u] \in Sets
      BY <1>7
    <3>2. x # s => x \in members[map[u]] /\ x \in Made /\ (map[u] \in Used \/ map[u] # o)
      BY <1>17, <2>2, <3>1
    <3>3. x # s => u \in DOMAIN handlers /\ map[u] = handlers[u]
      BY <1>7, <3>2
    <3> QED BY <1>6, <3>2, <3>3 DEF BusInv, MapIsLive
  <2>3. ASSUME NEW u \in DOMAIN map, members'[map[u]] = {}
        PROVE  \E i \in DOMAIN frames : frames[i].set = map[u]
    <3>1. map[u] # o /\ map[u] \in Sets
      BY <1>7, <1>9, <2>3
    <3>2. u \in DOMAIN handlers /\ map[u] = handlers[u] /\ members[handlers[u]] = {}
      BY <1>7, <1>13, <2>3, <3>1
    <3> QED BY <3>2 DEF BusInv, MapIsLive
  <2> QED BY <1>7, <1>11, <2>1, <2>2, <2>3 DEF MapIsLive
<1>21. LostOnlyInEmitSync'
  <2> SUFFICES ASSUME NEW x \in Made', fate'[x] = "live", x \notin detached'
               PROVE  Registered(x)'
    BY DEF LostOnlyInEmitSync
  <2>1. CASE x = s
    <3>1. subs'[x].type = t /\ s \in members'[o]
      BY <1>5, <1>9, <2>1
    <3>2. t = AllTypes => o = Wild
      BY <1>2 DEF Place
    <3>3. t # AllTypes => t \in DOMAIN map /\ map[t] = o
      BY DEF Place
    <3> QED BY <1>7, <2>1, <3>1, <3>2, <3>3 DEF Registered
  <2>2. CASE x # s
    <3>1. x \in Made /\ subs'[x] = subs[x]
      BY <1>5, <2>2
    <3>2. fate[x] = "live" /\ x \notin detached
      BY <1>6, <1>10, <3>1
    <3>3. Registered(x)
      BY <3>1, <3>2 DEF BusInv, LostOnlyInEmitSync
    <3>4. Wild \in Used
      BY DEF Used
    <3> QED BY <1>7, <1>18, <1>19, <3>1, <3>3, <3>4 DEF Registered
  <2> QED BY <2>1, <2>2
<1>22. Shadowed'
  <2> SUFFICES ASSUME NEW i \in DOMAIN frames, NEW u \in DOMAIN map, frames[i].type = u,
                      frames[i].set # Wild, map[u] # frames[i].set
               PROVE  members'[map[u]] \subseteq detached'
    BY <1>7, <1>11 DEF Shadowed
  <2>1. ASSUME u = t PROVE s \in detached'
    <3>1. Outdated(t, map)
      BY <2>1 DEF Outdated
    <3> QED BY <1>10, <3>1
  <2>2. map[u] \in Sets /\ u \in Types
    BY <1>7
  <2>3. ASSUME NEW x \in members'[map[u]], x # s
        PROVE  x \in detached'
    <3>1. x \in members[map[u]] /\ (map[u] \in Used \/ map[u] # o)
      BY <1>17, <2>2, <2>3
    <3>2. u \in DOMAIN handlers /\ map[u] = handlers[u]
      BY <1>7, <3>1
    <3>3. members[handlers[u]] \subseteq detached
      BY <3>2 DEF BusInv, Shadowed
    <3> QED BY <1>10, <3>1, <3>2, <3>3
  <2>4. ASSUME s \in members'[map[u]]
        PROVE  u = t
    <3>1. map[u] = o
      BY <1>13, <2>2, <2>4
    <3>2. CASE u \in DOMAIN handlers
      <4>1. handlers[u] = o /\ o \in Used /\ o # Wild
        BY <1>7, <1>19, <3>1, <3>2
      <4>2. t \in DOMAIN handlers /\ handlers[t] = o /\ t \in Types
        BY <4>1 DEF Place
      <4>3. Serves(o, u) /\ Serves(o, t)
        BY <3>2, <4>1, <4>2 DEF Serves
      <4> QED BY <1>7, <2>2, <4>1, <4>2, <4>3 DEF BusInv, SetsApart
    <3>3. CASE u \notin DOMAIN handlers
      BY <1>7, <3>3
    <3> QED BY <3>2, <3>3
  <2> QED BY <2>1, <2>3, <2>4
<1>23. OnceGone'
  <2>1. \A p \in called \cup Range(timers) : p[1] \in Made
    BY <1>3 DEF BusTypes, Range
  <2>2. ASSUME NEW p \in called \cup Range(timers), subs'[p[1]].once, NEW q \in Used', p[1] \in members'[q]
        PROVE  FALSE
    <3>1. p[1] \in Made /\ p[1] # s /\ q \in Sets /\ subs[p[1]].once
      BY <1>2, <1>4, <1>5, <1>7, <1>13, <2>1, <2>2
    <3>2. p[1] \in members[q] /\ q \in Used
      BY <1>13, <1>17, <2>2, <3>1
    <3> QED BY <3>1, <3>2 DEF BusInv, OnceGone
  <2>3. \A p, q \in called \cup Range(timers) : p[1] = q[1] /\ subs'[p[1]].once => p[2] = q[2]
    BY <1>5, <2>1 DEF BusInv, OnceGone
  <2>4. (called \cup Range(timers))' = called \cup Range(timers)
    BY <1>11 DEF Range
  <2> QED BY <2>2, <2>3, <2>4 DEF OnceGone
<1>24. SyncReaches'
  <2>1. Ages
    BY <1>5, <1>6, <1>10, <1>11 DEF Ages
  <2> QED BY <1>11, <2>1, SyncStillReaches
<1> QED BY <1>12, <1>16, <1>20, <1>21, <1>22, <1>23, <1>24 DEF BusInv

(* subscribe() and once() keep the invariant.                              *)
LEMMA SubscribeKeeps ==
    ASSUME BusInv, NEW t \in Types, NEW once \in BOOLEAN, NEW filter \in BOOLEAN, Subscribe(t, once, filter)
    PROVE  BusInv'
<1>1. PICK o : o = SetFor(t)
  OBVIOUS
<1>2. PICK map : map = [x \in DOMAIN handlers \cup {t} |-> IF x = t THEN o ELSE handlers[x]]
  OBVIOUS
<1>3. Add(t, o, once, filter, map)
  BY <1>1, <1>2 DEF Subscribe
<1>4. BusTypes
  BY DEF BusInv
<1>5. /\ o \in Sets \ {Wild}
      /\ t \in DOMAIN handlers => handlers[t] = o
      /\ t \in DOMAIN handlers \/ o \notin Used
  <2>1. CASE t \in DOMAIN handlers
    BY <1>1, <1>4, <2>1 DEF SetFor, BusTypes
  <2>2. CASE t \notin DOMAIN handlers
    <3>1. o \in Unused
      BY <1>1, <1>4, <2>2, SetLeft DEF SetFor
    <3>2. Unused = Sets \ Used /\ Wild \in Used
      BY <1>4, SetsInUse DEF Used
    <3> QED BY <2>2, <3>1, <3>2
  <2> QED BY <2>1, <2>2
<1>6. Place(t, o, once, map)
  <2>1. DOMAIN map = DOMAIN handlers \cup {t} /\ map[t] = o /\ map = [u \in DOMAIN map |-> map[u]]
    BY <1>2
  <2>2. \A u \in DOMAIN handlers : map[u] = handlers[u]
    BY <1>2, <1>5
  <2> QED BY <1>5, <2>1, <2>2 DEF Place
<1> QED BY <1>3, <1>6, AddKeeps

(* subscribeAll() keeps the invariant.                                     *)
LEMMA SubscribeAllKeeps ==
    ASSUME BusInv, NEW filter \in BOOLEAN, SubscribeAll(filter)
    PROVE  BusInv'
<1>1. PICK map : map = handlers
  OBVIOUS
<1>2. Add(AllTypes, Wild, FALSE, filter, map) /\ Place(AllTypes, Wild, FALSE, map)
  BY <1>1 DEF SubscribeAll, Place
<1> QED BY <1>2, AddKeeps
-----------------------------------------------------------------------------
(* What is left of the map when an empty Set is deleted.                   *)
LEMMA TidyFacts ==
    ASSUME BusTypes, NEW t, NEW o, NEW mem, NEW map, map = Tidy(t, o, handlers, mem)
    PROVE  /\ DOMAIN map \subseteq DOMAIN handlers /\ map \in [DOMAIN map -> Sets \ {Wild}]
           /\ \A u \in DOMAIN map : map[u] = handlers[u]
           /\ mem[o] = {} => DOMAIN map = DOMAIN handlers \ {t}
           /\ mem[o] # {} => DOMAIN map = DOMAIN handlers
<1>1. handlers \in [DOMAIN handlers -> Sets \ {Wild}]
  BY DEF BusTypes
<1>2. CASE mem[o] = {}
  <2>1. map = [u \in DOMAIN handlers \ {t} |-> handlers[u]]
    BY <1>2 DEF Tidy, Without, Restrict
  <2> QED BY <1>1, <1>2, <2>1
<1>3. CASE mem[o] # {}
  <2>1. map = handlers
    BY <1>3 DEF Tidy
  <2> QED BY <1>1, <1>3, <2>1
<1> QED BY <1>2, <1>3

(* The entry of a type is the only one with its Set.                       *)
LEMMA EntriesDiffer ==
    ASSUME BusInv, NEW t \in DOMAIN handlers, NEW u \in DOMAIN handlers, t # u
    PROVE  /\ handlers[t] # handlers[u] /\ members[handlers[t]] \cap members[handlers[u]] = {}
           /\ handlers[t] \in Used /\ handlers[t] \in Sets \ {Wild} /\ t \in Types
<1>1. handlers[t] \in Sets \ {Wild} /\ t \in Types /\ u \in Types
  BY DEF BusInv, BusTypes
<1>2. Serves(handlers[t], t) /\ (handlers[t] = handlers[u] => Serves(handlers[t], u))
  BY DEF Serves
<1>3. handlers[t] # handlers[u]
  BY <1>1, <1>2 DEF BusInv, SetsApart
<1>4. handlers[t] \in Used /\ handlers[u] \in Used
  BY SetsInUse DEF BusInv
<1> QED BY <1>1, <1>3, <1>4 DEF BusInv, SetsApart

(* Whose Set is of their type, unless they subscribed to all types.        *)
LEMMA MembersType ==
    ASSUME BusInv, NEW t \in DOMAIN handlers, NEW s \in members[handlers[t]]
    PROVE  subs[s].type = t /\ s \in Made /\ t \in Types
<1>1. handlers[t] \in Sets \ {Wild} /\ t \in Types /\ members \in [Sets -> SUBSET Made]
  BY DEF BusInv, BusTypes
<1>2. Serves(handlers[t], t)
  BY DEF Serves
<1> QED BY <1>1, <1>2 DEF BusInv, SetsApart
-----------------------------------------------------------------------------
(* unsubscribe() keeps the invariant.                                      *)
LEMMA UnsubscribeKeeps ==
    ASSUME BusInv, NEW s \in Subs, Unsubscribe(s)
    PROVE  BusInv'
<1>1. PICK t : t = subs[s].type
  OBVIOUS
<1>2. PICK o : o = IF t \in DOMAIN handlers THEN handlers[t] ELSE Wild
  OBVIOUS
<1>3. /\ s \in Made /\ members' = [members EXCEPT ![o] = @ \ {s}]
      /\ handlers' = Tidy(t, o, handlers, members')
      /\ fate' = [fate EXCEPT ![s] = IF @ = "live" THEN "cancelled" ELSE @]
      /\ UNCHANGED <<subs, frames, timers, emitted, called, owed, detached>>
  BY <1>1, <1>2 DEF Unsubscribe
<1>4. BusTypes /\ Wild \in Sets /\ AllTypes \notin Types /\ Used \subseteq Sets
  BY SetsInUse, EventBusAssumption DEF BusInv
<1>5. /\ o \in Sets /\ members \in [Sets -> SUBSET Made] /\ fate \in [Made -> Fates] /\ Made' = Made
      /\ DOMAIN handlers \subseteq Types
  BY <1>2, <1>3, <1>4 DEF BusTypes, Made
<1>6. /\ members'[o] = members[o] \ {s} /\ members' \in [Sets -> SUBSET Made]
      /\ \A p \in Sets : members'[p] \subseteq members[p] /\ members[p] \subseteq members'[p] \cup {s}
      /\ \A p \in Sets \ {o} : members'[p] = members[p]
  BY <1>3, <1>5
<1>7. /\ fate' \in [Made -> Fates] /\ fate'[s] # "live"
      /\ \A x \in Made \ {s} : fate'[x] = fate[x]
      /\ \A x \in Made : fate[x] # "live" => fate'[x] # "live"
  BY <1>3, <1>5 DEF Fates
<1>8. PICK mem : mem = members'
  OBVIOUS
<1>9. PICK map : map = handlers'
  OBVIOUS
<1>10. /\ DOMAIN map \subseteq DOMAIN handlers /\ map \in [DOMAIN map -> Sets \ {Wild}]
       /\ \A u \in DOMAIN map : map[u] = handlers[u]
       /\ mem[o] = {} => DOMAIN map = DOMAIN handlers \ {t}
       /\ mem[o] # {} => DOMAIN map = DOMAIN handlers
  <2>1. map = Tidy(t, o, handlers, mem)
    BY <1>3, <1>8, <1>9
  <2> QED BY <1>4, <2>1, TidyFacts
<1>11. BusTypes'
  BY <1>3, <1>4, <1>5, <1>6, <1>7, <1>9, <1>10 DEF BusTypes
<1>12. Narrows
  <2>1. \A i \in DOMAIN frames : Serves(frames[i].set, frames[i].type)
    BY DEF Serves
  <2> QED BY <1>3, <1>6, <1>9, <1>10, <2>1 DEF Narrows
<1>13. SetsApart' /\ Shadowed' /\ Used' \subseteq Used
  BY <1>11, <1>12, NarrowsKeeps
<1>14. OnceGone'
  <2>1. called' \cup Range(timers') \subseteq called \cup Range(timers)
    BY <1>3
  <2> QED BY <1>12, <1>13, <2>1, OnceStaysGone
<1>15. SyncReaches'
  <2>1. Ages
    BY <1>3, <1>7 DEF Ages
  <2> QED BY <1>3, <2>1, SyncStillReaches
<1>16. MapIsLive'
  <2>1. ASSUME NEW x \in members'[Wild]
        PROVE  fate'[x] = "live"
    <3>1. x \in members[Wild] /\ x \in Made
      BY <1>4, <1>5, <1>6, <2>1
    <3>2. subs[x].type = AllTypes /\ fate[x] = "live"
      BY <3>1 DEF BusInv, SetsApart, MapIsLive
    <3>3. x # s
      BY <1>1, <1>2, <1>4, <1>5, <1>6, <2>1, <3>2
    <3> QED BY <1>7, <3>1, <3>2, <3>3
  <2>2. ASSUME NEW u \in DOMAIN map, NEW x \in members'[map[u]]
        PROVE  fate'[x] = "live"
    <3>1. u \in DOMAIN handlers /\ map[u] = handlers[u] /\ map[u] \in Sets
      BY <1>10
    <3>2. x \in members[handlers[u]]
      BY <1>6, <2>2, <3>1
    <3>3. subs[x].type = u /\ x \in Made /\ fate[x] = "live"
      BY <3>1, <3>2, MembersType DEF BusInv, MapIsLive
    <3>4. x # s
      BY <1>1, <1>2, <1>6, <2>2, <3>1, <3>3
    <3> QED BY <1>7, <3>3, <3>4
  <2>3. ASSUME NEW u \in DOMAIN map, members'[map[u]] = {}
        PROVE  \E i \in DOMAIN frames : frames[i].set = map[u]
    <3>1. u \in DOMAIN handlers /\ map[u] = handlers[u] /\ map[u] \in Sets /\ map[u] # Wild
      BY <1>10
    <3>2. map[u] # o
      <4>1. SUFFICES ASSUME map[u] = o PROVE FALSE
        OBVIOUS
      <4>2. t \in DOMAIN handlers /\ handlers[t] = o
        BY <1>2, <3>1, <4>1
      <4>3. u = t
        BY <3>1, <4>1, <4>2, EntriesDiffer
      <4>4. mem[o] = {}
        BY <1>8, <2>3, <4>1
      <4> QED BY <1>10, <4>3, <4>4
    <3>3. members[handlers[u]] = {}
      BY <1>6, <2>3, <3>1, <3>2
    <3> QED BY <3>1, <3>3 DEF BusInv, MapIsLive
  <2>4. frames' = frames /\ handlers' = map
    BY <1>3, <1>9
  <2>5. \A u \in DOMAIN handlers' : \A x \in members'[handlers'[u]] : fate'[x] = "live"
    BY <2>2, <2>4
  <2>6. \A u \in DOMAIN handlers' : members'[handlers'[u]] = {} =>
            \E i \in DOMAIN frames' : frames'[i].set = handlers'[u]
    BY <2>3, <2>4
  <2> QED BY <2>1, <2>5, <2>6 DEF MapIsLive
<1>17. LostOnlyInEmitSync'
  <2> SUFFICES ASSUME NEW x \in Made, fate'[x] = "live", x \notin detached
               PROVE  Registered(x)'
    BY <1>3, <1>5 DEF LostOnlyInEmitSync
  <2>1. x # s /\ fate[x] = "live" /\ Registered(x)
    BY <1>7 DEF BusInv, LostOnlyInEmitSync
  <2>2. CASE subs[x].type = AllTypes
    BY <1>3, <1>4, <1>6, <2>1, <2>2 DEF Registered
  <2>3. CASE subs[x].type # AllTypes
    <3>1. PICK u \in DOMAIN handlers : u = subs[x].type /\ x \in members[handlers[u]]
      BY <2>1, <2>3 DEF Registered
    <3>2. handlers[u] \in Sets
      BY <1>4 DEF BusTypes
    <3>3. x \in members'[handlers[u]]
      BY <1>6, <2>1, <3>1, <3>2
    <3>4. u \in DOMAIN map
      <4>1. u = t => mem[o] # {}
        BY <1>2, <1>8, <3>3
      <4> QED BY <1>10, <3>1, <4>1
    <3> QED BY <1>3, <1>9, <1>10, <2>3, <3>1, <3>3, <3>4 DEF Registered
  <2> QED BY <2>2, <2>3
<1> QED BY <1>11, <1>13, <1>14, <1>15, <1>16, <1>17 DEF BusInv

(* clear() keeps the invariant.                                            *)
LEMMA ClearKeeps ==
    ASSUME BusInv, Clear
    PROVE  BusInv'
<1>1. /\ handlers' = <<>> /\ members' = [members EXCEPT ![Wild] = {}]
      /\ fate' = [s \in Made |-> IF fate[s] = "live" THEN "cleared" ELSE fate[s]]
      /\ UNCHANGED <<subs, frames, timers, emitted, called, owed, detached>>
  BY DEF Clear, Cleared
<1>2. BusTypes /\ Wild \in Sets
  BY SetsInUse DEF BusInv
<1>3. DOMAIN handlers' = {} /\ Made' = Made
  BY <1>1 DEF Made
<1>4. fate' \in [Made -> Fates] /\ \A x \in Made : fate'[x] # "live"
  BY <1>1, <1>2 DEF BusTypes, Fates
<1>5. /\ members' \in [Sets -> SUBSET Made] /\ members'[Wild] = {}
      /\ \A o \in Sets : members'[o] \subseteq members[o]
  BY <1>1, <1>2 DEF BusTypes
<1>6. BusTypes'
  <2>1. handlers' \in [DOMAIN handlers' -> Sets \ {Wild}] /\ DOMAIN handlers' \subseteq Types
    BY <1>1, <1>3
  <2> QED BY <1>1, <1>2, <1>3, <1>4, <1>5, <2>1 DEF BusTypes
<1>7. Narrows
  <2>1. \A i \in DOMAIN frames : Serves(frames[i].set, frames[i].type)
    BY DEF Serves
  <2> QED BY <1>1, <1>3, <1>5, <2>1 DEF Narrows
<1>8. SetsApart' /\ Shadowed' /\ Used' \subseteq Used
  BY <1>6, <1>7, NarrowsKeeps
<1>9. OnceGone'
  <2>1. called' \cup Range(timers') \subseteq called \cup Range(timers)
    BY <1>1
  <2> QED BY <1>7, <1>8, <2>1, OnceStaysGone
<1>10. SyncReaches'
  <2>1. Ages
    BY <1>1, <1>4 DEF Ages
  <2> QED BY <1>1, <2>1, SyncStillReaches
<1>11. MapIsLive' /\ LostOnlyInEmitSync'
  BY <1>3, <1>4, <1>5 DEF MapIsLive, LostOnlyInEmitSync
<1> QED BY <1>6, <1>8, <1>9, <1>10, <1>11 DEF BusInv
-----------------------------------------------------------------------------
(* A Set is iterated in an order that has its members, each of them made.  *)
LEMMA OrderOfSet ==
    ASSUME BusTypes, NEW S
    PROVE  /\ InOrder(S) \in Seq(Made)
           /\ \A i \in DOMAIN InOrder(S) : InOrder(S)[i] \in S
<1> DEFINE all == [s \in Made |-> s]
<1>1. Made = 1 .. Len(subs) /\ Len(subs) \in Nat
  BY DEF BusTypes, Made
<1>2. all \in Seq(Made)
  <2>1. all \in [1 .. Len(subs) -> Made]
    BY <1>1
  <2> QED BY <1>1, <2>1, ListsAreSequences
<1> HIDE DEF all
<1>3. /\ Retain(all, S) \in Seq(Made)
      /\ \A e : Contains(Retain(all, S), e) <=> Contains(all, e) /\ e \in S
  BY <1>2, RetainContains
<1>4. InOrder(S) = Retain(all, S)
  BY DEF InOrder, all
<1> HIDE DEF InOrder
<1>5. \A i \in DOMAIN InOrder(S) : Contains(InOrder(S), InOrder(S)[i])
  BY <1>3, <1>4 DEF Contains
<1> QED BY <1>3, <1>4, <1>5

(* The scheduled calls are of the audience, and its order is theirs.       *)
LEMMA Scheduled ==
    ASSUME BusTypes, NEW e \in Events, NEW order \in Seq(Made),
           timers' = timers \o [i \in DOMAIN order |-> <<order[i], e>>]
    PROVE  /\ timers' \in Seq(Made \X Events)
           /\ \A i \in DOMAIN timers' : \/ i \in DOMAIN timers /\ timers'[i] = timers[i]
                                        \/ i \notin DOMAIN timers /\ \E j \in DOMAIN order : timers'[i] = <<order[j], e>>
<1> DEFINE new == [i \in DOMAIN order |-> <<order[i], e>>]
<1>1. DOMAIN order = 1 .. Len(order) /\ Len(order) \in Nat
  OBVIOUS
<1>2. new \in Seq(Made \X Events) /\ Len(new) = Len(order)
  <2>1. new \in [1 .. Len(order) -> Made \X Events]
    BY <1>1
  <2> QED BY <1>1, <2>1, ListsAreSequences
<1>3. \A j \in 1 .. Len(order) : new[j] = <<order[j], e>>
  BY <1>1
<1> HIDE DEF new
<1>4. timers \in Seq(Made \X Events) /\ timers' = timers \o new
  BY DEF BusTypes, new
<1>5. PICK z, calls : z = timers' /\ calls = Made \X Events
  OBVIOUS
<1>6. /\ DOMAIN timers = 1 .. Len(timers) /\ Len(timers) \in Nat
      /\ timers' \in Seq(Made \X Events)
      /\ DOMAIN timers' = 1 .. Len(timers) + Len(order)
      /\ \A i \in 1 .. Len(timers) : timers'[i] = timers[i]
      /\ \A j \in 1 .. Len(order) : timers'[Len(timers) + j] = new[j]
  <2>1. timers \in Seq(calls) /\ new \in Seq(calls) /\ z = timers \o new
    BY <1>2, <1>4, <1>5
  <2>2. /\ DOMAIN timers = 1 .. Len(timers) /\ Len(timers) \in Nat
        /\ z \in Seq(calls) /\ DOMAIN z = 1 .. Len(timers) + Len(new)
        /\ \A i \in 1 .. Len(timers) : z[i] = timers[i]
        /\ \A j \in 1 .. Len(new) : z[Len(timers) + j] = new[j]
    BY <2>1, ConcatFacts
  <2> QED BY <1>2, <1>5, <2>2
<1>7. ASSUME NEW i \in DOMAIN timers', i \notin DOMAIN timers
      PROVE  \E j \in DOMAIN order : timers'[i] = <<order[j], e>>
  <2>1. i - Len(timers) \in 1 .. Len(order) /\ Len(timers) + (i - Len(timers)) = i
    BY <1>1, <1>6, <1>7
  <2> QED BY <1>1, <1>3, <1>6, <2>1
<1> QED BY <1>6, <1>7

\* s is called for an event of type t by the map.
InAudience(s, t) == s \in members[Wild] \/ (t \in DOMAIN handlers /\ s \in members[handlers[t]])

(* emit() schedules one event for subscriptions of the map.                *)
LEMMA EmitSchedules ==
    ASSUME BusInv, NEW t \in Types, Emit(t)
    PROVE  /\ timers' \in Seq(Made \X Events)
           /\ \A i \in DOMAIN timers' :
                  \/ i \in DOMAIN timers /\ timers'[i] = timers[i]
                  \/ /\ i \notin DOMAIN timers
                     /\ InAudience(timers'[i][1], t) /\ timers'[i][2] = emitted + 1
                     /\ (subs[timers'[i][1]].once => timers'[i][1] \in OnceIn(TypedAudience(t, emitted + 1)))
<1>1. PICK e : e = emitted + 1
  OBVIOUS
<1>2. PICK typed : typed = TypedAudience(t, e)
  OBVIOUS
<1>3. PICK wild : wild = WildAudience(t, e)
  OBVIOUS
<1>4. PICK order : order = InOrder(typed) \o InOrder(wild)
  OBVIOUS
<1>5. BusTypes
  BY DEF BusInv
<1>6. /\ timers' = timers \o [i \in DOMAIN order |-> <<order[i], e>>]
      /\ e \in Events
  BY <1>1, <1>2, <1>3, <1>4 DEF Emit
<1>7. /\ InOrder(typed) \in Seq(Made) /\ InOrder(wild) \in Seq(Made)
      /\ \A i \in DOMAIN InOrder(typed) : InOrder(typed)[i] \in typed
      /\ \A i \in DOMAIN InOrder(wild) : InOrder(wild)[i] \in wild
  BY <1>5, OrderOfSet
<1>8. PICK a : a = InOrder(typed)
  OBVIOUS
<1>9. PICK b : b = InOrder(wild)
  OBVIOUS
<1>10. order \in Seq(Made) /\ \A i \in DOMAIN order : order[i] \in typed \cup wild
  <2>1. a \in Seq(Made) /\ b \in Seq(Made) /\ order = a \o b /\ (\A i \in DOMAIN a : a[i] \in typed)
        /\ (\A i \in DOMAIN b : b[i] \in wild)
    BY <1>4, <1>7, <1>8, <1>9
  <2>2. PICK M : M = Made
    OBVIOUS
  <2>3. /\ DOMAIN a = 1 .. Len(a) /\ Len(a) \in Nat
        /\ order \in Seq(M) /\ DOMAIN order = 1 .. Len(a) + Len(b)
        /\ \A i \in 1 .. Len(a) : order[i] = a[i]
        /\ \A j \in 1 .. Len(b) : order[Len(a) + j] = b[j]
    BY <2>1, <2>2, ConcatFacts
  <2>4. DOMAIN b = 1 .. Len(b) /\ Len(b) \in Nat
    BY <2>1
  <2>5. ASSUME NEW i \in DOMAIN order, i \notin DOMAIN a
        PROVE  order[i] \in wild
    <3>1. i - Len(a) \in 1 .. Len(b) /\ Len(a) + (i - Len(a)) = i
      BY <2>3, <2>4, <2>5
    <3>2. order[i] = b[i - Len(a)]
      BY <2>3, <3>1
    <3> QED BY <2>1, <2>4, <3>1, <3>2
  <2>6. \A i \in DOMAIN a : order[i] \in typed
    BY <2>1, <2>3
  <2> QED BY <2>2, <2>3, <2>5, <2>6
<1>11. \A s \in typed \cup wild : InAudience(s, t) /\ (subs[s].once => s \in OnceIn(typed))
  <2>1. \A s \in typed : InAudience(s, t) /\ (subs[s].once => s \in OnceIn(typed))
    BY <1>2 DEF TypedAudience, InAudience, OnceIn
  <2>2. \A s \in wild : InAudience(s, t) /\ ~subs[s].once
    BY <1>3 DEF WildAudience, InAudience, BusInv, SetsApart
  <2> QED BY <2>1, <2>2
<1>12. /\ timers' \in Seq(Made \X Events)
       /\ \A i \in DOMAIN timers' : \/ i \in DOMAIN timers /\ timers'[i] = timers[i]
                                    \/ i \notin DOMAIN timers /\ \E j \in DOMAIN order : timers'[i] = <<order[j], e>>
  BY <1>5, <1>6, <1>10, Scheduled
<1>13. ASSUME NEW i \in DOMAIN timers', i \notin DOMAIN timers
       PROVE  /\ InAudience(timers'[i][1], t) /\ timers'[i][2] = e
              /\ (subs[timers'[i][1]].once => timers'[i][1] \in OnceIn(typed))
  <2>1. PICK j \in DOMAIN order : timers'[i] = <<order[j], e>>
    BY <1>12, <1>13
  <2> QED BY <1>10, <1>11, <2>1
<1> QED BY <1>1, <1>2, <1>12, <1>13

(* emit() keeps the invariant: it schedules its audience, each once.       *)
LEMMA EmitKeeps ==
    ASSUME BusInv, NEW t \in Types, Emit(t)
    PROVE  BusInv'
<1>1. PICK e : e = emitted + 1
  OBVIOUS
<1>2. PICK one : one = OnceIn(TypedAudience(t, e))
  OBVIOUS
<1>3. PICK mem : mem = members'
  OBVIOUS
<1>4. PICK map : map = handlers'
  OBVIOUS
<1>5. BusTypes /\ Wild \in Sets /\ Used \subseteq Sets
  BY SetsInUse DEF BusInv
<1>6. /\ e \in Events /\ emitted' = e
      /\ members' = [o \in Sets |-> members[o] \ one]
      /\ map = IF t \in DOMAIN handlers THEN Tidy(t, handlers[t], handlers, mem) ELSE handlers
      /\ fate' = [s \in Made |-> IF s \in one THEN "spent" ELSE fate[s]]
      /\ owed' = owed \cup (Concerned(t, e) \X {e})
      /\ UNCHANGED <<subs, frames, called, detached>>
  <2>1. members' = [o \in Sets |-> members[o] \ one]
    BY <1>1, <1>2 DEF Emit
  <2>2. Spent(TypedAudience(t, e))
    BY <1>1 DEF Emit
  <2> QED BY <1>1, <1>2, <1>3, <1>4, <2>1, <2>2 DEF Emit, Spent
<1>7. /\ members \in [Sets -> SUBSET Made] /\ fate \in [Made -> Fates] /\ Made' = Made
      /\ DOMAIN handlers \subseteq Types /\ handlers \in [DOMAIN handlers -> Sets \ {Wild}]
  BY <1>5, <1>6 DEF BusTypes, Made
<1>8. /\ members' \in [Sets -> SUBSET Made]
      /\ \A o \in Sets : members'[o] = members[o] \ one
  BY <1>6, <1>7
<1>9. /\ fate' \in [Made -> Fates]
      /\ \A x \in Made : x \in one => fate'[x] # "live"
      /\ \A x \in Made \ one : fate'[x] = fate[x]
      /\ \A x \in Made : fate[x] # "live" => fate'[x] # "live"
  BY <1>6, <1>7 DEF Fates
<1>10. /\ DOMAIN map \subseteq DOMAIN handlers /\ map \in [DOMAIN map -> Sets \ {Wild}]
       /\ \A u \in DOMAIN map : map[u] = handlers[u]
       /\ DOMAIN handlers \subseteq DOMAIN map \cup {t}
       /\ t \in DOMAIN map => mem[handlers[t]] # {}
       /\ t \in DOMAIN handlers /\ t \notin DOMAIN map => mem[handlers[t]] = {}
  <2>1. CASE t \in DOMAIN handlers
    <3>1. PICK o : o = handlers[t]
      OBVIOUS
    <3>2. map = Tidy(t, o, handlers, mem)
      BY <1>6, <2>1, <3>1
    <3>3. /\ DOMAIN map \subseteq DOMAIN handlers /\ map \in [DOMAIN map -> Sets \ {Wild}]
          /\ \A u \in DOMAIN map : map[u] = handlers[u]
          /\ mem[o] = {} => DOMAIN map = DOMAIN handlers \ {t}
          /\ mem[o] # {} => DOMAIN map = DOMAIN handlers
      BY <1>5, <3>2, TidyFacts
    <3> QED BY <2>1, <3>1, <3>3
  <2>2. CASE t \notin DOMAIN handlers
    BY <1>6, <1>7, <2>2
  <2> QED BY <2>1, <2>2
<1>11. /\ one \subseteq Made
       /\ one # {} => t \in DOMAIN handlers
       /\ t \in DOMAIN handlers => one \subseteq members[handlers[t]]
       /\ \A x \in one : subs[x].once
  BY <1>2, <1>7 DEF OnceIn, TypedAudience
<1>12. /\ timers' \in Seq(Made \X Events)
       /\ \A i \in DOMAIN timers' :
              \/ i \in DOMAIN timers /\ timers'[i] = timers[i]
              \/ /\ i \notin DOMAIN timers
                 /\ InAudience(timers'[i][1], t) /\ timers'[i][2] = e
                 /\ (subs[timers'[i][1]].once => timers'[i][1] \in one)
  BY <1>1, <1>2, EmitSchedules
<1>13. BusTypes'
  <2>1. Concerned(t, e) \subseteq Made
    BY DEF Concerned
  <2>2. owed' \subseteq Made \X Events
    BY <1>5, <1>6, <2>1 DEF BusTypes
  <2>3. e \in 0 .. MaxEvents
    BY <1>6 DEF Events
  <2>4. /\ subs' \in Seq(Subscription) /\ Len(subs') <= MaxSubs
        /\ frames' \in Seq(SyncCall) /\ Len(frames') <= MaxDepth
        /\ called' \subseteq Made \X Events /\ detached' \subseteq Made
        /\ \A i \in DOMAIN frames' : frames'[i].concerned \subseteq Made
    BY <1>5, <1>6 DEF BusTypes
  <2>5. DOMAIN handlers' \subseteq Types /\ handlers' \in [DOMAIN handlers' -> Sets \ {Wild}]
    BY <1>4, <1>7, <1>10
  <2> QED BY <1>6, <1>7, <1>8, <1>9, <1>12, <2>2, <2>3, <2>4, <2>5 DEF BusTypes
<1>14. Narrows
  <2>1. \A i \in DOMAIN frames : Serves(frames[i].set, frames[i].type)
    BY DEF Serves
  <2> QED BY <1>4, <1>6, <1>8, <1>10, <2>1 DEF Narrows
<1>15. SetsApart' /\ Shadowed' /\ Used' \subseteq Used
  BY <1>13, <1>14, NarrowsKeeps
<1>16. SyncReaches'
  <2>1. Ages
    BY <1>6, <1>9 DEF Ages
  <2> QED BY <1>6, <2>1, SyncStillReaches
<1>17. \A u \in DOMAIN handlers : handlers[u] \in Sets /\ handlers[u] \in Used
  BY <1>5, <1>7, SetsInUse
<1>18. MapIsLive'
  <2>1. ASSUME NEW x \in members'[Wild]
        PROVE  fate'[x] = "live"
    <3>1. x \in members[Wild] /\ x \in Made \ one
      BY <1>5, <1>7, <1>8, <2>1
    <3> QED BY <1>9, <3>1 DEF BusInv, MapIsLive
  <2>2. ASSUME NEW u \in DOMAIN map, NEW x \in members'[map[u]]
        PROVE  fate'[x] = "live"
    <3>1. u \in DOMAIN handlers /\ map[u] = handlers[u] /\ map[u] \in Sets
      BY <1>10
    <3>2. x \in members[handlers[u]] /\ x \in Made \ one
      BY <1>7, <1>8, <2>2, <3>1
    <3> QED BY <1>9, <3>1, <3>2 DEF BusInv, MapIsLive
  <2>3. ASSUME NEW u \in DOMAIN map, members'[map[u]] = {}
        PROVE  \E i \in DOMAIN frames : frames[i].set = map[u]
    <3>1. u \in DOMAIN handlers /\ map[u] = handlers[u] /\ map[u] \in Sets
      BY <1>10
    <3>2. u # t
      BY <1>3, <1>10, <2>3, <3>1
    <3>3. one \cap members[handlers[u]] = {}
      BY <1>11, <3>1, <3>2, EntriesDiffer
    <3>4. members[handlers[u]] = {}
      BY <1>8, <2>3, <3>1, <3>3
    <3> QED BY <3>1, <3>4 DEF BusInv, MapIsLive
  <2> QED BY <1>4, <1>6, <2>1, <2>2, <2>3 DEF MapIsLive
<1>19. LostOnlyInEmitSync'
  <2> SUFFICES ASSUME NEW x \in Made, fate'[x] = "live", x \notin detached
               PROVE  Registered(x)'
    BY <1>6, <1>7 DEF LostOnlyInEmitSync
  <2>1. x \notin one /\ fate[x] = "live" /\ Registered(x)
    BY <1>9 DEF BusInv, LostOnlyInEmitSync
  <2>2. CASE subs[x].type = AllTypes
    BY <1>5, <1>6, <1>8, <2>1, <2>2 DEF Registered
  <2>3. CASE subs[x].type # AllTypes
    <3>1. PICK u \in DOMAIN handlers : u = subs[x].type /\ x \in members[handlers[u]]
      BY <2>1, <2>3 DEF Registered
    <3>2. x \in members'[handlers[u]]
      BY <1>8, <1>17, <2>1, <3>1
    <3>3. u \in DOMAIN map
      BY <1>3, <1>10, <3>1, <3>2
    <3> QED BY <1>4, <1>6, <1>10, <2>3, <3>1, <3>2, <3>3 DEF Registered
  <2> QED BY <2>2, <2>3
<1>20. OnceGone'
  <2>1. Range(timers') \subseteq Range(timers) \cup {timers'[i] : i \in DOMAIN timers' \ DOMAIN timers}
    BY <1>12 DEF Range
  <2>2. \A p \in {timers'[i] : i \in DOMAIN timers' \ DOMAIN timers} :
           InAudience(p[1], t) /\ p[2] = e /\ (subs[p[1]].once => p[1] \in one)
    BY <1>12
  <2>3. ASSUME NEW p \in called' \cup Range(timers')
        PROVE  \/ p \in called \cup Range(timers)
               \/ InAudience(p[1], t) /\ p[2] = e /\ (subs[p[1]].once => p[1] \in one)
    BY <1>6, <2>1, <2>2
  <2>4. ASSUME NEW p \in called' \cup Range(timers'), subs[p[1]].once, NEW o \in Used'
        PROVE  p[1] \notin members'[o]
    <3>1. o \in Used /\ members'[o] = members[o] \ one
      BY <1>5, <1>8, <1>15
    <3>2. CASE p \in called \cup Range(timers)
      BY <2>4, <3>1, <3>2 DEF BusInv, OnceGone
    <3>3. CASE p[1] \in one
      BY <3>1, <3>3
    <3> QED BY <2>3, <2>4, <3>2, <3>3
  <2>5. ASSUME NEW p \in called' \cup Range(timers'), NEW q \in called' \cup Range(timers'),
               p[1] = q[1], subs[p[1]].once
        PROVE  p[2] = q[2]
    <3>1. ASSUME NEW x \in one, NEW r \in called \cup Range(timers), r[1] = x
          PROVE  FALSE
      <4>1. t \in DOMAIN handlers /\ x \in members[handlers[t]] /\ subs[x].once
        BY <1>11
      <4> QED BY <1>17, <3>1, <4>1 DEF BusInv, OnceGone
    <3>2. CASE p \in called \cup Range(timers) /\ q \in called \cup Range(timers)
      BY <2>5, <3>2 DEF BusInv, OnceGone
    <3>3. CASE p[1] \in one
      BY <2>3, <2>5, <3>1, <3>3
    <3> QED BY <2>3, <2>5, <3>2, <3>3
  <2>6. (called \cup Range(timers))' = called' \cup Range(timers')
    BY DEF Range
  <2> QED BY <1>6, <2>4, <2>5, <2>6 DEF OnceGone
<1> QED BY <1>13, <1>15, <1>16, <1>18, <1>19, <1>20 DEF BusInv

(* A scheduled call keeps the invariant, once or not.                      *)
LEMMA RunScheduledKeeps ==
    ASSUME BusInv, RunScheduled
    PROVE  BusInv' /\ called' \cup Range(timers') = called \cup Range(timers) /\ DOMAIN timers' \subseteq DOMAIN timers
<1>1. /\ timers # <<>> /\ timers' = Tail(timers) /\ called' = called \cup {Head(timers)}
      /\ UNCHANGED <<subs, fate, handlers, members, frames, emitted, owed, detached>>
  BY DEF RunScheduled
<1>2. BusTypes
  BY DEF BusInv
<1>3. PICK calls : calls = Made \X Events
  OBVIOUS
<1>4. timers \in Seq(calls)
  BY <1>2, <1>3 DEF BusTypes
<1>5. /\ timers' \in Seq(calls) /\ Head(timers) \in calls /\ DOMAIN timers' \subseteq DOMAIN timers
      /\ Range(timers) = {Head(timers)} \cup Range(timers')
  <2>1. /\ Len(timers) \in Nat \ {0} /\ DOMAIN timers = 1 .. Len(timers) /\ Head(timers) = timers[1]
        /\ Tail(timers) \in Seq(calls) /\ DOMAIN Tail(timers) = 1 .. Len(timers) - 1
        /\ \A i \in 1 .. Len(timers) - 1 : Tail(timers)[i] = timers[i + 1]
    BY <1>1, <1>4
  <2>2. \A i \in DOMAIN timers : i = 1 \/ (i - 1 \in 1 .. Len(timers) - 1 /\ Tail(timers)[i - 1] = timers[i])
    BY <2>1
  <2>3. Range(timers) \subseteq {Head(timers)} \cup Range(timers')
    <3> SUFFICES ASSUME NEW i \in DOMAIN timers, i # 1
                 PROVE  \E j \in DOMAIN timers' : timers'[j] = timers[i]
      BY <2>1 DEF Range
    <3> QED BY <1>1, <2>1, <2>2
  <2>4. \A i \in 1 .. Len(timers) - 1 : i + 1 \in DOMAIN timers
    BY <2>1
  <2>5. {Head(timers)} \cup Range(timers') \subseteq Range(timers)
    BY <1>1, <2>1, <2>4 DEF Range
  <2>6. DOMAIN timers' \subseteq DOMAIN timers
    BY <1>1, <2>1
  <2> QED BY <1>1, <1>4, <2>1, <2>3, <2>5, <2>6
<1>6. called' \cup Range(timers') = called \cup Range(timers)
  BY <1>1, <1>5
<1>7. Made' = Made
  BY <1>1 DEF Made
<1>8. BusTypes'
  BY <1>1, <1>2, <1>3, <1>5, <1>7 DEF BusTypes
<1>9. Narrows
  <2>1. \A i \in DOMAIN frames : Serves(frames[i].set, frames[i].type)
    BY DEF Serves
  <2> QED BY <1>1, <2>1 DEF Narrows
<1>10. SetsApart' /\ Shadowed' /\ Used' \subseteq Used
  BY <1>8, <1>9, NarrowsKeeps
<1>11. OnceGone'
  BY <1>6, <1>9, <1>10, OnceStaysGone
<1>12. SyncReaches'
  <2>1. Ages
    BY <1>1 DEF Ages
  <2> QED BY <1>1, <2>1, SyncStillReaches
<1>13. MapIsLive' /\ LostOnlyInEmitSync'
  BY <1>1, <1>7 DEF BusInv, MapIsLive, LostOnlyInEmitSync, Registered
<1> QED BY <1>5, <1>6, <1>8, <1>10, <1>11, <1>12, <1>13 DEF BusInv
-----------------------------------------------------------------------------
(* The start of emitSync() keeps the invariant.                            *)
LEMMA EmitSyncKeeps ==
    ASSUME BusInv, NEW t \in Types, EmitSync(t)
    PROVE  BusInv'
<1>1. PICK o : o = IF t \in DOMAIN handlers THEN handlers[t] ELSE Wild
  OBVIOUS
<1>2. PICK e : e = emitted + 1
  OBVIOUS
<1>3. PICK f : f = [event |-> e, type |-> t, at |-> 0, set |-> o, concerned |-> Concerned(t, e)]
  OBVIOUS
<1>4. /\ Len(frames) < MaxDepth /\ e \in Events /\ emitted' = e
      /\ frames' = Append(frames, f)
      /\ UNCHANGED <<subs, fate, handlers, members, timers, called, owed, detached>>
  BY <1>1, <1>2, <1>3 DEF EmitSync
<1>5. BusTypes /\ Wild \in Sets /\ AllTypes \notin Types
  BY SetsInUse, EventBusAssumption DEF BusInv
<1>6. /\ f.concerned = Concerned(t, e) /\ f.concerned \subseteq Made
      /\ f.set = o /\ f.type = t /\ f.at = 0 /\ f.event = e
  BY <1>3 DEF Concerned
<1>7. o \in Sets
  BY <1>1, <1>5 DEF BusTypes
<1>8. f \in SyncCall
  <2>1. Made \subseteq Subs
    BY <1>5, EventBusAssumption DEF BusTypes, Made, Subs
  <2> QED BY <1>3, <1>4, <1>6, <1>7, <2>1 DEF SyncCall
<1>9. /\ frames \in Seq(SyncCall) /\ frames' \in Seq(SyncCall) /\ Len(frames) \in Nat /\ Len(frames') = Len(frames) + 1
      /\ DOMAIN frames' = DOMAIN frames \cup {Len(frames')}
      /\ \A i \in DOMAIN frames : frames'[i] = frames[i]
      /\ frames'[Len(frames')] = f
  BY <1>4, <1>5, <1>8 DEF BusTypes
<1>10. Made' = Made
  BY <1>4 DEF Made
<1>11. BusTypes'
  <2>1. Len(frames') <= MaxDepth
    BY <1>4, <1>9, EventBusAssumption
  <2>2. \A i \in DOMAIN frames' : frames'[i].concerned \subseteq Made
    BY <1>5, <1>6, <1>9 DEF BusTypes
  <2>3. emitted' \in 0 .. MaxEvents
    BY <1>4 DEF Events
  <2> QED BY <1>4, <1>5, <1>9, <1>10, <2>1, <2>2, <2>3 DEF BusTypes
<1>12. Narrows
  <2>1. \A i \in DOMAIN frames : Serves(frames[i].set, frames[i].type)
    BY DEF Serves
  <2>2. o = Wild \/ Serves(o, t)
    BY <1>1 DEF Serves
  <2>3. ASSUME NEW i \in DOMAIN frames'
        PROVE  frames'[i].set = Wild \/ Serves(frames'[i].set, frames'[i].type)
    BY <1>6, <1>9, <2>1, <2>2
  <2> QED BY <1>4, <2>3 DEF Narrows
<1>13. SetsApart' /\ Shadowed' /\ Used' \subseteq Used
  BY <1>11, <1>12, NarrowsKeeps
<1>14. OnceGone'
  <2>1. called' \cup Range(timers') \subseteq called \cup Range(timers)
    BY <1>4
  <2> QED BY <1>12, <1>13, <2>1, OnceStaysGone
<1>15. MapIsLive' /\ LostOnlyInEmitSync'
  <2>1. \A x : (\E i \in DOMAIN frames : frames[i].set = x) => \E i \in DOMAIN frames' : frames'[i].set = x
    BY <1>9
  <2> QED BY <1>4, <1>10, <2>1 DEF BusInv, MapIsLive, LostOnlyInEmitSync, Registered
<1>16. Ages
  BY <1>4 DEF Ages
<1>17. Awaits(f)
  <2> SUFFICES ASSUME NEW s \in Made, fate[s] = "live", subs[s].type \in {t, AllTypes}, Accepts(s, e),
                      s \notin detached
               PROVE  Pending(f, s)
    BY <1>6 DEF Awaits, Concerned, Reached
  <2>1. s > 0
    BY <1>5 DEF Made, BusTypes
  <2>2. Registered(s)
    BY DEF BusInv, LostOnlyInEmitSync
  <2>3. subs[s].type = t => t \in DOMAIN handlers
    BY <1>5, <2>2 DEF Registered
  <2>4. t \in DOMAIN handlers => o # Wild
    BY <1>1, <1>5 DEF BusTypes
  <2> QED BY <1>6, <2>1, <2>3, <2>4 DEF Pending
<1>18. SyncReaches'
  <2>1. ASSUME NEW i \in DOMAIN frames, NEW g, g = frames[i]
        PROVE  Awaits(g)'
    <3>1. g.concerned \subseteq Made /\ Awaits(g)
      BY <1>5, <2>1 DEF BusInv, BusTypes, SyncReaches
    <3> QED BY <1>16, <3>1, AwaitsStill
  <2>2. Awaits(f)'
    BY <1>6, <1>16, <1>17, AwaitsStill
  <2>3. ASSUME NEW i \in DOMAIN frames'
        PROVE  Awaits(frames[i])'
    <3>1. PICK g : g = frames'[i]
      OBVIOUS
    <3>2. Awaits(g)'
      BY <1>9, <2>1, <2>2, <3>1
    <3> QED BY <3>1, <3>2
  <2> QED BY <2>3 DEF SyncReaches
<1> QED BY <1>11, <1>13, <1>14, <1>15, <1>18 DEF BusInv

-----------------------------------------------------------------------------
(* What there is to know of the innermost call of emitSync().              *)
LEMMA Innermost ==
    ASSUME BusTypes, frames # <<>>
    PROVE  /\ Len(frames) \in Nat \ {0} /\ DOMAIN frames = 1 .. Len(frames) /\ Len(frames) \in DOMAIN frames
           /\ Frame = frames[Len(frames)] /\ Frame \in SyncCall /\ Frame.concerned \subseteq Made
           /\ Frame.set \in Used /\ Frame.set \in Sets /\ Frame.type \in Types /\ Frame.at \in Nat /\ Frame.event \in Events
           /\ Serves(Frame.set, Frame.type)
           /\ Ahead \subseteq members[Frame.set] /\ Ahead \subseteq Made /\ Made \subseteq Nat
<1>1. /\ Len(frames) \in Nat \ {0} /\ DOMAIN frames = 1 .. Len(frames) /\ Len(frames) \in DOMAIN frames
      /\ frames[Len(frames)] \in SyncCall
  BY DEF BusTypes
<1>2. Frame = frames[Len(frames)]
  BY DEF Frame, Last
<1>3. /\ Frame.set \in Sets /\ Frame.type \in Types /\ Frame.at \in Nat /\ Frame.event \in Events
      /\ Frame.concerned \subseteq Made
  BY <1>1, <1>2 DEF SyncCall, BusTypes
<1>4. Frame.set \in Used /\ Serves(Frame.set, Frame.type)
  BY <1>1, <1>2 DEF Used, Serves
<1>5. Ahead \subseteq members[Frame.set] /\ members[Frame.set] \subseteq Made /\ Made \subseteq Nat
  BY <1>3 DEF Ahead, BusTypes, Made
<1> QED BY <1>1, <1>2, <1>3, <1>4, <1>5

(* A live subscription that the innermost emitSync() concerns, and has not *)
(* passed in the Set it iterates, is ahead of it.                          *)
LEMMA AheadHas ==
    ASSUME BusInv, frames # <<>>, NEW s \in Frame.concerned, fate[s] = "live", s \notin detached, s > Frame.at,
           \/ Frame.set = Wild /\ subs[s].type = AllTypes
           \/ Frame.set # Wild /\ subs[s].type = Frame.type
    PROVE  s \in Ahead
<1>1. /\ Len(frames) \in DOMAIN frames /\ Frame = frames[Len(frames)] /\ s \in Made
      /\ Frame.type \in Types /\ AllTypes \notin Types
  BY Innermost, EventBusAssumption DEF BusInv
<1>2. Accepts(s, Frame.event)
  BY <1>1 DEF BusInv, SyncReaches, Awaits
<1>3. Registered(s)
  BY <1>1 DEF BusInv, LostOnlyInEmitSync
<1>4. CASE Frame.set = Wild /\ subs[s].type = AllTypes
  BY <1>2, <1>3, <1>4 DEF Registered, Ahead
<1>5. CASE Frame.set # Wild /\ subs[s].type = Frame.type
  <2>1. Frame.type \in DOMAIN handlers /\ s \in members[handlers[Frame.type]]
    BY <1>1, <1>3, <1>5 DEF Registered
  <2>2. handlers[Frame.type] = Frame.set
    BY <1>1, <1>5, <2>1 DEF BusInv, Shadowed
  <2> QED BY <1>2, <2>1, <2>2 DEF Ahead
<1> QED BY <1>4, <1>5

(* A handler called by emitSync() keeps the invariant.                     *)
LEMMA CallNextKeeps ==
    ASSUME BusInv, CallNext
    PROVE  BusInv'
<1>1. PICK s : s = Min(Ahead)
  OBVIOUS
<1>2. PICK o : o = Frame.set
  OBVIOUS
<1>3. PICK e : e = Frame.event
  OBVIOUS
<1>4. PICK n : n = Len(frames)
  OBVIOUS
<1>5. PICK one : one = OnceIn({s})
  OBVIOUS
<1>6. /\ frames # <<>> /\ Ahead # {}
      /\ frames' = [frames EXCEPT ![n].at = s]
      /\ called' = called \cup {<<s, e>>}
      /\ members' = [members EXCEPT ![o] = @ \ one]
      /\ fate' = [x \in Made |-> IF x \in one THEN "spent" ELSE fate[x]]
      /\ UNCHANGED <<subs, handlers, timers, emitted, owed, detached>>
  BY <1>1, <1>2, <1>3, <1>4, <1>5 DEF CallNext, Spent, Taken
<1>7. BusTypes /\ Wild \in Sets /\ Used \subseteq Sets /\ AllTypes \notin Types
  BY SetsInUse, EventBusAssumption DEF BusInv
<1>8. /\ n \in Nat \ {0} /\ DOMAIN frames = 1 .. n /\ n \in DOMAIN frames
      /\ Frame = frames[n] /\ frames[n] \in SyncCall
      /\ o \in Used /\ o \in Sets /\ e \in Events /\ Serves(o, Frame.type) /\ Frame.type \in Types
      /\ Ahead \subseteq members[o] /\ Ahead \subseteq Made /\ Made \subseteq Nat
  BY <1>2, <1>3, <1>4, <1>6, <1>7, Innermost
<1>9. s \in Ahead /\ \A x \in Ahead : s <= x
  <2>1. Ahead \in SUBSET Nat
    BY <1>8
  <2> QED BY <1>1, <1>6, <2>1, MinIsLeast
<1>10. s \in members[o] /\ s \in Made /\ s \in Nat
  BY <1>8, <1>9
<1>11. one \subseteq {s} /\ (s \in one <=> subs[s].once)
  BY <1>5 DEF OnceIn
<1>12. PICK f : f = frames'[n]
  OBVIOUS
<1>13. /\ frames' \in Seq(SyncCall) /\ Len(frames') = n /\ DOMAIN frames' = DOMAIN frames
       /\ \A i \in DOMAIN frames \ {n} : frames'[i] = frames[i]
       /\ f = [frames[n] EXCEPT !.at = s] /\ f \in SyncCall
       /\ f.set = o /\ f.type = Frame.type /\ f.event = e /\ f.at = s /\ f.concerned = Frame.concerned
  <2>1. frames \in Seq(SyncCall)
    BY <1>7 DEF BusTypes
  <2>2. f = [frames[n] EXCEPT !.at = s]
    BY <1>6, <1>8, <1>12, <2>1
  <2>3. f \in SyncCall /\ f.set = o /\ f.type = Frame.type /\ f.event = e /\ f.at = s /\ f.concerned = Frame.concerned
    BY <1>2, <1>3, <1>8, <1>10, <2>2 DEF SyncCall
  <2>4. frames' = [frames EXCEPT ![n] = f]
    BY <1>6, <2>2
  <2>5. /\ frames' \in Seq(SyncCall) /\ Len(frames') = n /\ DOMAIN frames' = DOMAIN frames
        /\ \A i \in DOMAIN frames \ {n} : frames'[i] = frames[i]
    BY <1>4, <1>8, <2>1, <2>3, <2>4
  <2> QED BY <2>2, <2>3, <2>5
<1>14. Made' = Made
  BY <1>6 DEF Made
<1>15. /\ members' \in [Sets -> SUBSET Made] /\ members'[o] = members[o] \ one
       /\ \A p \in Sets : members'[p] \subseteq members[p] /\ members[p] \subseteq members'[p] \cup one
       /\ \A p \in Sets \ {o} : members'[p] = members[p]
  BY <1>6, <1>7, <1>8 DEF BusTypes
<1>16. /\ fate' \in [Made -> Fates]
       /\ \A x \in one : fate'[x] # "live"
       /\ \A x \in Made \ one : fate'[x] = fate[x]
       /\ \A x \in Made : fate[x] # "live" => fate'[x] # "live"
  BY <1>6, <1>7, <1>10, <1>11 DEF BusTypes, Fates
<1>17. BusTypes'
  <2>1. called' \subseteq Made \X Events
    BY <1>6, <1>7, <1>8, <1>10 DEF BusTypes
  <2>2. \A i \in DOMAIN frames' : frames'[i].concerned \subseteq Made
    <3>1. \A i \in DOMAIN frames : frames[i].concerned \subseteq Made
      BY <1>7 DEF BusTypes
    <3>2. frames'[n].concerned = frames[n].concerned
      BY <1>8, <1>12, <1>13
    <3>3. \A i \in DOMAIN frames' : frames'[i].concerned = frames[i].concerned
      BY <3>2, <1>13
    <3> QED BY <3>1, <3>3, <1>13
  <2>3. Len(frames') <= MaxDepth
    BY <1>4, <1>7, <1>13 DEF BusTypes
  <2> QED BY <1>6, <1>7, <1>13, <1>14, <1>15, <1>16, <2>1, <2>2, <2>3 DEF BusTypes
<1>18. Narrows
  <2>1. ASSUME NEW i \in DOMAIN frames
        PROVE  frames'[i].set = frames[i].set /\ frames'[i].type = frames[i].type
    BY <1>2, <1>8, <1>12, <1>13
  <2>2. \A i \in DOMAIN frames : Serves(frames[i].set, frames[i].type)
    BY DEF Serves
  <2>3. \A i \in DOMAIN frames' : Serves(frames'[i].set, frames'[i].type)
    BY <1>13, <2>1, <2>2
  <2> QED BY <1>6, <1>15, <2>3 DEF Narrows
<1>19. SetsApart' /\ Shadowed' /\ Used' \subseteq Used
  BY <1>17, <1>18, NarrowsKeeps
<1>20. \A p \in Used : s \in members[p] => p = o
  BY <1>8, <1>10 DEF BusInv, SetsApart
<1>21. \A p \in Used : one \cap members'[p] = {}
  BY <1>7, <1>11, <1>15, <1>20
<1>22. \A u \in DOMAIN handlers : handlers[u] \in Used /\ handlers[u] \in Sets
  BY <1>7, SetsInUse
<1>23. MapIsLive'
  <2>1. ASSUME NEW p \in Used, NEW x \in members'[p], \A y \in members[p] : fate[y] = "live"
        PROVE  fate'[x] = "live"
    <3>1. x \in members[p] /\ x \in Made \ one
      BY <1>7, <1>15, <1>21, <2>1
    <3> QED BY <1>16, <2>1, <3>1
  <2>2. \A x \in members'[Wild] : fate'[x] = "live"
    <3>1. Wild \in Used /\ \A y \in members[Wild] : fate[y] = "live"
      BY DEF Used, BusInv, MapIsLive
    <3> QED BY <2>1, <3>1
  <2>3. \A u \in DOMAIN handlers : \A x \in members'[handlers[u]] : fate'[x] = "live"
    <3>1. \A u \in DOMAIN handlers : \A y \in members[handlers[u]] : fate[y] = "live"
      BY DEF BusInv, MapIsLive
    <3> QED BY <1>22, <2>1, <3>1
  <2>4. ASSUME NEW u \in DOMAIN handlers, members'[handlers[u]] = {}
        PROVE  \E i \in DOMAIN frames' : frames'[i].set = handlers[u]
    <3>1. CASE handlers[u] = o
      BY <1>8, <1>12, <1>13, <3>1
    <3>2. CASE handlers[u] # o
      <4>1. members[handlers[u]] = {}
        BY <1>15, <1>22, <2>4, <3>2
      <4>2. PICK i \in DOMAIN frames : frames[i].set = handlers[u]
        BY <4>1 DEF BusInv, MapIsLive
      <4>3. i # n
        BY <1>2, <1>8, <3>2, <4>2
      <4> QED BY <1>13, <4>2, <4>3
    <3> QED BY <3>1, <3>2
  <2> QED BY <1>6, <2>2, <2>3, <2>4 DEF MapIsLive
<1>24. LostOnlyInEmitSync'
  <2> SUFFICES ASSUME NEW x \in Made, fate'[x] = "live", x \notin detached
               PROVE  Registered(x)'
    BY <1>6, <1>14 DEF LostOnlyInEmitSync
  <2>1. x \notin one /\ fate[x] = "live" /\ Registered(x)
    BY <1>16 DEF BusInv, LostOnlyInEmitSync
  <2>2. \A p \in Sets : x \in members[p] => x \in members'[p]
    BY <1>15, <2>1
  <2> QED BY <1>6, <1>7, <1>22, <2>1, <2>2 DEF Registered
<1>25. OnceGone'
  <2>1. \A p \in called' \cup Range(timers') : p \in called \cup Range(timers) \/ p = <<s, e>>
    BY <1>6
  <2>2. ASSUME NEW p \in called' \cup Range(timers'), subs[p[1]].once, NEW q \in Used'
        PROVE  p[1] \notin members'[q]
    <3>1. q \in Used /\ members'[q] \subseteq members[q]
      BY <1>7, <1>15, <1>19
    <3>2. CASE p \in called \cup Range(timers)
      BY <2>2, <3>1, <3>2 DEF BusInv, OnceGone
    <3>3. CASE p = <<s, e>>
      BY <1>11, <1>21, <2>2, <3>1, <3>3
    <3> QED BY <2>1, <3>2, <3>3
  <2>3. ASSUME NEW p \in called' \cup Range(timers'), NEW q \in called' \cup Range(timers'),
               p[1] = q[1], subs[p[1]].once
        PROVE  p[2] = q[2]
    <3>1. ASSUME NEW r \in called \cup Range(timers), r[1] = s, subs[s].once
          PROVE  FALSE
      BY <1>8, <1>10, <3>1 DEF BusInv, OnceGone
    <3>2. CASE p \in called \cup Range(timers) /\ q \in called \cup Range(timers)
      BY <2>3, <3>2 DEF BusInv, OnceGone
    <3> QED BY <2>1, <2>3, <3>1, <3>2
  <2>4. (called \cup Range(timers))' = called' \cup Range(timers')
    BY DEF Range
  <2> QED BY <1>6, <2>2, <2>3, <2>4 DEF OnceGone
<1>26. Ages
  BY <1>6, <1>16 DEF Ages
<1>27. SyncReaches'
  <2>1. ASSUME NEW x \in f.concerned
        PROVE  subs'[x].type \in {f.type, AllTypes} /\ Accepts(x, f.event)' /\ Reached(f, x)'
    <3>1. /\ x \in Made /\ x \in Nat /\ subs[x].type \in {Frame.type, AllTypes}
          /\ Accepts(x, e) /\ Reached(Frame, x)
      BY <1>3, <1>7, <1>8, <1>13, <2>1 DEF BusInv, BusTypes, SyncReaches, Awaits
    <3>2. subs'[x] = subs[x] /\ Accepts(x, e)'
      BY <1>6, <3>1 DEF Accepts
    <3>3. ASSUME fate[x] = "live", x \notin detached, <<x, e>> \notin called', Pending(Frame, x)
          PROVE  Pending(f, x)'
      <4>1. x # s
        BY <1>6, <3>3
      <4>2. x > Frame.at /\ (o = Wild => subs[x].type = AllTypes) /\ (o # Wild => subs[x].type = Frame.type)
              => x \in Ahead
        <5> SUFFICES ASSUME x > Frame.at, o = Wild => subs[x].type = AllTypes, o # Wild => subs[x].type = Frame.type
                     PROVE  x \in Ahead
          OBVIOUS
        <5>1. x \in Frame.concerned /\ frames # <<>>
          BY <1>6, <1>13, <2>1
        <5>2. \/ Frame.set = Wild /\ subs[x].type = AllTypes
              \/ Frame.set # Wild /\ subs[x].type = Frame.type
          BY <1>2
        <5> QED BY <3>3, <5>1, <5>2, AheadHas
      <4>3. x \in Ahead => x > s
        BY <1>9, <1>10, <3>1, <4>1
      <4> QED BY <1>2, <1>13, <3>2, <3>3, <4>2, <4>3 DEF Pending
    <3>4. Reached(f, x)'
      <4>1. /\ <<x, e>> \in called => <<x, e>> \in called'
            /\ fate[x] # "live" => fate'[x] # "live"
            /\ x \in detached => x \in detached'
        BY <1>6, <1>16, <3>1
      <4> QED BY <1>3, <1>13, <3>1, <3>3, <4>1 DEF Reached
    <3> QED BY <1>13, <3>1, <3>2, <3>4
  <2>2. Awaits(f)'
    BY <2>1 DEF Awaits
  <2>3. ASSUME NEW i \in DOMAIN frames \ {n}, NEW g, g = frames[i]
        PROVE  Awaits(g)'
    <3>1. g.concerned \subseteq Made /\ Awaits(g)
      BY <1>7, <2>3 DEF BusInv, BusTypes, SyncReaches
    <3> QED BY <1>26, <3>1, AwaitsStill
  <2>4. ASSUME NEW i \in DOMAIN frames'
        PROVE  Awaits(frames[i])'
    <3>1. PICK g : g = frames'[i]
      OBVIOUS
    <3>2. Awaits(g)'
      BY <1>12, <1>13, <2>2, <2>3, <3>1
    <3> QED BY <3>1, <3>2
  <2> QED BY <2>4 DEF SyncReaches
<1> QED BY <1>17, <1>19, <1>23, <1>24, <1>25, <1>27 DEF BusInv

(* The turn from the handlers of the type to those of every type keeps the *)
(* invariant.                                                              *)
LEMMA TurnKeeps ==
    ASSUME BusInv, TurnToWildcards
    PROVE  BusInv'
<1>1. PICK o : o = Frame.set
  OBVIOUS
<1>2. PICK t : t = Frame.type
  OBVIOUS
<1>3. PICK n : n = Len(frames)
  OBVIOUS
<1>4. PICK map : map = handlers'
  OBVIOUS
<1>5. /\ frames # <<>> /\ Ahead = {} /\ o # Wild
      /\ map = Tidy(t, o, handlers, members)
      /\ frames' = [frames EXCEPT ![n] = ToWildcards(@)]
      /\ UNCHANGED <<subs, fate, members, timers, emitted, called, owed, detached>>
  BY <1>1, <1>2, <1>3, <1>4 DEF TurnToWildcards
<1>6. BusTypes /\ Wild \in Sets /\ Used \subseteq Sets /\ AllTypes \notin Types
  BY SetsInUse, EventBusAssumption DEF BusInv
<1>7. /\ n \in Nat \ {0} /\ DOMAIN frames = 1 .. n /\ n \in DOMAIN frames
      /\ Frame = frames[n] /\ frames[n] \in SyncCall
      /\ o \in Used /\ o \in Sets /\ Serves(o, t) /\ t \in Types
      /\ Made \subseteq Nat
  BY <1>1, <1>2, <1>3, <1>5, <1>6, Innermost
<1>8. PICK f : f = frames'[n]
  OBVIOUS
<1>9. /\ frames' \in Seq(SyncCall) /\ Len(frames') = n /\ DOMAIN frames' = DOMAIN frames
      /\ \A i \in DOMAIN frames \ {n} : frames'[i] = frames[i]
      /\ f.set = Wild /\ f.type = t /\ f.event = Frame.event /\ f.at = 0 /\ f.concerned = Frame.concerned
  <2>1. frames \in Seq(SyncCall)
    BY <1>6 DEF BusTypes
  <2>2. f = [frames[n] EXCEPT !.set = Wild, !.at = 0]
    BY <1>5, <1>7, <1>8, <2>1 DEF ToWildcards
  <2>3. /\ f \in SyncCall /\ f.set = Wild /\ f.type = t /\ f.event = Frame.event /\ f.at = 0
        /\ f.concerned = Frame.concerned
    BY <1>2, <1>6, <1>7, <2>2 DEF SyncCall
  <2>4. frames' = [frames EXCEPT ![n] = f]
    BY <1>5, <2>2 DEF ToWildcards
  <2>5. /\ frames' \in Seq(SyncCall) /\ Len(frames') = n /\ DOMAIN frames' = DOMAIN frames
        /\ \A i \in DOMAIN frames \ {n} : frames'[i] = frames[i]
    BY <1>3, <1>7, <2>1, <2>3, <2>4
  <2> QED BY <2>3, <2>5
<1>10. /\ DOMAIN map \subseteq DOMAIN handlers /\ map \in [DOMAIN map -> Sets \ {Wild}]
       /\ \A u \in DOMAIN map : map[u] = handlers[u]
       /\ members[o] = {} => DOMAIN map = DOMAIN handlers \ {t}
       /\ members[o] # {} => DOMAIN map = DOMAIN handlers
  <2>1. PICK mem : mem = members
    OBVIOUS
  <2>2. map = Tidy(t, o, handlers, mem)
    BY <1>5, <2>1
  <2>3. /\ DOMAIN map \subseteq DOMAIN handlers /\ map \in [DOMAIN map -> Sets \ {Wild}]
        /\ \A u \in DOMAIN map : map[u] = handlers[u]
        /\ mem[o] = {} => DOMAIN map = DOMAIN handlers \ {t}
        /\ mem[o] # {} => DOMAIN map = DOMAIN handlers
    BY <1>6, <2>2, TidyFacts
  <2> QED BY <2>1, <2>3
<1>11. Made' = Made
  BY <1>5 DEF Made
<1>12. BusTypes'
  <2>1. \A i \in DOMAIN frames' : frames'[i].concerned \subseteq Made
    BY <1>6, <1>7, <1>8, <1>9 DEF BusTypes
  <2>2. Len(frames') <= MaxDepth
    BY <1>3, <1>6, <1>9 DEF BusTypes
  <2>3. DOMAIN handlers' \subseteq Types /\ handlers' \in [DOMAIN handlers' -> Sets \ {Wild}]
    BY <1>4, <1>6, <1>10 DEF BusTypes
  <2> QED BY <1>5, <1>6, <1>9, <1>11, <2>1, <2>2, <2>3 DEF BusTypes
<1>13. Narrows
  <2>1. \A i \in DOMAIN frames : Serves(frames[i].set, frames[i].type)
    BY DEF Serves
  <2>2. \A i \in DOMAIN frames' : frames'[i].set = Wild \/ Serves(frames'[i].set, frames'[i].type)
    BY <1>8, <1>9, <2>1
  <2> QED BY <1>4, <1>5, <1>10, <2>2 DEF Narrows
<1>14. SetsApart' /\ Shadowed' /\ Used' \subseteq Used
  BY <1>12, <1>13, NarrowsKeeps
<1>15. OnceGone'
  <2>1. called' \cup Range(timers') \subseteq called \cup Range(timers)
    BY <1>5
  <2> QED BY <1>13, <1>14, <2>1, OnceStaysGone
<1>16. \A u \in DOMAIN handlers : handlers[u] \in Sets \ {Wild} /\ u \in Types /\ Serves(handlers[u], u)
  BY <1>6 DEF BusTypes, Serves
<1>17. MapIsLive'
  <2>1. ASSUME NEW u \in DOMAIN map, members[map[u]] = {}
        PROVE  \E i \in DOMAIN frames' : frames'[i].set = map[u]
    <3>1. u \in DOMAIN handlers /\ map[u] = handlers[u]
      BY <1>10
    <3>2. PICK i \in DOMAIN frames : frames[i].set = handlers[u]
      BY <2>1, <3>1 DEF BusInv, MapIsLive
    <3>3. handlers[u] # o
      <4>1. SUFFICES ASSUME handlers[u] = o PROVE FALSE
        OBVIOUS
      <4>2. u = t
        BY <1>7, <1>16, <3>1, <4>1 DEF BusInv, SetsApart
      <4>3. members[o] = {}
        BY <2>1, <3>1, <4>1
      <4> QED BY <1>10, <4>2, <4>3
    <3>4. i # n
      BY <1>1, <1>7, <3>2, <3>3
    <3> QED BY <1>9, <3>1, <3>2, <3>4
  <2> QED BY <1>4, <1>5, <1>10, <2>1 DEF BusInv, MapIsLive
<1>18. LostOnlyInEmitSync'
  <2> SUFFICES ASSUME NEW x \in Made, fate[x] = "live", x \notin detached
               PROVE  Registered(x)'
    BY <1>5, <1>11 DEF LostOnlyInEmitSync
  <2>1. Registered(x)
    BY DEF BusInv, LostOnlyInEmitSync
  <2>2. CASE subs[x].type = AllTypes
    BY <1>5, <2>1, <2>2 DEF Registered
  <2>3. CASE subs[x].type # AllTypes
    <3>1. PICK u \in DOMAIN handlers : u = subs[x].type /\ x \in members[handlers[u]]
      BY <2>1, <2>3 DEF Registered
    <3>2. u \in DOMAIN map
      <4>1. SUFFICES ASSUME u = t, members[o] = {} PROVE FALSE
        BY <1>10
      <4>2. handlers[u] # frames[n].set
        BY <1>1, <1>7, <3>1, <4>1
      <4>3. x \in detached
        BY <1>1, <1>2, <1>5, <1>7, <3>1, <4>1, <4>2 DEF BusInv, Shadowed
      <4> QED BY <4>3
    <3> QED BY <1>4, <1>5, <1>10, <2>3, <3>1, <3>2 DEF Registered
  <2> QED BY <2>2, <2>3
<1>19. Ages
  BY <1>5 DEF Ages
<1>20. SyncReaches'
  <2>1. ASSUME NEW x \in f.concerned
        PROVE  subs'[x].type \in {f.type, AllTypes} /\ Accepts(x, f.event)' /\ Reached(f, x)'
    <3>1. /\ x \in Made /\ x \in Nat \ {0} /\ subs[x].type \in {t, AllTypes}
          /\ Accepts(x, f.event) /\ Reached(Frame, x)
      <4>1. x \in Made /\ x \in Nat \ {0}
        BY <1>6, <1>7, <1>9, <2>1 DEF BusTypes, Made
      <4> QED BY <1>2, <1>7, <1>9, <2>1, <4>1 DEF BusInv, SyncReaches, Awaits
    <3>2. subs'[x] = subs[x] /\ Accepts(x, f.event)'
      BY <1>5, <3>1 DEF Accepts
    <3>3. ASSUME fate[x] = "live", x \notin detached, Pending(Frame, x)
          PROVE  Pending(f, x)'
      <4>1. ASSUME subs[x].type = t, x > Frame.at
            PROVE  FALSE
        <5>1. x \in Frame.concerned /\ frames # <<>> /\ Frame.set # Wild /\ subs[x].type = Frame.type
          BY <1>1, <1>2, <1>5, <1>9, <2>1, <4>1
        <5>2. x \in Ahead
          BY <3>3, <4>1, <5>1, AheadHas
        <5> QED BY <1>5, <5>2
      <4>2. subs[x].type = AllTypes
        BY <1>1, <1>2, <1>5, <3>1, <3>3, <4>1 DEF Pending
      <4> QED BY <1>9, <3>1, <3>2, <4>2 DEF Pending
    <3>4. Reached(f, x)'
      BY <1>5, <1>9, <3>1, <3>3 DEF Reached
    <3> QED BY <1>9, <3>1, <3>2, <3>4
  <2>2. Awaits(f)'
    BY <2>1 DEF Awaits
  <2>3. ASSUME NEW i \in DOMAIN frames \ {n}, NEW g, g = frames[i]
        PROVE  Awaits(g)'
    <3>1. g.concerned \subseteq Made /\ Awaits(g)
      BY <1>6, <2>3 DEF BusInv, BusTypes, SyncReaches
    <3> QED BY <1>19, <3>1, AwaitsStill
  <2>4. ASSUME NEW i \in DOMAIN frames'
        PROVE  Awaits(frames[i])'
    <3>1. PICK g : g = frames'[i]
      OBVIOUS
    <3>2. Awaits(g)'
      BY <1>8, <1>9, <2>2, <2>3, <3>1
    <3> QED BY <3>1, <3>2
  <2> QED BY <2>4 DEF SyncReaches
<1> QED BY <1>12, <1>14, <1>15, <1>17, <1>18, <1>20 DEF BusInv

(* A return from emitSync() keeps the invariant.                           *)
LEMMA ReturnKeeps ==
    ASSUME BusInv, EmitSyncReturns
    PROVE  BusInv'
<1>1. PICK n : n = Len(frames)
  OBVIOUS
<1>2. /\ frames # <<>> /\ Frame.set = Wild /\ frames' = SubSeq(frames, 1, n - 1)
      /\ UNCHANGED <<subs, fate, handlers, members, timers, emitted, called, owed, detached>>
  BY <1>1 DEF EmitSyncReturns, Front
<1>3. BusTypes
  BY DEF BusInv
<1>4. n \in Nat \ {0} /\ DOMAIN frames = 1 .. n /\ frames[n].set = Wild
  BY <1>1, <1>2, <1>3, Innermost
<1>5. /\ frames' \in Seq(SyncCall) /\ Len(frames') = n - 1 /\ DOMAIN frames' = 1 .. n - 1
      /\ \A i \in 1 .. n - 1 : i \in DOMAIN frames /\ frames'[i] = frames[i]
  <2>1. frames \in Seq(SyncCall)
    BY <1>3 DEF BusTypes
  <2> QED BY <1>1, <1>2, <1>4, <2>1
<1>6. Made' = Made
  BY <1>2 DEF Made
<1>7. BusTypes'
  <2>1. \A i \in DOMAIN frames' : frames'[i].concerned \subseteq Made
    BY <1>3, <1>5 DEF BusTypes
  <2>2. Len(frames') <= MaxDepth
    BY <1>1, <1>3, <1>4, <1>5, EventBusAssumption DEF BusTypes
  <2> QED BY <1>2, <1>3, <1>5, <1>6, <2>1, <2>2 DEF BusTypes
<1>8. Narrows
  <2>1. \A i \in DOMAIN frames : Serves(frames[i].set, frames[i].type)
    BY DEF Serves
  <2> QED BY <1>2, <1>5, <2>1 DEF Narrows
<1>9. SetsApart' /\ Shadowed' /\ Used' \subseteq Used
  BY <1>7, <1>8, NarrowsKeeps
<1>10. OnceGone'
  <2>1. called' \cup Range(timers') \subseteq called \cup Range(timers)
    BY <1>2
  <2> QED BY <1>8, <1>9, <2>1, OnceStaysGone
<1>11. SyncReaches'
  <2>1. Ages
    BY <1>2 DEF Ages
  <2> QED BY <1>5, <2>1, SyncStillReaches
<1>12. MapIsLive'
  <2>1. ASSUME NEW u \in DOMAIN handlers, members[handlers[u]] = {}
        PROVE  \E i \in DOMAIN frames' : frames'[i].set = handlers[u]
    <3>1. PICK i \in DOMAIN frames : frames[i].set = handlers[u]
      BY <2>1 DEF BusInv, MapIsLive
    <3>2. handlers[u] # Wild
      BY <1>3 DEF BusTypes
    <3>3. i \in 1 .. n - 1
      BY <1>4, <3>1, <3>2
    <3> QED BY <1>5, <3>1, <3>3
  <2> QED BY <1>2, <2>1 DEF BusInv, MapIsLive
<1>13. LostOnlyInEmitSync'
  BY <1>2, <1>6 DEF BusInv, LostOnlyInEmitSync, Registered
<1> QED BY <1>7, <1>9, <1>10, <1>11, <1>12, <1>13 DEF BusInv

-----------------------------------------------------------------------------
(* BusInv is an invariant of the bus.                                      *)
THEOREM BusInvariant == Spec => []BusInv
<1>1. ASSUME BusInv, [Next]_vars
      PROVE  BusInv'
  <2>1. ASSUME NEW t \in Types, NEW once \in BOOLEAN, NEW filter \in BOOLEAN, Subscribe(t, once, filter)
        PROVE  BusInv'
    BY <1>1, <2>1, SubscribeKeeps
  <2>2. ASSUME NEW filter \in BOOLEAN, SubscribeAll(filter)
        PROVE  BusInv'
    BY <1>1, <2>2, SubscribeAllKeeps
  <2>3. ASSUME NEW s \in Subs, Unsubscribe(s)
        PROVE  BusInv'
    BY <1>1, <2>3, UnsubscribeKeeps
  <2>4. CASE Clear
    BY <1>1, <2>4, ClearKeeps
  <2>5. ASSUME NEW t \in Types, Emit(t)
        PROVE  BusInv'
    BY <1>1, <2>5, EmitKeeps
  <2>6. ASSUME NEW t \in Types, EmitSync(t)
        PROVE  BusInv'
    BY <1>1, <2>6, EmitSyncKeeps
  <2>7. CASE RunScheduled
    BY <1>1, <2>7, RunScheduledKeeps
  <2>8. CASE CallNext
    BY <1>1, <2>8, CallNextKeeps
  <2>9. CASE TurnToWildcards
    BY <1>1, <2>9, TurnKeeps
  <2>10. CASE EmitSyncReturns
    BY <1>1, <2>10, ReturnKeeps
  <2>11. CASE UNCHANGED vars
    <3>1. Made' = Made /\ Used' = Used /\ \A o, t : Serves(o, t)' = Serves(o, t)
      BY <2>11 DEF vars, Made, Used, Serves
    <3>2. BusTypes'
      BY <1>1, <2>11, <3>1 DEF vars, BusInv, BusTypes
    <3>3. SetsApart' /\ MapIsLive' /\ Shadowed' /\ OnceGone'
      <4>1. SetsApart'
        BY <1>1, <2>11, <3>1 DEF vars, BusInv, SetsApart
      <4>2. MapIsLive' /\ Shadowed'
        BY <1>1, <2>11 DEF vars, BusInv, MapIsLive, Shadowed
      <4>3. OnceGone'
        BY <1>1, <2>11, <3>1 DEF vars, BusInv, OnceGone, Range
      <4> QED BY <4>1, <4>2, <4>3
    <3>4. LostOnlyInEmitSync'
      BY <1>1, <2>11, <3>1 DEF vars, BusInv, LostOnlyInEmitSync, Registered
    <3>5. SyncReaches'
      <4>1. Ages
        BY <2>11 DEF vars, Ages
      <4> QED BY <1>1, <2>11, <4>1, SyncStillReaches DEF vars
    <3> QED BY <3>2, <3>3, <3>4, <3>5 DEF BusInv
  <2> QED BY <1>1, <2>1, <2>2, <2>3, <2>4, <2>5, <2>6, <2>7, <2>8, <2>9, <2>10, <2>11 DEF Next
<1> QED BY <1>1, BusStarts, PTL DEF Spec

(* The map of event_bus.ts holds the subscriptions nobody ended, those     *)
(* made under an emitSync() that lost its Set excepted, each type in a Set *)
(* of its own, and nothing else.                                           *)
THEOREM MapStaysSound == Spec => []MapSound
<1>1. ASSUME BusInv PROVE MapSound
  <2>1. BusTypes /\ AllTypes \notin Types
    BY <1>1, EventBusAssumption DEF BusInv
  <2>2. TypeOK
    <3>1. Len(subs) <= MaxSubs /\ DOMAIN fate = Made
      BY <2>1 DEF BusTypes
    <3>2. ASSUME NEW s \in Made
          PROVE  subs[s].type \in Types \cup {AllTypes} /\ fate[s] \in {"live", "spent", "cancelled", "cleared"}
      <4>1. subs[s] \in Subscription
        BY <2>1 DEF BusTypes, Made
      <4> QED BY <2>1, <4>1 DEF BusTypes, Subscription, Fates
    <3>3. DOMAIN handlers \subseteq Types /\ Range(handlers) \subseteq Sets \ {Wild}
      BY <2>1 DEF BusTypes, Range
    <3>4. IsInjective(handlers)
      BY <1>1, EntriesDiffer DEF IsInjective
    <3>5. \A t \in DOMAIN handlers : \A s \in members[handlers[t]] : subs[s].type = t
      BY <1>1, MembersType
    <3>6. Len(frames) <= MaxDepth /\ emitted \in 0 .. MaxEvents /\ detached \subseteq Made
      BY <2>1 DEF BusTypes
    <3>7. Range(timers) \cup called \cup owed \subseteq Made \X Events
      BY <2>1 DEF BusTypes, Range
    <3> QED BY <3>1, <3>2, <3>3, <3>4, <3>5, <3>6, <3>7 DEF TypeOK
  <2>3. NothingLeftBehind
    <3>1. \A s \in Made : Registered(s) => fate[s] = "live"
      BY <1>1 DEF BusInv, MapIsLive, Registered
    <3> QED BY <1>1, <3>1 DEF BusInv, MapIsLive, NothingLeftBehind
  <2> QED BY <1>1, <2>2, <2>3 DEF BusInv, MapSound
<1> QED BY <1>1, BusInvariant, PTL

(* A once subscription of event_bus.ts gets one event, however emit() and  *)
(* emitSync() overlap and nest.                                            *)
THEOREM OnceIsOnce == Spec => []OnceAtMostOnce
<1>1. ASSUME BusInv PROVE OnceAtMostOnce
  <2> SUFFICES ASSUME NEW s \in Made, subs[s].once
               PROVE  Cardinality({e \in Events : <<s, e>> \in called \cup Range(timers)}) <= 1
    BY DEF OnceAtMostOnce
  <2> DEFINE got == {e \in Events : <<s, e>> \in called \cup Range(timers)}
  <2>1. \A d, e \in got : d = e
    <3> TAKE d, e \in got
    <3>1. <<s, d>> \in called \cup Range(timers) /\ <<s, e>> \in called \cup Range(timers)
      OBVIOUS
    <3>2. <<s, d>>[2] = <<s, e>>[2]
      BY <1>1, <3>1 DEF BusInv, OnceGone
    <3> QED BY <3>2
  <2> HIDE DEF got
  <2>2. CASE got = {}
    <3>1. Cardinality(got) = 0
      BY <2>2, FS_EmptySet
    <3> QED BY <3>1 DEF got
  <2>3. CASE got # {}
    <3>1. PICK d \in got : TRUE
      BY <2>3
    <3>2. got = {d}
      BY <2>1, <3>1
    <3>3. Cardinality(got) = 1
      BY <3>2, FS_Singleton
    <3> QED BY <3>3 DEF got
  <2> QED BY <2>2, <2>3
<1> QED BY <1>1, BusInvariant, PTL

(* A returning emitSync() of event_bus.ts has called everyone it concerned *)
(* who has not ended, emit() schedules live subscriptions only, and an     *)
(* ended one is called by the emitSync() whose Set left the map, only.     *)
THEOREM EmitSyncReachesAll == Spec => EmitSyncReaches
<1> DEFINE Returned == Len(frames') < Len(frames) => \A s \in Frame.concerned :
                           <<s, Frame.event>> \in called \/ fate[s] # "live" \/ s \in detached
           Scheduling == \A i \in DOMAIN timers' \ DOMAIN timers : fate[timers'[i][1]] = "live"
           Calling == \A p \in called' \ called : (frames # <<>> /\ fate[p[1]] # "live") =>
                          Frame.set # Wild /\ Frame.set \notin Range(handlers)
           A == Returned /\ Scheduling /\ Calling
<1>1. ASSUME BusInv, [Next]_vars
      PROVE  [A]_vars
  <2>1. BusTypes /\ Len(frames) \in Nat
    BY <1>1 DEF BusInv, BusTypes
  <2>2. ASSUME frames' = frames, timers' = timers, called' = called
        PROVE  A
    BY <2>1, <2>2
  <2>3. ASSUME NEW t, NEW o, NEW once, NEW filter, NEW map, Add(t, o, once, filter, map)
        PROVE  A
    BY <2>2, <2>3 DEF Add
  <2>4. ASSUME NEW t \in Types, NEW once \in BOOLEAN, NEW filter \in BOOLEAN, Subscribe(t, once, filter)
        PROVE  A
    BY <2>3, <2>4 DEF Subscribe
  <2>5. ASSUME NEW filter \in BOOLEAN, SubscribeAll(filter)
        PROVE  A
    BY <2>3, <2>5 DEF SubscribeAll
  <2>6. ASSUME NEW s \in Subs, Unsubscribe(s)
        PROVE  A
    BY <2>2, <2>6 DEF Unsubscribe
  <2>7. CASE Clear
    BY <2>2, <2>7 DEF Clear
  <2>8. ASSUME NEW t \in Types, Emit(t)
        PROVE  A
    <3>1. frames' = frames /\ called' = called
      BY <2>8 DEF Emit
    <3>2. \A s : InAudience(s, t) => fate[s] = "live"
      BY <1>1 DEF BusInv, MapIsLive, InAudience
    <3>3. \A i \in DOMAIN timers' \ DOMAIN timers : InAudience(timers'[i][1], t)
      BY <1>1, <2>8, EmitSchedules
    <3> QED BY <2>1, <3>1, <3>2, <3>3
  <2>9. ASSUME NEW t \in Types, EmitSync(t)
        PROVE  A
    <3>1. Len(frames') = Len(frames) + 1 /\ timers' = timers /\ called' = called
      BY <2>1, <2>9 DEF EmitSync, BusTypes
    <3> QED BY <2>1, <3>1
  <2>10. CASE RunScheduled
    <3>1. frames = <<>> /\ frames' = frames
      BY <2>10 DEF RunScheduled
    <3>2. DOMAIN timers' \subseteq DOMAIN timers
      BY <1>1, <2>10, RunScheduledKeeps
    <3> QED BY <2>1, <3>1, <3>2
  <2>11. CASE CallNext
    <3>1. /\ frames # <<>> /\ Ahead # {} /\ Len(frames') = Len(frames) /\ timers' = timers
          /\ called' = called \cup {<<Min(Ahead), Frame.event>>}
      BY <2>1, <2>11 DEF CallNext, BusTypes
    <3>2. Min(Ahead) \in members[Frame.set]
      <4>1. Ahead \subseteq members[Frame.set] /\ Ahead \in SUBSET Nat
        BY <2>1, <3>1, Innermost
      <4> QED BY <3>1, <4>1, MinIsLeast
    <3>3. Frame.set = Wild \/ Frame.set \in Range(handlers) => fate[Min(Ahead)] = "live"
      BY <1>1, <3>2 DEF BusInv, MapIsLive, Range
    <3>4. \A p \in called' \ called : p[1] = Min(Ahead)
      BY <3>1
    <3> QED BY <2>1, <3>1, <3>3, <3>4
  <2>12. CASE TurnToWildcards
    <3>1. Len(frames') = Len(frames) /\ timers' = timers /\ called' = called
      BY <2>1, <2>12 DEF TurnToWildcards, BusTypes
    <3> QED BY <2>1, <3>1
  <2>13. CASE EmitSyncReturns
    <3>1. frames # <<>> /\ Ahead = {} /\ Frame.set = Wild /\ timers' = timers /\ called' = called
      BY <2>13 DEF EmitSyncReturns
    <3>2. ASSUME NEW s \in Frame.concerned, <<s, Frame.event>> \notin called, fate[s] = "live", s \notin detached
          PROVE  FALSE
      <4>1. Reached(Frame, s)
        BY <1>1, <2>1, <3>1, Innermost DEF BusInv, SyncReaches, Awaits
      <4>2. subs[s].type = AllTypes /\ s > Frame.at
        BY <3>1, <3>2, <4>1 DEF Reached, Pending
      <4>3. s \in Ahead
        BY <1>1, <3>1, <3>2, <4>2, AheadHas
      <4> QED BY <3>1, <4>3
    <3> QED BY <3>1, <3>2
  <2>14. CASE UNCHANGED vars
    BY <2>14
  <2> QED BY <1>1, <2>4, <2>5, <2>6, <2>7, <2>8, <2>9, <2>10, <2>11, <2>12, <2>13, <2>14 DEF Next
<1> HIDE DEF Returned, Scheduling, Calling
<1>2. Spec => [][A]_vars
  BY <1>1, BusInvariant, PTL DEF Spec
<1> USE DEF Returned, Scheduling, Calling
<1> QED BY <1>2, PTL DEF EmitSyncReaches
=============================================================================
