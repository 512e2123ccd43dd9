------------------------------- MODULE EventBus -------------------------------
(***************************************************************************)
(* packages/core/src/events/event_bus.ts.                                  *)
(*                                                                         *)
(* emit() fixes who gets an event and schedules the calls; emitSync()      *)
(* makes the calls itself while it iterates the live Set of the type, and  *)
(* the handlers it calls may use the bus: frames is the stack of running   *)
(* emitSync() calls, each with the Set object it took from the map when it *)
(* started.  Subscriptions are numbered as they are made, which is the     *)
(* order a JavaScript Set is iterated in.                                  *)
(*                                                                         *)
(* What a handler returns or throws changes nothing but a counter and is   *)
(* left out, so are the statistics.  Filters do not call the bus.          *)
(***************************************************************************)
EXTENDS Integers, SequencesExt, Subsequences

CONSTANTS
    Types,          \* event types
    MaxSubs,        \* subscriptions ever made: a bound
    MaxEvents,      \* events ever emitted: a bound
    MaxDepth,       \* nested emitSync() calls: a bound
    Important       \* the events a filter lets pass

Subs == 1 .. MaxSubs
Events == 1 .. MaxEvents
Wild == 0                                   \* the wildcardHandlers Set
Sets == 0 .. MaxDepth + Cardinality(Types)  \* Set objects; enough for the map and every frame
AllTypes == "all"                           \* stands for the type of subscribeAll()

ASSUME EventBusAssumption ==
    /\ IsFiniteSet(Types) /\ AllTypes \notin Types
    /\ MaxSubs \in Nat /\ MaxEvents \in Nat /\ MaxDepth \in Nat

VARIABLES
    subs,           \* the Subscription objects made so far, in order
    fate,           \* history: what became of each
    handlers,       \* the map from types to Set objects
    members,        \* the content of each Set object
    frames,         \* running emitSync() calls, the innermost last
    timers,         \* scheduled calls, in order
    emitted,        \* number of events emitted
    called,         \* history: calls made
    owed,           \* history: calls an emit() promised
    detached        \* history: subscriptions made while an emitSync() of their type
                    \* iterated a Set that was no longer in the map

vars == <<subs, fate, handlers, members, frames, timers, emitted, called, owed, detached>>

Init ==
    /\ subs = <<>> /\ fate = <<>>
    /\ handlers = <<>>
    /\ members = [o \in Sets |-> {}]
    /\ frames = <<>> /\ timers = <<>>
    /\ emitted = 0
    /\ called = {} /\ owed = {} /\ detached = {}
-----------------------------------------------------------------------------
Made == DOMAIN subs

\* Map.delete
Without(t, map) == Restrict(map, DOMAIN map \ {t})

\* Mutant: the entry goes with the first subscription that leaves it.
TidyAlways(t, o, map, mem) == Without(t, map)

\* if (subs.size === 0) this.handlers.delete(type): whatever the map holds by now.
Tidy(t, o, map, mem) == IF mem[o] = {} THEN Without(t, map) ELSE map

Accepts(s, e) == subs[s].filter => e \in Important

\* Code that may call the bus is running: a handler of the innermost
\* emitSync(), or, without one, any other task, a scheduled handler among them.
CodeRuns == frames # <<>> => Last(frames).at # 0

Unused == Sets \ ({Wild} \cup Range(handlers) \cup {frames[i].set : i \in DOMAIN frames})

Outdated(t, map) == \E i \in DOMAIN frames :
    frames[i].type = t /\ frames[i].set # Wild /\ (t \in DOMAIN map => map[t] # frames[i].set)

Add(t, o, once, filter, map) ==
    LET s == Len(subs) + 1
    IN  /\ CodeRuns /\ s \in Subs
        /\ subs' = Append(subs, [type |-> t, once |-> once, filter |-> filter])
        /\ fate' = Append(fate, "live")
        /\ handlers' = map
        /\ members' = IF o \in Range(handlers) \cup {Wild}
                      THEN [members EXCEPT ![o] = @ \cup {s}]
                      ELSE [members EXCEPT ![o] = {s}]
        /\ detached' = IF Outdated(t, map) THEN detached \cup {s} ELSE detached
        /\ UNCHANGED <<frames, timers, emitted, called, owed>>

SetFor(t) == IF t \in DOMAIN handlers THEN handlers[t] ELSE Min(Unused)

Subscribe(t, once, filter) ==
    Add(t, SetFor(t), once, filter, [x \in DOMAIN handlers \cup {t} |-> IF x = t THEN SetFor(t) ELSE handlers[x]])

SubscribeAll(filter) == Add(AllTypes, Wild, FALSE, filter, handlers)

\* The function subscribe() returned.  The size is tested whether or not
\* anything was removed.
Unsubscribe(s) ==
    /\ CodeRuns /\ s \in Made
    /\ LET t == subs[s].type
           o == IF t \in DOMAIN handlers THEN handlers[t] ELSE Wild
           left == [members EXCEPT ![o] = @ \ {s}]
       IN  /\ members' = left
           /\ handlers' = Tidy(t, o, handlers, left)
    /\ fate' = [fate EXCEPT ![s] = IF @ = "live" THEN "cancelled" ELSE @]
    /\ UNCHANGED <<subs, frames, timers, emitted, called, owed, detached>>

\* wildcardHandlers.clear(); the Sets of the types keep their content.
Cleared == [members EXCEPT ![Wild] = {}]

\* The map loses its Sets, which running emitSync() calls go on iterating.
Clear ==
    /\ CodeRuns
    /\ handlers' = <<>>
    /\ members' = Cleared
    /\ fate' = [s \in Made |-> IF fate[s] = "live" THEN "cleared" ELSE fate[s]]
    /\ UNCHANGED <<subs, frames, timers, emitted, called, owed, detached>>
-----------------------------------------------------------------------------
OnceIn(S) == {s \in S : subs[s].once}

Spent(S) == fate' = [s \in Made |-> IF s \in OnceIn(S) THEN "spent" ELSE fate[s]]

\* The subscriptions an event of type t concerns, whatever the map says.
Concerned(t, e) == {s \in Made : fate[s] = "live" /\ subs[s].type \in {t, AllTypes} /\ Accepts(s, e)}

TypedAudience(t, e) ==
    IF t \in DOMAIN handlers THEN {s \in members[handlers[t]] : Accepts(s, e)} ELSE {}

\* Mutant: nobody is called when the type has no subscription of its own.
WildAudienceTyped(t, e) == IF TypedAudience(t, e) = {} THEN {} ELSE {s \in members[Wild] : Accepts(s, e)}

WildAudience(t, e) == {s \in members[Wild] : Accepts(s, e)}

\* The order a Set is iterated in
InOrder(S) == Retain([s \in Made |-> s], S)

Emit(t) ==
    LET e == emitted + 1
        typed == TypedAudience(t, e)
        order == InOrder(typed) \o InOrder(WildAudience(t, e))
    IN  /\ CodeRuns /\ e \in Events
        /\ emitted' = e
        /\ timers' = timers \o [i \in DOMAIN order |-> <<order[i], e>>]
        /\ members' = [o \in Sets |-> members[o] \ OnceIn(typed)]
        /\ handlers' = IF t \in DOMAIN handlers THEN Tidy(t, handlers[t], handlers, members') ELSE handlers
        /\ Spent(typed)
        /\ owed' = owed \cup (Concerned(t, e) \X {e})
        /\ UNCHANGED <<subs, frames, called, detached>>

\* A scheduled call is made when nothing else runs.
RunScheduled ==
    /\ frames = <<>> /\ timers # <<>>
    /\ timers' = Tail(timers)
    /\ called' = called \cup {Head(timers)}
    /\ UNCHANGED <<subs, fate, handlers, members, frames, emitted, owed, detached>>
-----------------------------------------------------------------------------
\* emitSync() begins.  at is the subscription whose handler runs, 0 between
\* the loops; concerned is history.
EmitSync(t) ==
    /\ CodeRuns /\ Len(frames) < MaxDepth /\ emitted + 1 \in Events
    /\ emitted' = emitted + 1
    /\ frames' = Append(frames, [event |-> emitted + 1, type |-> t, at |-> 0,
                                 set |-> IF t \in DOMAIN handlers THEN handlers[t] ELSE Wild,
                                 concerned |-> Concerned(t, emitted + 1)])
    /\ UNCHANGED <<subs, fate, handlers, members, timers, called, owed, detached>>

Frame == Last(frames)

\* What the iterator of the innermost loop has still to visit, additions of
\* the handlers included.
Ahead == {s \in members[Frame.set] : s > Frame.at /\ Accepts(s, Frame.event)}

\* Mutant: a subscription leaves the Set only when its handler is done.
TakenLate(s) == {Frame.at} \ {0}

\* Which subscription leaves the Set, if it is a once one, as the handler of s is called.
Taken(s) == {s}

\* The handler that ran returns and the loop calls the next one.
CallNext ==
    /\ frames # <<>> /\ Ahead # {}
    /\ LET s == Min(Ahead)
       IN  /\ frames' = [frames EXCEPT ![Len(frames)].at = s]
           /\ called' = called \cup {<<s, Frame.event>>}
           /\ members' = [members EXCEPT ![Frame.set] = @ \ OnceIn(Taken(s))]
           /\ Spent({s})
    /\ UNCHANGED <<subs, handlers, timers, emitted, owed, detached>>

\* Mutant: the iterator is not started anew.
ToWildcardsKeeping(f) == [f EXCEPT !.set = Wild]

ToWildcards(f) == [f EXCEPT !.set = Wild, !.at = 0]

\* The loop over the type's Set is done; the one over the wildcards begins.
TurnToWildcards ==
    /\ frames # <<>> /\ Ahead = {} /\ Frame.set # Wild
    /\ handlers' = Tidy(Frame.type, Frame.set, handlers, members)
    /\ frames' = [frames EXCEPT ![Len(frames)] = ToWildcards(@)]
    /\ UNCHANGED <<subs, fate, members, timers, emitted, called, owed, detached>>

EmitSyncReturns ==
    /\ frames # <<>> /\ Ahead = {} /\ Frame.set = Wild
    /\ frames' = Front(frames)
    /\ UNCHANGED <<subs, fate, handlers, members, timers, emitted, called, owed, detached>>

Next ==
    \/ \E t \in Types, once, filter \in BOOLEAN : Subscribe(t, once, filter)
    \/ \E filter \in BOOLEAN : SubscribeAll(filter)
    \/ \E s \in Subs : Unsubscribe(s)
    \/ Clear
    \/ \E t \in Types : Emit(t) \/ EmitSync(t)
    \/ RunScheduled
    \/ CallNext
    \/ TurnToWildcards
    \/ EmitSyncReturns

\* The event loop runs expired timers and the handlers are functions that
\* return; clients owe nothing.
Fairness ==
    /\ WF_vars(RunScheduled)
    /\ WF_vars(CallNext \/ TurnToWildcards \/ EmitSyncReturns)

Spec == Init /\ [][Next]_vars /\ Fairness
-----------------------------------------------------------------------------
(* Types; no two types share a Set; scheduled calls have a subscription.   *)
TypeOK ==
    /\ Len(subs) <= MaxSubs /\ DOMAIN fate = Made
    /\ \A s \in Made : /\ subs[s].type \in Types \cup {AllTypes}
                       /\ fate[s] \in {"live", "spent", "cancelled", "cleared"}
    /\ DOMAIN handlers \subseteq Types /\ Range(handlers) \subseteq Sets \ {Wild}
    /\ IsInjective(handlers)
    /\ \A t \in DOMAIN handlers : \A s \in members[handlers[t]] : subs[s].type = t
    /\ Len(frames) <= MaxDepth /\ emitted \in 0 .. MaxEvents
    /\ Range(timers) \cup called \cup owed \subseteq Made \X Events
    /\ detached \subseteq Made

Registered(s) ==
    LET t == subs[s].type
    IN  IF t = AllTypes THEN s \in members[Wild] ELSE t \in DOMAIN handlers /\ s \in members[handlers[t]]

(* A subscription nobody ended is in the map: it can only be missing when  *)
(* it was made while an emitSync() of its type was iterating a Set that    *)
(* had left the map, which deletes the new entry when it finds its own Set *)
(* empty (line 141).                                                       *)
LostOnlyInEmitSync == \A s \in Made : fate[s] = "live" /\ s \notin detached => Registered(s)

(* An ended subscription does not linger in the map, and a Set that has    *)
(* emptied leaves the map by the end of the emitSync() that emptied it.    *)
NothingLeftBehind ==
    /\ \A s \in Made : Registered(s) => fate[s] = "live"
    /\ \A t \in DOMAIN handlers : members[handlers[t]] = {} =>
           \E i \in DOMAIN frames : frames[i].set = handlers[t]

(* The map holds the subscriptions nobody ended, in a Set per type.        *)
MapSound == TypeOK /\ LostOnlyInEmitSync /\ NothingLeftBehind

(* A once subscription gets one event, however emit() and emitSync()       *)
(* overlap and nest.                                                       *)
OnceAtMostOnce == \A s \in Made : subs[s].once =>
    Cardinality({e \in Events : <<s, e>> \in called \cup Range(timers)}) <= 1

(* Every call emit() promised to a live subscription is made, even when    *)
(* the subscription has ended in the meantime.                             *)
EmitReaches == \A s \in Subs, e \in Events :
    (<<s, e>> \in owed /\ s \notin detached) ~> (<<s, e>> \in called)

(* When emitSync() returns, every subscription it concerned when it began  *)
(* was called, unless it has ended.  One that has ended is scheduled no    *)
(* more; it is called in place only by an emitSync() that was iterating    *)
(* its Set when clear() (or the lost entry) took it out of the map.        *)
EmitSyncReaches == [][
    /\ Len(frames') < Len(frames) => \A s \in Frame.concerned :
           <<s, Frame.event>> \in called \/ fate[s] # "live" \/ s \in detached
    /\ \A i \in DOMAIN timers' \ DOMAIN timers : fate[timers'[i][1]] = "live"
    /\ \A p \in called' \ called : (frames # <<>> /\ fate[p[1]] # "live") =>
           Frame.set # Wild /\ Frame.set \notin Range(handlers)]_vars
=============================================================================
