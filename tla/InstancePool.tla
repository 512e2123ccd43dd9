----------------------------- MODULE InstancePool -----------------------------
(***************************************************************************)
(* crates/wasm-runtime/src/instance_pool.rs: a pool of instances of the    *)
(* modules in the cache, shared by threads.  acquire() is three steps: it  *)
(* looks the module up, looks for an idle instance under the lock of the   *)
(* entries, and, the lock given back, creates an instance and takes the    *)
(* lock again to insert it.  The other operations hold the lock throughout.*)
(*                                                                         *)
(* last_used only chooses among idle entries: it is left out, and whichever*)
(* idle entry may be the least recently used one.  An instance is known by *)
(* the number it was created under (its uuid); fuel and hits are left out. *)
(***************************************************************************)
EXTENDS ModuleCache

CONSTANTS
    Sizes,          \* values of max_size
    MaxCreated      \* instances ever inserted: a bound

ASSUME InstancePoolAssumption == Sizes \subseteq Nat /\ MaxCreated \in Nat

Ids == 1 .. MaxCreated

VARIABLES
    entries,        \* of the pool: id -> [module, in_use]
    max_size,
    total_created, total_destroyed,
    pc,             \* of each thread: where in acquire() it is
    wanted,         \* the module it asked for, "none" for none
    holds,          \* the instance its handle names, 0 for none
    \* histories
    taken,          \* instances released or destroyed under a holder
    leaked          \* instances whose handle was dropped or released itself

poolVars == <<entries, max_size, total_created, total_destroyed, pc, wanted, holds,
              taken, leaked>>
vars == <<cacheVars, poolVars>>

PoolInit ==
    /\ entries = <<>>
    /\ max_size \in Sizes
    /\ total_created = 0 /\ total_destroyed = 0
    /\ pc = [t \in Threads |-> "free"]
    /\ wanted = [t \in Threads |-> "none"]
    /\ holds = [t \in Threads |-> 0]
    /\ taken = {} /\ leaked = {}

Init == CacheInit /\ PoolInit

\* Mutant: eviction does not ask whether an instance is in use.
IdleAny == DOMAIN entries

\* the filter on !e.in_use
Idle == {i \in DOMAIN entries : ~entries[i].in_use}

Mark(i, inUse) == [entries EXCEPT ![i].in_use = inUse]

RemoveAll(S) == [i \in DOMAIN entries \ S |-> entries[i]]

\* Mutant: one is counted however many go.
CountOne(S) == total_destroyed' = total_destroyed + (IF S = {} THEN 0 ELSE 1)

Count(S) == total_destroyed' = total_destroyed + Cardinality(S)

\* Mutant: the limit is passed by one.
FullLate == Cardinality(DOMAIN entries) > max_size

Full == Cardinality(DOMAIN entries) >= max_size

\* acquire(): the module, which get() also makes the latest in its order.
Resolve(t) ==
    /\ pc[t] = "free" /\ t \notin clearing
    /\ \E n \in Names : Get(n) /\ wanted' = [wanted EXCEPT ![t] = n]
    /\ pc' = [pc EXCEPT ![t] = "looking"]
    /\ UNCHANGED <<entries, max_size, total_created, total_destroyed, holds,
                   taken, leaked>>

\* acquire(): an idle instance of the module.
Reuse(t) ==
    /\ pc[t] = "looking"
    /\ \E i \in Idle :
        /\ entries[i].module = wanted[t]
        /\ entries' = Mark(i, TRUE)
        /\ holds' = [holds EXCEPT ![t] = i]
    /\ pc' = [pc EXCEPT ![t] = "holding"]
    /\ UNCHANGED <<cacheVars, max_size, total_created, total_destroyed, wanted,
                   taken, leaked>>

\* acquire(): none, and the lock is given back.
Miss(t) ==
    /\ pc[t] = "looking"
    /\ \A i \in Idle : entries[i].module # wanted[t]
    /\ pc' = [pc EXCEPT ![t] = "creating"]
    /\ UNCHANGED <<cacheVars, entries, max_size, total_created, total_destroyed, wanted, holds, taken, leaked>>

\* acquire(): the instantiation fails, or the pool is full of used instances.
Refuse(t) ==
    /\ pc[t] = "creating"
    /\ pc' = [pc EXCEPT ![t] = "free"]
    /\ wanted' = [wanted EXCEPT ![t] = "none"]
    /\ UNCHANGED <<cacheVars, entries, max_size, total_created, total_destroyed, holds,
                   taken, leaked>>

\* acquire(): the new instance goes in, after a victim when the pool is full.
Insert(t) ==
    /\ pc[t] = "creating" /\ total_created < MaxCreated
    /\ \E S \in SUBSET Idle :
        LET id == total_created + 1
            kept == RemoveAll(S)
        IN  /\ Cardinality(S) = IF Full THEN 1 ELSE 0
            /\ entries' = [i \in DOMAIN kept \cup {id} |->
                              IF i = id THEN [module |-> wanted[t], in_use |-> TRUE] ELSE kept[i]]
            /\ Count(S)
            /\ holds' = [holds EXCEPT ![t] = id]
    /\ total_created' = total_created + 1
    /\ pc' = [pc EXCEPT ![t] = "holding"]
    /\ UNCHANGED <<cacheVars, max_size, wanted, taken, leaked>>

LetGo(t) ==
    /\ pc[t] = "holding"
    /\ pc' = [pc EXCEPT ![t] = "free"]
    /\ wanted' = [wanted EXCEPT ![t] = "none"]
    /\ holds' = [holds EXCEPT ![t] = 0]

\* release() by the holder; an error if the instance is gone.
Release(t) ==
    /\ LetGo(t)
    /\ entries' = IF holds[t] \in DOMAIN entries THEN Mark(holds[t], FALSE) ELSE entries
    /\ UNCHANGED <<cacheVars, max_size, total_created, total_destroyed,
                   taken, leaked>>

Taken(i) == IF entries[i].in_use THEN taken \cup {i} ELSE taken

\* release() by another copy of the handle, or by a former holder.
ReleaseAgain(i) ==
    /\ i \in DOMAIN entries
    /\ entries' = Mark(i, FALSE)
    /\ taken' = Taken(i)
    /\ UNCHANGED <<cacheVars, max_size, total_created, total_destroyed, pc, wanted, holds, leaked>>

\* InstanceHandle::release() sets a flag of the handle; the pool is not told.
ReleaseHandle(t) ==
    /\ LetGo(t)
    /\ leaked' = leaked \cup {holds[t]}
    /\ UNCHANGED <<cacheVars, entries, max_size, total_created, total_destroyed,
                   taken>>

\* destroy() does not ask whether the instance is in use.
Destroy(i) ==
    /\ i \in DOMAIN entries
    /\ entries' = RemoveAll({i})
    /\ Count({i})
    /\ taken' = Taken(i)
    /\ UNCHANGED <<cacheVars, max_size, total_created, pc, wanted, holds, leaked>>

EvictIdle ==
    /\ \E S \in SUBSET Idle : entries' = RemoveAll(S) /\ Count(S)
    /\ UNCHANGED <<cacheVars, max_size, total_created, pc, wanted, holds, taken, leaked>>

\* As many idle instances go as there are too many, or all of them.
Resize(new_max) ==
    /\ \E S \in SUBSET Idle :
        /\ LET excess == Cardinality(DOMAIN entries) - new_max IN
            CASE excess <= 0 -> S = {}
              [] excess > Cardinality(Idle) -> S = Idle
              [] OTHER -> Cardinality(S) = excess
        /\ entries' = RemoveAll(S)
        /\ Count(S)
    /\ max_size' = new_max
    /\ UNCHANGED <<cacheVars, total_created, pc, wanted, holds, taken, leaked>>

PoolNext ==
    \/ \E t \in Threads :
        Resolve(t) \/ Reuse(t) \/ Miss(t) \/ Refuse(t) \/ Insert(t) \/ Release(t) \/ ReleaseHandle(t)
    \/ \E i \in Ids : ReleaseAgain(i) \/ Destroy(i)
    \/ EvictIdle
    \/ \E m \in Sizes : Resize(m)

\* A thread inside acquire() does nothing else.
CacheNext == \E t \in Threads :
    /\ pc[t] \in {"free", "holding"}
    /\ CacheStep(t)
    /\ UNCHANGED poolVars

Next == CacheNext \/ PoolNext

Spec == Init /\ [][Next]_vars
-----------------------------------------------------------------------------
PoolTypeOK ==
    /\ DOMAIN entries \subseteq Ids
    /\ entries \in [DOMAIN entries -> [module : Names, in_use : BOOLEAN]]
    /\ max_size \in Sizes
    /\ total_created \in 0 .. MaxCreated /\ total_destroyed \in Nat
    /\ pc \in [Threads -> {"free", "looking", "creating", "holding"}]
    /\ wanted \in [Threads -> Names \cup {"none"}]
    /\ holds \in [Threads -> 0 .. MaxCreated]
    /\ \A t \in Threads : holds[t] # 0 <=> pc[t] = "holding"
    /\ taken \subseteq Ids /\ leaked \subseteq Ids

(* The types of the cache's and the pool's variables; a thread has a handle*)
(* exactly between acquire() and its release.                              *)
TypeOK == CacheTypeOK /\ PoolTypeOK

(* One instance is never in two hands, although acquire() looks and inserts*)
(* under two locks: unless a second release() idled it under its holder    *)
(* (instance_pool.rs:213), which release() cannot tell from the first.     *)
Exclusive == \A t, u \in Threads :
    t # u /\ holds[t] # 0 /\ holds[t] = holds[u] => holds[t] \in taken

(* The instance a thread holds is in the pool, marked and of the module    *)
(* asked for: no eviction, resize or insertion takes it away.  Only        *)
(* destroy() (:226) and a second release() do.                             *)
HeldInUse == \A t \in Threads :
    holds[t] \notin taken \cup {0} =>
        /\ holds[t] \in DOMAIN entries
        /\ entries[holds[t]] = [module |-> wanted[t], in_use |-> TRUE]

(* What a caller may rely on while it has a handle.                        *)
HandlesExclusive == Exclusive /\ HeldInUse

(* A marked entry is held, or its handle was let go without release() of   *)
(* the pool, as InstanceHandle::release() does (:63): then its place is    *)
(* lost, for evict_idle() and resize() pass it over.                       *)
InUseAccounted == \A i \in DOMAIN entries :
    entries[i].in_use => i \in leaked \/ \E t \in Threads : holds[t] = i

(* created minus destroyed of the statistics is the size of the pool,      *)
(* although five operations count, each in its own way.                    *)
StatsBalance == total_created - total_destroyed = Cardinality(DOMAIN entries)

(* What marks and statistics say of the entries is so, in every state.  A  *)
(* pool that resize() left above its limit shrinks or stays; it grows only *)
(* up to the limit, whatever happened since acquire() looked               *)
(* (instance_pool.rs:101-289).                                             *)
PoolAccounts ==
    /\ [](InUseAccounted /\ StatsBalance)
    /\ [][Cardinality(DOMAIN entries') > Cardinality(DOMAIN entries)
            => Cardinality(DOMAIN entries') <= max_size]_vars
=============================================================================
