----------------------------- MODULE ModuleCache -----------------------------
(***************************************************************************)
(* crates/wasm-runtime/src/modules.rs: the cache of compiled modules and   *)
(* the order they were used in, each behind its own lock.  Every operation *)
(* holds both locks from its first access to its last, so it is one        *)
(* action; clear() alone takes them one after the other.                   *)
(*                                                                         *)
(* Compilation precedes the locks and only produces a value; metadata and  *)
(* signatures are left out.  The age of a module is abstracted: any set of *)
(* modules may have expired.                                               *)
(***************************************************************************)
EXTENDS Integers, FiniteSets, Sequences, Subsequences

CONSTANTS
    Names,          \* of modules
    Threads,
    capacity,
    MaxAccess,      \* entries in access_order: a bound
    MaxOverlaps     \* loads during a clear(): a bound

ASSUME ModuleCacheAssumption ==
    /\ IsFiniteSet(Names)
    /\ capacity \in Nat \ {0}
    /\ MaxAccess \in Nat /\ MaxOverlaps \in Nat

VARIABLES
    modules,        \* the names in the map
    access,         \* access_order, the least recently used first
    clearing,       \* threads between the two halves of clear()
    overlaps        \* history: loads made while some clear() was half done

cacheVars == <<modules, access, clearing, overlaps>>

CacheInit ==
    /\ modules = {} /\ access = <<>>
    /\ clearing = {}
    /\ overlaps = 0

\* Mutant: only the first mention of a name leaves the order.
WithoutFirst(order, S) ==
    LET hits == {k \in DOMAIN order : order[k] \in S}
        cut == CHOOSE k \in hits : \A l \in hits : k <= l
    IN  IF hits = {} THEN order ELSE SubSeq(order, 1, cut - 1) \o SubSeq(order, cut + 1, Len(order))

\* access.retain(|k| k != name), for each of the names
Without(order, S) == Retain(order, Names \ S)

\* Whom a load evicts.  The size is tested whether or not the name is new.
Victims == IF Cardinality(modules) >= capacity /\ access # <<>> THEN {Head(access)} ELSE {}

\* A name that is loaded again is mentioned in the order again.
Load(t, n) ==
    /\ t \notin clearing
    /\ Len(access) < MaxAccess
    /\ clearing # {} => overlaps < MaxOverlaps
    /\ modules' = (modules \ Victims) \cup {n}
    /\ access' = Append(Without(access, Victims), n)
    /\ overlaps' = IF clearing # {} THEN overlaps + 1 ELSE overlaps
    /\ UNCHANGED clearing

Get(n) ==
    /\ n \in modules
    /\ access' = Append(Without(access, {n}), n)
    /\ UNCHANGED <<modules, clearing, overlaps>>

\* remove() and evict_expired()
Forget(t, S) ==
    /\ t \notin clearing
    /\ modules' = modules \ S
    /\ access' = Without(access, S)
    /\ UNCHANGED <<clearing, overlaps>>

ClearModules(t) ==
    /\ t \notin clearing
    /\ modules' = {}
    /\ clearing' = clearing \cup {t}
    /\ UNCHANGED <<access, overlaps>>

ClearAccess(t) ==
    /\ t \in clearing
    /\ access' = <<>>
    /\ clearing' = clearing \ {t}
    /\ UNCHANGED <<modules, overlaps>>

CacheStep(t) ==
    \/ \E n \in Names : Load(t, n) \/ Forget(t, {n})
    \/ \E n \in Names : t \notin clearing /\ Get(n)
    \/ \E S \in SUBSET modules : S # {} /\ Forget(t, S)
    \/ ClearModules(t)
    \/ ClearAccess(t)
-----------------------------------------------------------------------------
CacheTypeOK ==
    /\ modules \subseteq Names
    /\ access \in Seq(Names) /\ Len(access) <= MaxAccess
    /\ clearing \subseteq Threads
    /\ overlaps \in 0 .. MaxOverlaps

(* The order mentions exactly the modules there are, so that the eviction  *)
(* of a load removes one: as long as no load came between the halves of a  *)
(* clear(), which forgets the mention of the new module (modules.rs:159).  *)
OrderAgrees == overlaps = 0 =>
    IF clearing = {} THEN modules = {access[k] : k \in DOMAIN access} ELSE modules = {}

(* What such loads cost: a module nobody mentions is never evicted, and    *)
(* each load that overlapped a clear() can take one place for good.        *)
CapacityKept == Cardinality(modules) <= capacity + overlaps

(* Both: the order and the modules belong together.                        *)
CacheSound == OrderAgrees /\ CapacityKept
=============================================================================
