-------------------------- MODULE CacheProofs --------------------------
(***************************************************************************)
(* The instance pool and the module cache of the WebAssembly runtime, and  *)
(* the tiered cache, for every number of callers and every limit.          *)
(*                                                                         *)
(* The pool: an instance is in one hand, stays in the pool while it is     *)
(* held, and is accounted for.  What that needs beside itself: the numbers *)
(* of the instances do not pass total_created, so that the next one is     *)
(* new, and a thread inside acquire() wants a module.                      *)
(***************************************************************************)
EXTENDS InstancePool, CacheTiers, DataLemmas

USE InstancePoolAssumption DEF InstancePoolAssumption

Numbered ==
    /\ \A i \in DOMAIN entries : i <= total_created
    /\ \A t \in Threads : holds[t] <= total_created
    /\ \A i \in taken : i <= total_created

Wanting == \A t \in Threads : pc[t] # "free" => wanted[t] \in Names

IInv == PoolTypeOK /\ Numbered /\ Wanting /\ Exclusive /\ HeldInUse /\ InUseAccounted /\ StatsBalance
-----------------------------------------------------------------------------
(* The pool is finite, and so is any part of it.                           *)
LEMMA PoolFinite ==
  ASSUME PoolTypeOK
  PROVE  /\ IsFiniteSet(DOMAIN entries) /\ Cardinality(DOMAIN entries) \in Nat
         /\ \A S \in SUBSET DOMAIN entries : IsFiniteSet(S) /\ Cardinality(S) \in Nat
<1>1. IsFiniteSet(Ids)
  BY FS_Interval DEF Ids
<1>2. \A S \in SUBSET DOMAIN entries : IsFiniteSet(S)
  BY <1>1, FS_Subset DEF PoolTypeOK
<1> QED
  BY <1>2, FS_CardinalityType

(* Removing instances shrinks the pool by as many and keeps the others.    *)
LEMMA RemoveAllSize ==
  ASSUME PoolTypeOK, NEW S \in SUBSET DOMAIN entries
  PROVE  /\ DOMAIN RemoveAll(S) = DOMAIN entries \ S
         /\ \A i \in DOMAIN entries \ S : RemoveAll(S)[i] = entries[i]
         /\ RemoveAll(S) \in [DOMAIN entries \ S -> [module : Names, in_use : BOOLEAN]]
         /\ IsFiniteSet(DOMAIN entries \ S)
         /\ Cardinality(DOMAIN entries \ S) = Cardinality(DOMAIN entries) - Cardinality(S)
<1>1. /\ DOMAIN RemoveAll(S) = DOMAIN entries \ S
      /\ \A i \in DOMAIN entries \ S : RemoveAll(S)[i] = entries[i]
      /\ RemoveAll(S) \in [DOMAIN entries \ S -> [module : Names, in_use : BOOLEAN]]
  BY DEF RemoveAll, PoolTypeOK
<1>2. DOMAIN entries \cap S = S
  OBVIOUS
<1>3. /\ IsFiniteSet(DOMAIN entries \ S)
      /\ Cardinality(DOMAIN entries \ S) = Cardinality(DOMAIN entries) - Cardinality(DOMAIN entries \cap S)
  BY PoolFinite, FS_Difference
<1> QED
  BY <1>1, <1>2, <1>3

(* Marking an instance changes its mark and nothing else.                  *)
LEMMA MarkFacts ==
  ASSUME PoolTypeOK, NEW i \in DOMAIN entries, NEW b \in BOOLEAN
  PROVE  /\ DOMAIN Mark(i, b) = DOMAIN entries
         /\ Mark(i, b) \in [DOMAIN entries -> [module : Names, in_use : BOOLEAN]]
         /\ Mark(i, b)[i] = [module |-> entries[i].module, in_use |-> b]
         /\ \A j \in DOMAIN entries \ {i} : Mark(i, b)[j] = entries[j]
  BY DEF Mark, PoolTypeOK

(* A held instance is not idle unless it was taken: no step that only      *)
(* takes idle ones disturbs a holder.                                      *)
LEMMA HeldIsNotIdle ==
  ASSUME HeldInUse, NEW t \in Threads, holds[t] # 0, holds[t] \in Idle
  PROVE  holds[t] \in taken
<1> SUFFICES ASSUME holds[t] \notin taken PROVE FALSE
  OBVIOUS
<1>1. entries[holds[t]] = [module |-> wanted[t], in_use |-> TRUE]
  BY DEF HeldInUse
<1>2. ~entries[holds[t]].in_use
  BY DEF Idle
<1> QED
  BY <1>1, <1>2

(* The empty pool is as the invariant says.                                *)
LEMMA InitInv == Init => IInv
<1> SUFFICES ASSUME Init PROVE IInv
  OBVIOUS
<1>1. DOMAIN entries = {}
  BY DEF Init, PoolInit
<1>2. Cardinality(DOMAIN entries) = 0
  BY <1>1, FS_EmptySet
<1>3. entries \in [DOMAIN entries -> [module : Names, in_use : BOOLEAN]]
  <2>1. entries = [i \in {} |-> entries[i]]
    BY DEF Init, PoolInit
  <2> QED
    BY <1>1, <2>1
<1>4. /\ max_size \in Sizes /\ total_created = 0 /\ total_destroyed = 0
      /\ taken = {} /\ leaked = {}
      /\ pc \in [Threads -> {"free"}] /\ wanted \in [Threads -> {"none"}] /\ holds \in [Threads -> {0}]
  BY DEF Init, PoolInit
<1>5. PoolTypeOK
  BY <1>1, <1>3, <1>4 DEF PoolTypeOK, Ids
<1> QED
  BY <1>1, <1>2, <1>4, <1>5
  DEF IInv, Numbered, Wanting, Exclusive, HeldInUse, InUseAccounted, StatsBalance
-----------------------------------------------------------------------------
(* Idle instances go: eviction and resizing.                               *)
LEMMA IdleGo ==
  ASSUME IInv, NEW S \in SUBSET Idle, entries' = RemoveAll(S), Count(S), max_size' \in Sizes,
         UNCHANGED <<total_created, pc, wanted, holds, taken, leaked>>
  PROVE  IInv' /\ Cardinality(DOMAIN entries') <= Cardinality(DOMAIN entries)
<1> USE DEF IInv
<1>1. S \in SUBSET DOMAIN entries
  BY DEF Idle
<1>2. /\ DOMAIN entries' = DOMAIN entries \ S
      /\ \A i \in DOMAIN entries \ S : entries'[i] = entries[i]
      /\ entries' \in [DOMAIN entries \ S -> [module : Names, in_use : BOOLEAN]]
      /\ Cardinality(DOMAIN entries') = Cardinality(DOMAIN entries) - Cardinality(S)
  BY <1>1, RemoveAllSize
<1>3. /\ Cardinality(S) \in Nat /\ Cardinality(DOMAIN entries) \in Nat
      /\ total_created \in Nat /\ total_destroyed \in Nat
  <2>1. Cardinality(S) \in Nat /\ Cardinality(DOMAIN entries) \in Nat
    BY <1>1, PoolFinite
  <2> QED
    BY <2>1 DEF PoolTypeOK
<1>4. PoolTypeOK'
  <2>1. entries' \in [DOMAIN entries' -> [module : Names, in_use : BOOLEAN]]
    BY <1>2
  <2>2. total_destroyed' \in Nat
    BY <1>3 DEF Count
  <2> QED
    BY <1>2, <2>1, <2>2 DEF PoolTypeOK
<1>5. Numbered' /\ Wanting' /\ Exclusive'
  BY <1>2 DEF Numbered, Wanting, Exclusive
<1>6. HeldInUse'
  BY <1>2, HeldIsNotIdle DEF HeldInUse, PoolTypeOK
<1>7. InUseAccounted'
  BY <1>2 DEF InUseAccounted
<1>8. StatsBalance'
  BY <1>2, <1>3 DEF StatsBalance, Count
<1> QED
  BY <1>2, <1>3, <1>4, <1>5, <1>6, <1>7, <1>8

(* A thread that holds nothing moves on, and nothing else does.            *)
LEMMA ThreadMoves ==
  ASSUME IInv, NEW t \in Threads, pc[t] # "holding",
         pc' \in [Threads -> {"free", "looking", "creating", "holding"}],
         wanted' \in [Threads -> Names \cup {"none"}],
         pc'[t] # "holding", pc'[t] # "free" => wanted'[t] \in Names,
         \A u \in Threads \ {t} : pc'[u] = pc[u] /\ wanted'[u] = wanted[u],
         UNCHANGED <<entries, max_size, total_created, total_destroyed, holds, taken, leaked>>
  PROVE  IInv'
<1> USE DEF IInv
<1>1. holds[t] = 0
  BY DEF PoolTypeOK
<1>2. PoolTypeOK'
  BY <1>1 DEF PoolTypeOK
<1>3. HeldInUse'
  BY <1>1 DEF HeldInUse
<1>4. Wanting'
  BY DEF Wanting
<1> QED
  BY <1>2, <1>3, <1>4 DEF Numbered, Exclusive, InUseAccounted, StatsBalance

(* acquire() with an idle instance of the module keeps the invariant.      *)
LEMMA ReuseStep ==
  ASSUME IInv, NEW t \in Threads, Reuse(t)
  PROVE  IInv' /\ DOMAIN entries' = DOMAIN entries
<1> USE DEF IInv
<1>1. PICK i \in Idle : /\ entries[i].module = wanted[t]
                        /\ entries' = Mark(i, TRUE)
                        /\ holds' = [holds EXCEPT ![t] = i]
  BY DEF Reuse
<1>2. /\ i \in DOMAIN entries /\ ~entries[i].in_use /\ i \in Ids
      /\ holds[t] = 0 /\ pc[t] = "looking"
  BY DEF Idle, Reuse, PoolTypeOK
<1>3. /\ DOMAIN entries' = DOMAIN entries
      /\ entries' \in [DOMAIN entries -> [module : Names, in_use : BOOLEAN]]
      /\ entries'[i] = [module |-> wanted[t], in_use |-> TRUE]
      /\ \A j \in DOMAIN entries \ {i} : entries'[j] = entries[j]
  BY <1>1, <1>2, MarkFacts
<1>4. /\ pc' = [pc EXCEPT ![t] = "holding"]
      /\ UNCHANGED <<max_size, total_created, total_destroyed, wanted, taken, leaked>>
  BY DEF Reuse
<1>5. holds'[t] = i /\ \A u \in Threads \ {t} : holds'[u] = holds[u]
  BY <1>1 DEF PoolTypeOK
<1>6. PoolTypeOK'
  <2>1. /\ entries' \in [DOMAIN entries' -> [module : Names, in_use : BOOLEAN]]
        /\ DOMAIN entries' \subseteq Ids
    BY <1>3 DEF PoolTypeOK
  <2>2. /\ pc' \in [Threads -> {"free", "looking", "creating", "holding"}]
        /\ holds' \in [Threads -> 0 .. MaxCreated]
        /\ \A u \in Threads : holds'[u] # 0 <=> pc'[u] = "holding"
    BY <1>1, <1>2, <1>4, <1>5 DEF PoolTypeOK, Ids
  <2> QED
    BY <1>4, <2>1, <2>2 DEF PoolTypeOK
<1>7. Numbered' /\ Wanting'
  BY <1>2, <1>3, <1>4, <1>5 DEF Numbered, Wanting, PoolTypeOK
<1>8. \A u \in Threads \ {t} : holds[u] = i => i \in taken
  BY <1>2, HeldIsNotIdle DEF Idle, Ids
<1>9. Exclusive'
  BY <1>4, <1>5, <1>8 DEF Exclusive
<1>10. HeldInUse'
  <2> SUFFICES ASSUME NEW u \in Threads, holds'[u] \notin taken' \cup {0}
               PROVE  /\ holds'[u] \in DOMAIN entries'
                      /\ entries'[holds'[u]] = [module |-> wanted'[u], in_use |-> TRUE]
    BY DEF HeldInUse
  <2>1. CASE u = t
    BY <1>2, <1>3, <1>4, <1>5, <2>1
  <2>2. CASE u # t
    <3>1. /\ holds'[u] = holds[u] /\ holds[u] \notin taken \cup {0}
          /\ wanted'[u] = wanted[u] /\ holds[u] # i
      BY <1>4, <1>5, <1>8, <2>2
    <3>2. /\ holds[u] \in DOMAIN entries
          /\ entries[holds[u]] = [module |-> wanted[u], in_use |-> TRUE]
      BY <3>1 DEF HeldInUse
    <3> QED
      BY <1>3, <3>1, <3>2
  <2> QED
    BY <2>1, <2>2
<1>11. InUseAccounted'
  <2>1. \A j \in DOMAIN entries : j # 0
    BY DEF PoolTypeOK, Ids
  <2> QED
    BY <1>2, <1>3, <1>4, <1>5, <2>1 DEF InUseAccounted
<1> QED
  BY <1>3, <1>4, <1>6, <1>7, <1>9, <1>10, <1>11 DEF StatsBalance

(* acquire() that inserts a new instance keeps the invariant, and grows    *)
(* the pool up to max_size.                                                *)
LEMMA InsertStep ==
  ASSUME IInv, NEW t \in Threads, Insert(t)
  PROVE  /\ IInv'
         /\ Cardinality(DOMAIN entries') > Cardinality(DOMAIN entries)
                => Cardinality(DOMAIN entries') <= max_size
<1> USE DEF IInv
<1> DEFINE id == total_created + 1
<1>1. PICK S \in SUBSET Idle :
        /\ Cardinality(S) = IF Full THEN 1 ELSE 0
        /\ entries' = [i \in DOMAIN RemoveAll(S) \cup {id} |->
                          IF i = id THEN [module |-> wanted[t], in_use |-> TRUE] ELSE RemoveAll(S)[i]]
        /\ Count(S)
        /\ holds' = [holds EXCEPT ![t] = id]
  BY DEF Insert
<1>2. /\ pc[t] = "creating" /\ holds[t] = 0
      /\ total_created' = id /\ id \in Ids /\ id \in Nat
      /\ pc' = [pc EXCEPT ![t] = "holding"]
      /\ UNCHANGED <<max_size, wanted, taken, leaked>>
  <2>1. /\ pc[t] = "creating" /\ total_created < MaxCreated /\ total_created' = id
        /\ pc' = [pc EXCEPT ![t] = "holding"]
        /\ UNCHANGED <<max_size, wanted, taken, leaked>>
    BY DEF Insert
  <2>2. total_created \in Nat /\ holds[t] = 0
    BY <2>1 DEF PoolTypeOK
  <2> QED
    BY <2>1, <2>2 DEF Ids
<1>3. S \in SUBSET DOMAIN entries
  BY DEF Idle
<1>4. id \notin DOMAIN entries /\ id \notin taken /\ \A u \in Threads : holds[u] # id
  <2>1. total_created \in Nat
    BY DEF PoolTypeOK
  <2> QED
    BY <2>1 DEF Numbered
<1>5. /\ DOMAIN entries' = (DOMAIN entries \ S) \cup {id}
      /\ \A i \in DOMAIN entries \ S : entries'[i] = entries[i]
      /\ entries'[id] = [module |-> wanted[t], in_use |-> TRUE]
      /\ IsFiniteSet(DOMAIN entries \ S)
      /\ Cardinality(DOMAIN entries \ S) = Cardinality(DOMAIN entries) - Cardinality(S)
  <2>1. PICK kept : kept = RemoveAll(S)
    OBVIOUS
  <2>2. /\ DOMAIN kept = DOMAIN entries \ S /\ \A i \in DOMAIN entries \ S : kept[i] = entries[i]
        /\ IsFiniteSet(DOMAIN entries \ S)
        /\ Cardinality(DOMAIN entries \ S) = Cardinality(DOMAIN entries) - Cardinality(S)
    BY <2>1, <1>3, RemoveAllSize
  <2>3. entries' = [i \in DOMAIN kept \cup {id} |->
                        IF i = id THEN [module |-> wanted[t], in_use |-> TRUE] ELSE kept[i]]
    BY <1>1, <2>1
  <2>4. id \notin DOMAIN kept
    BY <1>4, <2>2
  <2> QED
    BY <2>2, <2>3, <2>4
<1>6. wanted[t] \in Names
  BY <1>2 DEF Wanting
<1>7. entries' \in [DOMAIN entries' -> [module : Names, in_use : BOOLEAN]]
  BY <1>1, <1>3, <1>5, <1>6, RemoveAllSize
<1>8. Cardinality(DOMAIN entries') = Cardinality(DOMAIN entries) - Cardinality(S) + 1
  BY <1>4, <1>5, PoolFinite, <1>3, FS_AddElement
<1>9. /\ Cardinality(S) \in Nat /\ Cardinality(DOMAIN entries) \in Nat
      /\ total_created \in Nat /\ total_destroyed \in Nat /\ max_size \in Nat
  <2>1. Cardinality(S) \in Nat /\ Cardinality(DOMAIN entries) \in Nat
    BY <1>3, PoolFinite
  <2> QED
    BY <2>1 DEF PoolTypeOK
<1>10. holds'[t] = id /\ \A u \in Threads \ {t} : holds'[u] = holds[u]
  BY <1>1 DEF PoolTypeOK
<1>11. PoolTypeOK'
  <2>1. DOMAIN entries' \subseteq Ids
    BY <1>2, <1>5 DEF PoolTypeOK
  <2>2. /\ pc' \in [Threads -> {"free", "looking", "creating", "holding"}]
        /\ holds' \in [Threads -> 0 .. MaxCreated]
        /\ \A u \in Threads : holds'[u] # 0 <=> pc'[u] = "holding"
    BY <1>1, <1>2, <1>10 DEF PoolTypeOK, Ids
  <2>3. total_created' \in 0 .. MaxCreated /\ total_destroyed' \in Nat
    BY <1>1, <1>2, <1>9 DEF Count, Ids
  <2> QED
    BY <1>2, <1>7, <2>1, <2>2, <2>3 DEF PoolTypeOK
<1>12. Numbered' /\ Wanting'
  <2>1. /\ \A i \in DOMAIN entries : i \in Nat
        /\ \A u \in Threads : holds[u] \in Nat
        /\ \A i \in taken : i \in Nat
    BY DEF PoolTypeOK, Ids
  <2>2. Numbered'
    BY <1>2, <1>5, <1>9, <1>10, <2>1 DEF Numbered
  <2>3. Wanting'
    BY <1>2, <1>6 DEF Wanting, PoolTypeOK
  <2> QED
    BY <2>2, <2>3
<1>13. Exclusive'
  BY <1>2, <1>4, <1>10 DEF Exclusive
<1>14. HeldInUse'
  <2>1. ASSUME NEW u \in Threads \ {t}, holds[u] \notin taken \cup {0}
        PROVE  holds[u] \in DOMAIN entries \ S
    <3>1. holds[u] \in DOMAIN entries
      BY <2>1 DEF HeldInUse
    <3>2. holds[u] \notin Idle
      BY <2>1, HeldIsNotIdle
    <3> QED
      BY <3>1, <3>2
  <2> SUFFICES ASSUME NEW u \in Threads, holds'[u] \notin taken \cup {0}
               PROVE  holds'[u] \in DOMAIN entries' /\ entries'[holds'[u]] = [module |-> wanted[u], in_use |-> TRUE]
    BY <1>2 DEF HeldInUse
  <2>2. CASE u = t
    BY <2>2, <1>5, <1>10
  <2>3. CASE u # t
    <3>1. holds'[u] = holds[u] /\ holds[u] \in DOMAIN entries \ S
      BY <2>1, <2>3, <1>10
    <3>2. entries[holds[u]] = [module |-> wanted[u], in_use |-> TRUE]
      BY <3>1 DEF HeldInUse
    <3> QED
      BY <3>1, <3>2, <1>5
  <2> QED
    BY <2>2, <2>3
<1>15. InUseAccounted'
  <2>1. \A j \in DOMAIN entries : j # 0
    BY DEF PoolTypeOK, Ids
  <2> QED
    BY <1>2, <1>5, <1>10, <2>1 DEF InUseAccounted
<1>16. StatsBalance'
  BY <1>1, <1>2, <1>8, <1>9 DEF StatsBalance, Count
<1>17. Cardinality(DOMAIN entries') > Cardinality(DOMAIN entries)
          => Cardinality(DOMAIN entries') <= max_size
  BY <1>1, <1>8, <1>9 DEF Full
<1> QED
  BY <1>11, <1>12, <1>13, <1>14, <1>15, <1>16, <1>17

(* A thread lets go of its instance, which is idled, or leaked, or gone.   *)
LEMMA LetGoStep ==
  ASSUME IInv, NEW t \in Threads, LetGo(t), leaked' \subseteq Ids, leaked \subseteq leaked',
         DOMAIN entries' = DOMAIN entries,
         entries' \in [DOMAIN entries' -> [module : Names, in_use : BOOLEAN]],
         \A i \in DOMAIN entries \ {holds[t]} : entries'[i] = entries[i],
         \A i \in DOMAIN entries : i = holds[t] => ~entries'[i].in_use \/ i \in leaked',
         UNCHANGED <<max_size, total_created, total_destroyed, taken>>
  PROVE  IInv'
<1> USE DEF IInv
<1>1. /\ pc' = [pc EXCEPT ![t] = "free"] /\ wanted' = [wanted EXCEPT ![t] = "none"]
      /\ holds' = [holds EXCEPT ![t] = 0] /\ holds[t] # 0
  BY DEF LetGo, PoolTypeOK
<1>2. /\ holds'[t] = 0 /\ pc'[t] = "free"
      /\ \A u \in Threads \ {t} : holds'[u] = holds[u] /\ pc'[u] = pc[u] /\ wanted'[u] = wanted[u]
  BY <1>1 DEF PoolTypeOK
<1>3. PoolTypeOK'
  <2>1. /\ pc' \in [Threads -> {"free", "looking", "creating", "holding"}]
        /\ wanted' \in [Threads -> Names \cup {"none"}]
        /\ holds' \in [Threads -> 0 .. MaxCreated]
        /\ \A u \in Threads : holds'[u] # 0 <=> pc'[u] = "holding"
    BY <1>1, <1>2 DEF PoolTypeOK
  <2> QED
    BY <2>1 DEF PoolTypeOK
<1>4. Numbered' /\ Wanting' /\ Exclusive' /\ StatsBalance'
  BY <1>1, <1>2 DEF Numbered, Wanting, Exclusive, StatsBalance, PoolTypeOK
<1>5. HeldInUse'
  <2> SUFFICES ASSUME NEW u \in Threads, holds'[u] \notin taken' \cup {0}
               PROVE  /\ holds'[u] \in DOMAIN entries'
                      /\ entries'[holds'[u]] = [module |-> wanted'[u], in_use |-> TRUE]
    BY DEF HeldInUse
  <2>1. /\ u # t /\ holds'[u] = holds[u] /\ holds[u] \notin taken \cup {0}
        /\ wanted'[u] = wanted[u]
    BY <1>2
  <2>2. holds[u] # holds[t]
    BY <1>1, <2>1 DEF Exclusive
  <2>3. /\ holds[u] \in DOMAIN entries
        /\ entries[holds[u]] = [module |-> wanted[u], in_use |-> TRUE]
    BY <2>1 DEF HeldInUse
  <2> QED
    BY <2>1, <2>2, <2>3
<1>6. InUseAccounted'
  <2> SUFFICES ASSUME NEW i \in DOMAIN entries', entries'[i].in_use
               PROVE  i \in leaked' \/ \E u \in Threads : holds'[u] = i
    BY DEF InUseAccounted
  <2>1. CASE i = holds[t]
    BY <2>1
  <2>2. CASE i # holds[t]
    <3>1. entries[i].in_use
      BY <2>2
    <3>2. i \in leaked \/ \E u \in Threads : holds[u] = i
      BY <3>1 DEF InUseAccounted
    <3> QED
      BY <1>2, <2>2, <3>2
  <2> QED
    BY <2>1, <2>2
<1> QED
  BY <1>3, <1>4, <1>5, <1>6

(* release() and the drop of a handle keep the invariant.                  *)
LEMMA ReleaseStep ==
  ASSUME IInv, NEW t \in Threads, Release(t) \/ ReleaseHandle(t)
  PROVE  IInv' /\ DOMAIN entries' = DOMAIN entries
<1> USE DEF IInv
<1>1. CASE Release(t)
  <2>1. CASE holds[t] \in DOMAIN entries
    <3>1. entries' = Mark(holds[t], FALSE)
      BY <1>1, <2>1 DEF Release
    <3>2. /\ DOMAIN entries' = DOMAIN entries
          /\ entries' \in [DOMAIN entries -> [module : Names, in_use : BOOLEAN]]
          /\ entries'[holds[t]] = [module |-> entries[holds[t]].module, in_use |-> FALSE]
          /\ \A j \in DOMAIN entries \ {holds[t]} : entries'[j] = entries[j]
      BY <2>1, <3>1, MarkFacts
    <3>3. ~entries'[holds[t]].in_use
      BY <3>2
    <3> QED
      BY <1>1, <3>2, <3>3, LetGoStep DEF Release, PoolTypeOK
  <2>2. CASE holds[t] \notin DOMAIN entries
    BY <1>1, <2>2, LetGoStep DEF Release, PoolTypeOK
  <2> QED
    BY <2>1, <2>2
<1>2. CASE ReleaseHandle(t)
  <2>1. holds[t] \in Ids
    BY <1>2 DEF ReleaseHandle, LetGo, PoolTypeOK, Ids
  <2> QED
    BY <1>2, <2>1, LetGoStep DEF ReleaseHandle, PoolTypeOK
<1> QED
  BY <1>1, <1>2

(* A second release, or destroy(): whoever held the instance lost it.      *)
LEMMA TakenFacts ==
  ASSUME PoolTypeOK, HeldInUse, NEW i \in DOMAIN entries, NEW t \in Threads, holds[t] = i
  PROVE  i \in Taken(i)
<1>1. CASE i \in taken
  BY <1>1 DEF Taken
<1>2. CASE i \notin taken
  <2>0. holds[t] \notin taken \cup {0}
    BY <1>2 DEF PoolTypeOK, Ids
  <2>1. entries[i] = [module |-> wanted[t], in_use |-> TRUE]
    BY <2>0 DEF HeldInUse
  <2>2. entries[i].in_use
    BY <2>1
  <2> QED
    BY <2>2 DEF Taken
<1> QED
  BY <1>1, <1>2

(* A step that takes one instance, or marks it idle, keeps the invariant.  *)
LEMMA TakeStep ==
  ASSUME IInv, NEW i \in DOMAIN entries, taken' = Taken(i),
         DOMAIN entries \ {i} \subseteq DOMAIN entries', DOMAIN entries' \subseteq DOMAIN entries,
         entries' \in [DOMAIN entries' -> [module : Names, in_use : BOOLEAN]],
         \A j \in DOMAIN entries \ {i} : entries'[j] = entries[j],
         i \in DOMAIN entries' => ~entries'[i].in_use,
         total_destroyed' \in Nat,
         total_created - total_destroyed' = Cardinality(DOMAIN entries'),
         UNCHANGED <<max_size, total_created, pc, wanted, holds, leaked>>
  PROVE  IInv'
<1> USE DEF IInv
<1>1. taken \subseteq taken' /\ taken' \subseteq taken \cup {i}
  BY DEF Taken
<1>2. PoolTypeOK'
  BY <1>1 DEF PoolTypeOK
<1>3. Numbered' /\ Wanting' /\ Exclusive' /\ StatsBalance'
  BY <1>1 DEF Numbered, Wanting, Exclusive, StatsBalance
<1>4. HeldInUse'
  <2> SUFFICES ASSUME NEW t \in Threads, holds'[t] \notin taken' \cup {0}
               PROVE  /\ holds'[t] \in DOMAIN entries'
                      /\ entries'[holds'[t]] = [module |-> wanted'[t], in_use |-> TRUE]
    BY DEF HeldInUse
  <2>1. holds'[t] = holds[t] /\ wanted'[t] = wanted[t] /\ holds[t] \notin taken \cup {0}
    BY <1>1
  <2>2. holds[t] # i
    BY <2>1, TakenFacts
  <2>3. /\ holds[t] \in DOMAIN entries
        /\ entries[holds[t]] = [module |-> wanted[t], in_use |-> TRUE]
    BY <2>1 DEF HeldInUse
  <2> QED
    BY <2>1, <2>2, <2>3
<1>5. InUseAccounted'
  <2> SUFFICES ASSUME NEW j \in DOMAIN entries', entries'[j].in_use
               PROVE  j \in leaked \/ \E t \in Threads : holds[t] = j
    BY DEF InUseAccounted
  <2>1. j # i /\ j \in DOMAIN entries /\ entries'[j] = entries[j]
    OBVIOUS
  <2>2. entries[j].in_use
    BY <2>1
  <2> QED
    BY <2>1, <2>2 DEF InUseAccounted
<1> QED
  BY <1>2, <1>3, <1>4, <1>5

(* A second release and destroy() keep the invariant.                      *)
LEMMA DestroyStep ==
  ASSUME IInv, NEW i \in Ids, ReleaseAgain(i) \/ Destroy(i)
  PROVE  IInv' /\ DOMAIN entries' \subseteq DOMAIN entries
<1> USE DEF IInv
<1>0. i \in DOMAIN entries /\ taken' = Taken(i)
  BY DEF ReleaseAgain, Destroy
<1>1. CASE ReleaseAgain(i)
  <2>1. entries' = Mark(i, FALSE) /\ UNCHANGED <<max_size, total_created, total_destroyed, pc, wanted, holds, leaked>>
    BY <1>1 DEF ReleaseAgain
  <2>2. /\ DOMAIN entries' = DOMAIN entries
        /\ entries' \in [DOMAIN entries -> [module : Names, in_use : BOOLEAN]]
        /\ entries'[i] = [module |-> entries[i].module, in_use |-> FALSE]
        /\ \A j \in DOMAIN entries \ {i} : entries'[j] = entries[j]
    BY <1>0, <2>1, MarkFacts
  <2>3. ~entries'[i].in_use
    BY <2>2
  <2>4. total_destroyed' \in Nat /\ total_created - total_destroyed' = Cardinality(DOMAIN entries')
    BY <2>1, <2>2 DEF PoolTypeOK, StatsBalance
  <2> QED
    BY <1>0, <2>1, <2>2, <2>3, <2>4, TakeStep
<1>2. CASE Destroy(i)
  <2>1. /\ entries' = RemoveAll({i}) /\ Count({i})
        /\ UNCHANGED <<max_size, total_created, pc, wanted, holds, leaked>>
    BY <1>2 DEF Destroy
  <2>2. /\ DOMAIN entries' = DOMAIN entries \ {i}
        /\ entries' \in [DOMAIN entries \ {i} -> [module : Names, in_use : BOOLEAN]]
        /\ \A j \in DOMAIN entries \ {i} : entries'[j] = entries[j]
        /\ Cardinality(DOMAIN entries') = Cardinality(DOMAIN entries) - Cardinality({i})
    BY <1>0, <2>1, RemoveAllSize
  <2>3. Cardinality({i}) = 1 /\ Cardinality(DOMAIN entries) \in Nat
    BY FS_Singleton, PoolFinite
  <2>4. total_destroyed' \in Nat /\ total_created - total_destroyed' = Cardinality(DOMAIN entries')
    BY <2>1, <2>2, <2>3 DEF PoolTypeOK, StatsBalance, Count
  <2> QED
    BY <1>0, <2>1, <2>2, <2>4, TakeStep
<1> QED
  BY <1>1, <1>2
-----------------------------------------------------------------------------
(* A step of the cache leaves the pool alone; of the pool, only Insert(t)  *)
(* makes it larger.                                                        *)
LEMMA NextStep ==
  ASSUME IInv, Next
  PROVE  /\ IInv'
         /\ Cardinality(DOMAIN entries') > Cardinality(DOMAIN entries)
                => Cardinality(DOMAIN entries') <= max_size
<1>0. /\ Cardinality(DOMAIN entries) \in Nat
      /\ \A S \in SUBSET DOMAIN entries : Cardinality(S) <= Cardinality(DOMAIN entries)
                                          /\ Cardinality(S) \in Nat
  BY PoolFinite, FS_Subset DEF IInv
<1> DEFINE Smaller == DOMAIN entries' \subseteq DOMAIN entries
<1>1. ASSUME UNCHANGED poolVars PROVE IInv' /\ Smaller
  BY <1>1 DEF poolVars, IInv, PoolTypeOK, Numbered, Wanting, Exclusive, HeldInUse, InUseAccounted, StatsBalance
<1>2. ASSUME NEW t \in Threads, Resolve(t) PROVE IInv' /\ Smaller
  <2>1. PICK n \in Names : Get(n) /\ wanted' = [wanted EXCEPT ![t] = n]
    BY <1>2 DEF Resolve
  <2> QED
    BY <1>2, <2>1, ThreadMoves DEF Resolve, IInv, PoolTypeOK
<1>3. ASSUME NEW t \in Threads, Miss(t) PROVE IInv' /\ Smaller
  BY <1>3, ThreadMoves DEF Miss, IInv, PoolTypeOK, Wanting
<1>4. ASSUME NEW t \in Threads, Refuse(t) PROVE IInv' /\ Smaller
  BY <1>4, ThreadMoves DEF Refuse, IInv, PoolTypeOK
<1>5. ASSUME NEW t \in Threads, Reuse(t) \/ Release(t) \/ ReleaseHandle(t) PROVE IInv' /\ Smaller
  BY <1>5, ReuseStep, ReleaseStep
<1>6. ASSUME NEW i \in Ids, ReleaseAgain(i) \/ Destroy(i) PROVE IInv' /\ Smaller
  BY <1>6, DestroyStep
<1>7. ASSUME EvictIdle \/ \E m \in Sizes : Resize(m) PROVE IInv' /\ Smaller
  <2>1. PICK S \in SUBSET Idle : entries' = RemoveAll(S) /\ Count(S)
    BY <1>7 DEF EvictIdle, Resize
  <2>2. max_size' \in Sizes /\ UNCHANGED <<total_created, pc, wanted, holds, taken, leaked>>
    BY <1>7 DEF EvictIdle, Resize, IInv, PoolTypeOK
  <2>3. DOMAIN entries' \subseteq DOMAIN entries
    BY <2>1 DEF RemoveAll
  <2> QED
    BY <2>1, <2>2, <2>3, IdleGo
<1>8. CASE \E t \in Threads : Insert(t)
  BY <1>8, InsertStep
<1>9. CASE ~\E t \in Threads : Insert(t)
  <2>1. IInv' /\ Smaller
    BY <1>1, <1>2, <1>3, <1>4, <1>5, <1>6, <1>7, <1>9 DEF Next, CacheNext, PoolNext
  <2>2. /\ Cardinality(DOMAIN entries') <= Cardinality(DOMAIN entries)
        /\ Cardinality(DOMAIN entries') \in Nat
    BY <1>0, <2>1
  <2> QED
    BY <1>0, <2>1, <2>2
<1> QED
  BY <1>8, <1>9

(* The inductive invariant of the pool (wasm-runtime/src/runtime.rs).      *)
THEOREM PoolInvariant == Spec => []IInv
<1>1. IInv /\ [Next]_vars => IInv'
  <2> SUFFICES ASSUME IInv, [Next]_vars PROVE IInv'
    OBVIOUS
  <2>1. CASE UNCHANGED vars
    BY <2>1 DEF vars, poolVars, IInv, PoolTypeOK, Numbered, Wanting, Exclusive, HeldInUse, InUseAccounted, StatsBalance
  <2> QED
    BY <2>1, NextStep
<1> QED
  BY <1>1, InitInv, PTL DEF Spec

(* An instance is in one hand, although acquire() looks under one lock and *)
(* inserts under another (instance_pool.rs:127), and it stays in the pool, *)
(* marked, whatever is evicted (:165).                                     *)
THEOREM HandlesAreExclusive == Spec => []HandlesExclusive
<1>1. IInv => HandlesExclusive
  BY DEF IInv, HandlesExclusive
<1> QED
  BY <1>1, PoolInvariant, PTL

(* A marked instance is held or was leaked by its handle                   *)
(* (instance_pool.rs:63), the statistics add up to the entries, and the    *)
(* pool does not grow beyond its limit, however stale the look that found  *)
(* no instance (instance_pool.rs:160).                                     *)
THEOREM PoolAccountsHold == Spec => PoolAccounts
<1> DEFINE A == Cardinality(DOMAIN entries') > Cardinality(DOMAIN entries)
                    => Cardinality(DOMAIN entries') <= max_size
           B == InUseAccounted /\ StatsBalance
<1>1. IInv => B
  BY DEF IInv
<1>2. IInv /\ [Next]_vars => [A]_vars
  BY NextStep
<1>3. Spec => []B /\ [][A]_vars
  <2> HIDE DEF A, B
  <2> QED
    BY <1>1, <1>2, PoolInvariant, PTL DEF Spec
<1> QED
  BY <1>3 DEF PoolAccounts

-----------------------------------------------------------------------------
(* The cache.  OrderAgrees says nothing once a load has come between the   *)
(* halves of a clear().  What then still bounds the cache: but for such    *)
(* loads the order mentions every module, a mention without a module is    *)
(* gone when the clear() is, and while it is not every module was loaded   *)
(* in its middle.                                                          *)
Mentioned == {access[k] : k \in DOMAIN access}

CacheTypes ==
    /\ modules \subseteq Names /\ access \in Seq(Names)
    /\ overlaps \in Nat

CacheInv ==
    /\ CacheTypes /\ OrderAgrees /\ CapacityKept
    /\ Cardinality(modules \ Mentioned) <= overlaps
    /\ IF clearing = {} THEN Mentioned \subseteq modules ELSE Cardinality(modules) <= overlaps

USE ModuleCacheAssumption DEF ModuleCacheAssumption

(* What the order mentions when names have left it, and one was appended.  *)
LEMMA WithoutMentions ==
  ASSUME CacheTypes, NEW S, NEW n \in Names
  PROVE  /\ Without(access, S) \in Seq(Names) /\ Append(Without(access, S), n) \in Seq(Names)
         /\ access' = Without(access, S) => Mentioned' = Mentioned \ S
         /\ access' = Append(Without(access, S), n) => Mentioned' = (Mentioned \ S) \cup {n}
<1> DEFINE w == Without(access, S)
<1>1. access \in Seq(Names)
  BY DEF CacheTypes
<1>2. w \in Seq(Names) /\ \A e : Contains(w, e) <=> Contains(access, e) /\ e \in Names \ S
  BY <1>1, RetainContains DEF Without
<1> HIDE DEF w
<1>3. Append(w, n) \in Seq(Names) /\ \A e : Contains(Append(w, n), e) <=> e = n \/ Contains(w, e)
  BY <1>2, AppendContains
<1>4. \A s \in Seq(Names) : \A e : Contains(s, e) <=> e \in {s[k] : k \in DOMAIN s}
  BY DEF Contains
<1>5. \A e : e \in Mentioned <=> Contains(access, e)
  BY <1>1, <1>4 DEF Mentioned
<1>6. Mentioned \subseteq Names
  BY <1>1 DEF Mentioned
<1>7. ASSUME access' = w
      PROVE  Mentioned' = Mentioned \ S
  <2>1. \A e : e \in Mentioned' <=> Contains(w, e)
    BY <1>2, <1>4, <1>7 DEF Mentioned
  <2> QED BY <2>1, <1>2, <1>5, <1>6
<1>8. ASSUME access' = Append(w, n)
      PROVE  Mentioned' = (Mentioned \ S) \cup {n}
  <2>1. \A e : e \in Mentioned' <=> Contains(Append(w, n), e)
    BY <1>3, <1>4, <1>8 DEF Mentioned
  <2> QED BY <2>1, <1>2, <1>3, <1>5, <1>6
<1> QED BY <1>2, <1>3, <1>7, <1>8 DEF w

(* Sets of names are finite; a smaller one has no more names, and one name *)
(* more makes at most one more.                                            *)
LEMMA NameSets ==
  /\ \A S \in SUBSET Names : IsFiniteSet(S) /\ Cardinality(S) \in Nat
  /\ \A S, T \in SUBSET Names : S \subseteq T => Cardinality(S) <= Cardinality(T)
  /\ \A S \in SUBSET Names, n \in Names : Cardinality(S \cup {n}) <= Cardinality(S) + 1
  /\ \A S \in SUBSET Names : \A n \in S : Cardinality(S \ {n}) = Cardinality(S) - 1
  /\ Cardinality({}) = 0
<1>1. \A S \in SUBSET Names : IsFiniteSet(S) /\ Cardinality(S) \in Nat
  BY FS_Subset, FS_CardinalityType
<1>2. \A S, T \in SUBSET Names : S \subseteq T => Cardinality(S) <= Cardinality(T)
  BY <1>1, FS_Subset
<1>3. ASSUME NEW S \in SUBSET Names, NEW n \in Names
      PROVE  Cardinality(S \cup {n}) <= Cardinality(S) + 1
  <2>1. CASE n \in S
    <3>1. S \cup {n} = S
      BY <2>1
    <3> QED BY <3>1, <1>1
  <2>2. CASE n \notin S
    BY <2>2, <1>1, FS_AddElement
  <2> QED BY <2>1, <2>2
<1> QED BY <1>1, <1>2, <1>3, FS_RemoveElement, FS_EmptySet

(* load() evicts a module that is there, or there is room, or a clear() is *)
(* half done and the load is counted.                                      *)
LEMMA LoadKeeps ==
  ASSUME CacheInv, NEW t \in Threads, NEW n \in Names, Load(t, n)
  PROVE  CacheInv'
<1> USE DEF CacheInv
<1>1. /\ modules' = (modules \ Victims) \cup {n} /\ access' = Append(Without(access, Victims), n)
      /\ overlaps' = (IF clearing # {} THEN overlaps + 1 ELSE overlaps) /\ clearing' = clearing
  BY DEF Load
<1>2. access' \in Seq(Names) /\ Mentioned' = (Mentioned \ Victims) \cup {n}
  BY <1>1, WithoutMentions
<1>3. modules \subseteq Names /\ modules \ Victims \in SUBSET Names /\ overlaps \in Nat
      /\ Cardinality(modules) \in Nat /\ capacity \in Nat
  BY NameSets DEF CacheTypes
<1>4. CacheTypes'
  BY <1>1, <1>2, <1>3 DEF CacheTypes
<1>5. OrderAgrees'
  <2> SUFFICES ASSUME overlaps' = 0
               PROVE  clearing = {} /\ modules' = Mentioned'
    BY <1>1 DEF OrderAgrees, Mentioned
  <2>1. clearing = {} /\ overlaps = 0
    BY <1>1, <1>3
  <2>2. modules = Mentioned
    BY <2>1 DEF OrderAgrees, Mentioned
  <2> QED BY <2>1, <2>2, <1>1, <1>2
<1>6. Cardinality(modules' \ Mentioned') <= overlaps'
  <2>1. modules' \ Mentioned' \subseteq modules \ Mentioned
    BY <1>1, <1>2
  <2>2. Cardinality(modules' \ Mentioned') <= Cardinality(modules \ Mentioned)
    BY <2>1, <1>3, NameSets
  <2>3. Cardinality(modules' \ Mentioned') \in Nat /\ Cardinality(modules \ Mentioned) \in Nat
    BY <2>1, <1>3, NameSets
  <2> QED BY <2>2, <2>3, <1>1, <1>3
<1>7. Cardinality(modules') <= Cardinality(modules \ Victims) + 1 /\ Cardinality(modules') \in Nat
      /\ Cardinality(modules \ Victims) <= Cardinality(modules) /\ Cardinality(modules \ Victims) \in Nat
  BY <1>1, <1>3, NameSets
<1>8. CASE clearing # {}
  <2>1. Cardinality(modules) <= overlaps /\ overlaps' = overlaps + 1
    BY <1>8, <1>1
  <2>2. Cardinality(modules') <= overlaps'
    BY <2>1, <1>3, <1>7
  <2> QED BY <2>1, <2>2, <1>1, <1>3, <1>4, <1>5, <1>6, <1>7, <1>8 DEF CapacityKept
<1>9. CASE clearing = {}
  <2>1. Mentioned' \subseteq modules' /\ overlaps' = overlaps /\ Mentioned \subseteq modules
    BY <1>1, <1>2, <1>9
  <2>2. Cardinality(modules') <= capacity + overlaps'
    <3>1. CASE Cardinality(modules) < capacity
      BY <3>1, <2>1, <1>3, <1>7
    <3>2. CASE Cardinality(modules) >= capacity /\ access # <<>>
      <4>1. Victims = {Head(access)} /\ Head(access) \in Mentioned
        BY <3>2 DEF Victims, Mentioned, CacheTypes
      <4>2. Cardinality(modules \ Victims) = Cardinality(modules) - 1
        BY <4>1, <2>1, <1>3, NameSets
      <4> QED BY <4>2, <2>1, <1>3, <1>7 DEF CapacityKept
    <3>3. CASE access = <<>>
      <4>1. modules \ Mentioned = modules
        BY <3>3 DEF Mentioned
      <4> QED BY <4>1, <2>1, <1>3, <1>7
    <3> QED BY <3>1, <3>2, <3>3, <1>3
  <2> QED BY <2>1, <2>2, <1>1, <1>4, <1>5, <1>6, <1>9 DEF CapacityKept
<1> QED BY <1>8, <1>9

(* Names leave the map and the order together.                             *)
LEMMA ForgetKeeps ==
  ASSUME CacheInv, NEW t \in Threads, NEW S, Forget(t, S), NEW n \in Names
  PROVE  CacheInv'
<1> USE DEF CacheInv
<1>1. modules' = modules \ S /\ access' = Without(access, S) /\ overlaps' = overlaps /\ clearing' = clearing
  BY DEF Forget
<1>2. access' \in Seq(Names) /\ Mentioned' = Mentioned \ S
  BY <1>1, WithoutMentions
<1>3. modules \in SUBSET Names /\ modules' \in SUBSET Names /\ overlaps \in Nat /\ capacity \in Nat
  BY <1>1 DEF CacheTypes
<1>4. modules' \subseteq modules /\ modules' \ Mentioned' \subseteq modules \ Mentioned
  BY <1>1, <1>2
<1>5. /\ Cardinality(modules') <= Cardinality(modules)
      /\ Cardinality(modules' \ Mentioned') <= Cardinality(modules \ Mentioned)
  BY <1>3, <1>4, NameSets
<1>6. /\ Cardinality(modules') \in Nat /\ Cardinality(modules) \in Nat
      /\ Cardinality(modules' \ Mentioned') \in Nat /\ Cardinality(modules \ Mentioned) \in Nat
  BY <1>3, NameSets
<1>7. CacheTypes'
  BY <1>1, <1>2, <1>3 DEF CacheTypes
<1>8. OrderAgrees'
  BY <1>1, <1>2 DEF OrderAgrees, Mentioned
<1>9. CapacityKept'
  BY <1>1, <1>3, <1>5, <1>6 DEF CapacityKept
<1>10. Cardinality(modules' \ Mentioned') <= overlaps'
  BY <1>1, <1>3, <1>5, <1>6
<1>11. IF clearing' = {} THEN Mentioned' \subseteq modules' ELSE Cardinality(modules') <= overlaps'
  BY <1>1, <1>2, <1>3, <1>5, <1>6
<1> QED BY <1>7, <1>8, <1>9, <1>10, <1>11

(* get() moves a name to the end of the order.                             *)
LEMMA GetKeeps ==
  ASSUME CacheInv, NEW n \in Names, Get(n)
  PROVE  CacheInv'
<1> USE DEF CacheInv
<1>1. n \in modules /\ access' = Append(Without(access, {n}), n) /\ UNCHANGED <<modules, clearing, overlaps>>
  BY DEF Get
<1>2. access' \in Seq(Names) /\ Mentioned' = Mentioned \cup {n}
  <2>1. PICK S : S = {n}
    OBVIOUS
  <2>2. access' = Append(Without(access, S), n) /\ CacheTypes
    BY <1>1, <2>1
  <2>3. /\ Append(Without(access, S), n) \in Seq(Names)
        /\ access' = Append(Without(access, S), n) => Mentioned' = (Mentioned \ S) \cup {n}
    BY <2>2, WithoutMentions
  <2>4. access' \in Seq(Names) /\ Mentioned' = (Mentioned \ S) \cup {n}
    BY <2>2, <2>3
  <2> QED BY <2>1, <2>4
<1>3. modules \in SUBSET Names /\ overlaps \in Nat
  BY DEF CacheTypes
<1>4. CacheTypes' /\ CapacityKept'
  BY <1>1, <1>2 DEF CacheTypes, CapacityKept
<1>5. OrderAgrees'
  <2> SUFFICES ASSUME overlaps = 0
               PROVE  clearing = {} /\ modules = Mentioned'
    BY <1>1 DEF OrderAgrees, Mentioned
  <2> QED BY <1>1, <1>2 DEF OrderAgrees, Mentioned
<1>6. Cardinality(modules' \ Mentioned') <= overlaps'
  <2>1. modules' \ Mentioned' \subseteq modules \ Mentioned
    BY <1>1, <1>2
  <2>2. Cardinality(modules' \ Mentioned') <= Cardinality(modules \ Mentioned)
    BY <2>1, <1>3, NameSets
  <2>3. Cardinality(modules' \ Mentioned') \in Nat /\ Cardinality(modules \ Mentioned) \in Nat
    BY <2>1, <1>3, NameSets
  <2> QED BY <2>2, <2>3, <1>1, <1>3
<1>7. IF clearing' = {} THEN Mentioned' \subseteq modules' ELSE Cardinality(modules') <= overlaps'
  BY <1>1, <1>2
<1> QED BY <1>4, <1>5, <1>6, <1>7

(* The two halves of clear().                                              *)
LEMMA ClearKeeps ==
  ASSUME CacheInv, NEW t \in Threads, ClearModules(t) \/ ClearAccess(t)
  PROVE  CacheInv'
<1> USE DEF CacheInv
<1>0. overlaps \in Nat /\ capacity \in Nat /\ Cardinality({}) = 0
  BY NameSets DEF CacheTypes
<1>1. CASE ClearModules(t)
  <2>1. modules' = {} /\ clearing' # {} /\ UNCHANGED <<access, overlaps>> /\ Mentioned' = Mentioned
    BY <1>1 DEF ClearModules, Mentioned
  <2>2. CacheTypes' /\ OrderAgrees' /\ CapacityKept'
    BY <2>1, <1>0 DEF CacheTypes, OrderAgrees, CapacityKept
  <2>3. modules' \ Mentioned' = {}
    BY <2>1
  <2>4. Cardinality(modules' \ Mentioned') <= overlaps' /\ Cardinality(modules') <= overlaps'
    BY <2>1, <2>3, <1>0
  <2> QED BY <2>1, <2>2, <2>4
<1>2. CASE ClearAccess(t)
  <2>1. access' = <<>> /\ clearing # {} /\ UNCHANGED <<modules, overlaps>>
    BY <1>2 DEF ClearAccess
  <2>2. Mentioned' = {}
    BY <2>1 DEF Mentioned
  <2>3. Cardinality(modules) <= overlaps /\ modules' \ Mentioned' = modules
    BY <2>1, <2>2
  <2>4. OrderAgrees'
    <3> SUFFICES ASSUME overlaps = 0 PROVE modules = {}
      BY <2>1, <2>2 DEF OrderAgrees, Mentioned
    <3> QED BY <2>1 DEF OrderAgrees
  <2>5. CacheTypes' /\ CapacityKept'
    <3>1. <<>> \in Seq(Names)
      OBVIOUS
    <3> QED BY <3>1, <2>1 DEF CacheTypes, CapacityKept
  <2> QED BY <2>1, <2>2, <2>3, <2>4, <2>5
<1> QED BY <1>1, <1>2

(* Each operation of the module cache keeps its invariant.                 *)
LEMMA CacheStepKeeps ==
  ASSUME CacheInv, NEW t \in Threads, CacheStep(t)
  PROVE  CacheInv'
<1>1. ASSUME NEW n \in Names, Load(t, n)
      PROVE  CacheInv'
  BY <1>1, LoadKeeps
<1>2. ASSUME NEW n \in Names, Forget(t, {n})
      PROVE  CacheInv'
  BY <1>2, ForgetKeeps
<1>3. ASSUME NEW n \in Names, Get(n)
      PROVE  CacheInv'
  BY <1>3, GetKeeps
<1>4. ASSUME NEW S \in SUBSET modules, S # {}, Forget(t, S)
      PROVE  CacheInv'
  <2>1. PICK n \in Names : TRUE
    BY <1>4 DEF CacheInv, CacheTypes
  <2> QED BY <2>1, <1>4, ForgetKeeps
<1> QED BY <1>1, <1>2, <1>3, <1>4, ClearKeeps DEF CacheStep

(* acquire() reaches the cache through get() alone.                        *)
LEMMA CacheKept == CacheInv /\ [Next]_vars => CacheInv'
<1> SUFFICES ASSUME CacheInv, [Next]_vars
             PROVE  CacheInv'
  OBVIOUS
<1>1. CASE UNCHANGED cacheVars
  BY <1>1 DEF cacheVars, CacheInv, CacheTypes, OrderAgrees, CapacityKept, Mentioned
<1>2. CASE CacheNext
  BY <1>2, CacheStepKeeps DEF CacheNext
<1>3. ASSUME NEW t \in Threads, Resolve(t)
      PROVE  CacheInv'
  BY <1>3, GetKeeps DEF Resolve
<1> QED BY <1>1, <1>2, <1>3 DEF Next, PoolNext, vars, Reuse, Miss, Refuse, Insert, Release, ReleaseHandle,
     LetGo, ReleaseAgain, Destroy, EvictIdle, Resize

(* The order of the cache mentions the modules there are, and the capacity *)
(* is exceeded by no more than the loads that came between the halves of a *)
(* clear() (modules.rs:159).                                               *)
THEOREM CacheStaysSound == Spec => []CacheSound
<1>1. Init => CacheInv
  <2> SUFFICES ASSUME Init PROVE CacheInv
    OBVIOUS
  <2>1. modules = {} /\ access = <<>> /\ clearing = {} /\ overlaps = 0 /\ Mentioned = {}
    BY DEF Init, CacheInit, Mentioned
  <2>2. Cardinality({}) = 0 /\ modules \ Mentioned = {} /\ capacity \in Nat
    BY <2>1, NameSets
  <2>3. CacheTypes
    <3>1. <<>> \in Seq(Names)
      OBVIOUS
    <3> QED BY <3>1, <2>1 DEF CacheTypes
  <2> QED BY <2>1, <2>2, <2>3 DEF CacheInv, OrderAgrees, CapacityKept, Mentioned
<1>2. CacheInv => CacheSound
  BY DEF CacheInv, CacheSound
<1> QED BY <1>1, <1>2, CacheKept, PTL DEF Spec

-----------------------------------------------------------------------------
(* The tiered cache.  The invariant says why writes that overlap leave all *)
(* tiers with the latest value: they pass the tiers in the order they      *)
(* began.  A writer that no other is behind has the latest value           *)
(* (LastWriter); a tier that no writer is still to reach holds it          *)
(* (Settled), for the writer that reached it last has nobody behind it;    *)
(* and a value on its way back to redis is the latest, or a writer waits   *)
(* there behind it (Promotes).  All this is lost when a tier serves or     *)
(* answers out of order, when a writer dies, and when a get() puts into    *)
(* memory what it read before a later write: these the history variables   *)
(* faulted and raced record.                                               *)

HIDE InstancePoolAssumption DEF InstancePoolAssumption

\* The adapter of tier t is configured.
Has(t) == (t = "redis" /\ HasRedis) \/ (t = "disk" /\ HasDisk)

\* Why a value is gone
Reasons == {"deleted", "expired"}

\* Requests and calls go together, and no call has two.
Channelled ==
    /\ channel \in [Tier -> Seq(Clients)] /\ \A t \in Tier : IsInjective(channel[t])
    /\ \A t \in Tier, c \in Clients : Contains(channel[t], c) <=> t = TierAt(call[c].at)

\* What is kept of a call
Records == [op : {"none", "get", "set", "delete"}, at : Awaits \cup {"none"}, val : Values \cup {None},
            clean : BOOLEAN, gone : SUBSET (Values \X Reasons)]

\* What a call may await, and knows
Proper(rec) ==
    /\ rec \in Records
    /\ rec.op = "none" <=> rec.at = "none"
    /\ rec.at # "none" => Has(TierAt(rec.at))
    /\ rec.at = "promote" => rec.op = "get" /\ rec.val # None
    /\ rec.op = "set" => rec.val # None
    /\ rec.op = "delete" => rec.val = None

\* Every call awaits what it may.
Called == call \in [Clients -> Records] /\ \A c \in Clients : Proper(call[c])

\* What the tiers and the answers may be
Stored ==
    /\ memory \in Entry \cup {None} /\ tier \in [Tier -> Entry \cup {None}]
    /\ stage \in [Values -> 0 .. 3] /\ answer \in [Clients -> {"none", "ok", "error"}]
    /\ raced \in BOOLEAN /\ faulted \in BOOLEAN
    /\ \A t \in Tier : ~Has(t) => tier[t] = None

\* What a call knows to be gone, and what its delete() will have deleted
Informed(rec) ==
    /\ rec.op = "get" => \A v \in Values : <<v, "deleted">> \in rec.gone => v \in deleted
    /\ rec.op # "get" => rec.gone \subseteq (written \ {latest}) \X {"deleted"}

\* The histories agree: what is deleted is not the latest.
Recalled ==
    /\ written \subseteq Values /\ deleted \subseteq written \ {latest} /\ latest \in written \cup {None}
    /\ \A c \in Clients : Informed(call[c])

\* The call of d comes to a tier after that of c.
Behind(d, c) == \/ \E t \in Tier : Precedes(channel[t], c, d)
                \/ call[c].at = "disk" /\ call[d].at = "redis"

\* The writer c has still to act at tier t.
Pending(t, c) == /\ c \in Writers
                 /\ \/ call[c].at = t /\ answer[c] = "none"
                    \/ t = "disk" /\ call[c].at = "redis"

\* e is what the latest write leaves.
Holds(e) == (e = None /\ latest = None) \/ (e \in Entry /\ e.val = latest)

\* An adapter acts on requests in the order they came.
ServedInOrder == \A t \in Tier, c, d \in Clients :
    Precedes(channel[t], c, d) /\ answer[d] # "none" => answer[c] # "none"

\* Whom no writer is behind began last.
LastWriter == \A c \in Writers : (\A d \in Writers : ~Behind(d, c)) => call[c].val = latest

\* A tier that no writer is still to reach is up to date.
Settled == \A t \in Tier : Has(t) /\ (\A c \in Writers : ~Pending(t, c)) => Holds(tier[t])

\* What is promoted is the latest, or will be overwritten.
Promotes == \A c \in Clients : call[c].at = "promote" /\ answer[c] = "none" =>
    call[c].val = latest \/ \E d \in Writers : Precedes(channel["redis"], c, d)

\* What a get() read that no write overtook, and what it promotes
Clean(rec) ==
    /\ rec.op = "get" /\ rec.clean => Writers = {} /\ (rec.val # None => rec.val = latest)
    /\ rec.at = "promote" => <<rec.val, "deleted">> \notin rec.gone

\* Memory may also be empty.
Kept(e) == e = None \/ Holds(e)

\* No get() was served what had been deleted.
Undeleted == \A g \in misserved : g[2] # "deleted"

\* What holds while nothing misbehaved
Sound ==
    /\ ServedInOrder /\ LastWriter /\ Settled /\ Promotes
    /\ Kept(memory) /\ Undeleted /\ \A c \in Clients : Clean(call[c])

TiersInv == Channelled /\ Called /\ Stored /\ Recalled /\ (~raced /\ ~faulted => Sound)
-----------------------------------------------------------------------------
(* What an Append adds comes last.                                         *)
LEMMA AppendPrecedes ==
    ASSUME NEW S, NEW s \in Seq(S), NEW e \in S
    PROVE  \A x, y : Precedes(Append(s, e), x, y) <=> Precedes(s, x, y) \/ (y = e /\ Contains(s, x))
<1> DEFINE t == Append(s, e)
<1>1. /\ Len(s) \in Nat /\ DOMAIN s = 1 .. Len(s) /\ DOMAIN t = 1 .. Len(s) + 1
      /\ t[Len(s) + 1] = e /\ \A i \in 1 .. Len(s) : t[i] = s[i]
  OBVIOUS
<1> HIDE DEF t
<1> SUFFICES ASSUME NEW x, NEW y
             PROVE  Precedes(t, x, y) <=> Precedes(s, x, y) \/ (y = e /\ Contains(s, x))
  BY DEF t
<1>2. ASSUME Precedes(t, x, y)
      PROVE  Precedes(s, x, y) \/ (y = e /\ Contains(s, x))
  <2>1. PICK i \in 1 .. Len(s) + 1, j \in 1 .. Len(s) + 1 : i < j /\ t[i] = x /\ t[j] = y
    BY <1>1, <1>2 DEF Precedes
  <2>2. i \in 1 .. Len(s) /\ s[i] = x
    BY <2>1, <1>1
  <2>3. CASE j = Len(s) + 1
    BY <2>1, <2>2, <2>3, <1>1 DEF Contains
  <2>4. CASE j # Len(s) + 1
    <3>1. j \in 1 .. Len(s) /\ s[j] = y
      BY <2>1, <2>4, <1>1
    <3> QED BY <2>1, <2>2, <3>1, <1>1 DEF Precedes
  <2> QED BY <2>3, <2>4
<1>3. ASSUME Precedes(s, x, y)
      PROVE  Precedes(t, x, y)
  <2>1. PICK i \in 1 .. Len(s), j \in 1 .. Len(s) : i < j /\ s[i] = x /\ s[j] = y
    BY <1>1, <1>3 DEF Precedes
  <2>2. i \in 1 .. Len(s) + 1 /\ j \in 1 .. Len(s) + 1 /\ t[i] = x /\ t[j] = y
    BY <2>1, <1>1
  <2> QED BY <2>1, <2>2, <1>1 DEF Precedes
<1>4. ASSUME y = e, Contains(s, x)
      PROVE  Precedes(t, x, y)
  <2>1. PICK i \in 1 .. Len(s) : s[i] = x
    BY <1>4 DEF Contains
  <2>2. i \in 1 .. Len(s) + 1 /\ Len(s) + 1 \in 1 .. Len(s) + 1 /\ i < Len(s) + 1 /\ t[i] = x
    BY <2>1, <1>1
  <2> QED BY <2>2, <1>1, <1>4 DEF Precedes
<1> QED BY <1>2, <1>3, <1>4

(* What is retained keeps its order.                                       *)
LEMMA RetainPrecedes ==
    ASSUME NEW S, NEW T
    PROVE  \A s \in Seq(S) : \A x, y : Precedes(Retain(s, T), x, y) <=> Precedes(s, x, y) /\ x \in T /\ y \in T
<1> DEFINE G == {s \in Seq(S) : \A x, y : Precedes(Retain(s, T), x, y) <=> Precedes(s, x, y) /\ x \in T /\ y \in T}
<1>1. <<>> \in G
  <2>1. \A x, y : ~Precedes(<<>>, x, y)
    BY DEF Precedes
  <2> QED BY <2>1, RetainEmpty
<1>2. ASSUME NEW s \in Seq(S), NEW e \in S, s \in G
      PROVE  Append(s, e) \in G
  <2> SUFFICES ASSUME NEW x, NEW y
               PROVE  Precedes(Retain(Append(s, e), T), x, y) <=> Precedes(Append(s, e), x, y) /\ x \in T /\ y \in T
    OBVIOUS
  <2>1. Precedes(Retain(s, T), x, y) <=> Precedes(s, x, y) /\ x \in T /\ y \in T
    BY <1>2
  <2>2. Precedes(Append(s, e), x, y) <=> Precedes(s, x, y) \/ (y = e /\ Contains(s, x))
    BY AppendPrecedes
  <2>3. Retain(s, T) \in Seq(S) /\ (Contains(Retain(s, T), x) <=> Contains(s, x) /\ x \in T)
    BY RetainContains
  <2>4. CASE e \in T
    <3>1. Retain(Append(s, e), T) = Append(Retain(s, T), e)
      BY <2>4, RetainAppend
    <3>2. Precedes(Append(Retain(s, T), e), x, y) <=> Precedes(Retain(s, T), x, y) \/ (y = e /\ Contains(Retain(s, T), x))
      BY <2>3, AppendPrecedes
    <3> QED BY <3>1, <3>2, <2>1, <2>2, <2>3, <2>4
  <2>5. CASE e \notin T
    <3>1. Retain(Append(s, e), T) = Retain(s, T)
      BY <2>5, RetainAppend
    <3> QED BY <3>1, <2>1, <2>2, <2>5
  <2> QED BY <2>4, <2>5
<1> HIDE DEF G
<1>3. Seq(S) \subseteq G
  BY <1>1, <1>2, SequenceInduction
<1> QED BY <1>3 DEF G

(* Nothing comes before the first, and of two neither is before itself.    *)
LEMMA FirstPrecedes ==
    ASSUME NEW S, NEW s \in Seq(S), IsInjective(s)
    PROVE  /\ \A x : ~Precedes(s, x, s[1])
           /\ \A x, y : Precedes(s, x, y) => x # y /\ Contains(s, x) /\ Contains(s, y)
<1>1. DOMAIN s = 1 .. Len(s) /\ Len(s) \in Nat
  OBVIOUS
<1>2. \A i, j \in 1 .. Len(s) : s[i] = s[j] => i = j
  BY <1>1 DEF IsInjective
<1>3. ASSUME NEW x, NEW y, Precedes(s, x, y)
      PROVE  x # y /\ Contains(s, x) /\ Contains(s, y) /\ y # s[1]
  <2>1. PICK i \in 1 .. Len(s), j \in 1 .. Len(s) : i < j /\ s[i] = x /\ s[j] = y
    BY <1>1, <1>3 DEF Precedes
  <2>2. 1 \in 1 .. Len(s) /\ j # 1 /\ i # j
    BY <2>1, <1>1
  <2> QED BY <2>1, <2>2, <1>2 DEF Contains
<1> QED BY <1>3

-----------------------------------------------------------------------------
\* The channels without the request of c
Freed(f, c) ==
    /\ f \in [Tier -> Seq(Clients)] /\ \A t \in Tier : IsInjective(f[t])
    /\ \A t \in Tier : \A x : Contains(f[t], x) <=> x # c /\ Contains(channel[t], x)
    /\ \A t \in Tier : \A x, y : Precedes(f[t], x, y) <=> x # c /\ y # c /\ Precedes(channel[t], x, y)

\* The call of c goes on, its request taken from f.
Moves(c, f, at) ==
    IF at = "none" THEN channel' = f ELSE channel' = [f EXCEPT ![TierAt(at)] = Append(@, c)]

(* Every element of a sequence is of its set.                              *)
LEMMA ContainsIn ==
    ASSUME NEW S, NEW s \in Seq(S), NEW x, Contains(s, x)
    PROVE  x \in S
  BY DEF Contains

(* An answered request is taken off its channel.                           *)
LEMMA RestFreed ==
    ASSUME Channelled, NEW t \in Tier, NEW c \in Clients, Contains(channel[t], c)
    PROVE  Freed(Rest(t, c), c)
<1>1. /\ channel \in [Tier -> Seq(Clients)] /\ \A u \in Tier : IsInjective(channel[u])
      /\ \A u \in Tier : Contains(channel[u], c) => u = t
  BY DEF Channelled
<1> DEFINE f == Rest(t, c)
<1>2. f[t] = Retain(channel[t], Clients \ {c}) /\ \A u \in Tier \ {t} : f[u] = channel[u]
  BY <1>1 DEF Rest
<1>3. Retain(channel[t], Clients \ {c}) \in Seq(Clients) /\ IsInjective(Retain(channel[t], Clients \ {c}))
  BY <1>1, RetainContains, RetainInjective
<1>4. f \in [Tier -> Seq(Clients)]
  BY <1>1, <1>3 DEF Rest
<1> HIDE DEF f
<1>5. ASSUME NEW u \in Tier
      PROVE  /\ IsInjective(f[u])
             /\ \A x : Contains(f[u], x) <=> x # c /\ Contains(channel[u], x)
             /\ \A x, y : Precedes(f[u], x, y) <=> x # c /\ y # c /\ Precedes(channel[u], x, y)
  <2>1. /\ channel[u] \in Seq(Clients) /\ IsInjective(channel[u])
        /\ \A x : Contains(channel[u], x) => x \in Clients
    BY <1>1, ContainsIn
  <2>2. \A x, y : Precedes(channel[u], x, y) => x # y /\ Contains(channel[u], x) /\ Contains(channel[u], y)
    BY <2>1, FirstPrecedes
  <2>3. CASE u = t
    <3>1. \A x : Contains(Retain(channel[t], Clients \ {c}), x) <=> Contains(channel[t], x) /\ x \in Clients \ {c}
      BY <1>1, RetainContains
    <3>2. \A x, y : Precedes(Retain(channel[t], Clients \ {c}), x, y) <=>
                      Precedes(channel[t], x, y) /\ x \in Clients \ {c} /\ y \in Clients \ {c}
      BY <1>1, RetainPrecedes
    <3> QED BY <2>1, <2>2, <2>3, <3>1, <3>2, <1>2, <1>3
  <2>4. CASE u # t
    <3>1. f[u] = channel[u] /\ ~Contains(channel[u], c)
      BY <2>4, <1>1, <1>2
    <3> QED BY <2>1, <2>2, <3>1
  <2> QED BY <2>3, <2>4
<1> QED BY <1>4, <1>5 DEF Freed, f

(* An idle client has no request.                                          *)
LEMMA IdleFreed ==
    ASSUME Channelled, NEW c \in Clients, call[c].at = "none"
    PROVE  Freed(channel, c)
<1>1. /\ channel \in [Tier -> Seq(Clients)] /\ \A u \in Tier : IsInjective(channel[u])
      /\ \A u \in Tier : ~Contains(channel[u], c)
  BY DEF Channelled, TierAt, Tier
<1>2. \A u \in Tier : \A x, y : Precedes(channel[u], x, y) => x # y /\ Contains(channel[u], x) /\ Contains(channel[u], y)
  BY <1>1, FirstPrecedes
<1> QED BY <1>1, <1>2 DEF Freed

\* The order of requests after the move
Shifted(c, at) == \A t \in Tier : \A x, y :
    Precedes(channel'[t], x, y) <=> \/ x # c /\ y # c /\ Precedes(channel[t], x, y)
                                    \/ t = TierAt(at) /\ x # c /\ y = c /\ Contains(channel[t], x)

(* A call goes on to wait at the end of another channel, or has ended.     *)
LEMMA MoveFacts ==
    ASSUME Channelled, NEW c \in Clients, NEW f, Freed(f, c), NEW at \in Awaits \cup {"none"}, Moves(c, f, at),
           call'[c].at = at, \A x \in Clients \ {c} : call'[x].at = call[x].at
    PROVE  Channelled' /\ Shifted(c, at)
<1>1. /\ f \in [Tier -> Seq(Clients)] /\ \A t \in Tier : IsInjective(f[t])
      /\ \A t \in Tier : \A x : Contains(f[t], x) <=> x # c /\ Contains(channel[t], x)
      /\ \A t \in Tier : \A x, y : Precedes(f[t], x, y) <=> x # c /\ y # c /\ Precedes(channel[t], x, y)
  BY DEF Freed
<1>2. \A t \in Tier, x \in Clients : Contains(channel[t], x) <=> t = TierAt(call[x].at)
  BY DEF Channelled
<1>3. CASE at = "none"
  <2>1. channel' = f
    BY <1>3 DEF Moves
  <2>2. TierAt(at) \notin Tier
    BY <1>3 DEF TierAt, Tier
  <2>3. Channelled'
    BY <2>1, <2>2, <1>1, <1>2 DEF Channelled
  <2> QED BY <2>1, <2>2, <2>3, <1>1 DEF Shifted
<1>4. CASE at # "none"
  <2>1. TierAt(at) \in Tier
    BY <1>4 DEF TierAt, Tier, Awaits
  <2>2. PICK u \in Tier : u = TierAt(at)
    BY <2>1
  <2>3. channel' = [f EXCEPT ![u] = Append(@, c)]
    BY <2>2, <1>4 DEF Moves
  <2>4. /\ Append(f[u], c) \in Seq(Clients)
        /\ \A x : Contains(Append(f[u], c), x) <=> x = c \/ Contains(f[u], x)
        /\ IsInjective(Append(f[u], c))
    <3>1. f[u] \in Seq(Clients) /\ IsInjective(f[u]) /\ ~Contains(f[u], c)
      BY <1>1
    <3> QED BY <3>1, AppendContains
  <2>5. \A x, y : Precedes(Append(f[u], c), x, y) <=> Precedes(f[u], x, y) \/ (y = c /\ Contains(f[u], x))
    BY <1>1, AppendPrecedes
  <2>6. /\ channel' \in [Tier -> Seq(Clients)] /\ channel'[u] = Append(f[u], c)
        /\ \A t \in Tier \ {u} : channel'[t] = f[t]
    BY <2>3, <2>4, <1>1
  <2>7. \A t \in Tier : IsInjective(channel'[t])
    BY <2>4, <2>6, <1>1
  <2>8. ASSUME NEW t \in Tier, NEW x \in Clients
        PROVE  Contains(channel'[t], x) <=> t = TierAt(call'[x].at)
    <3>1. Contains(channel'[t], x) <=> (t = u /\ x = c) \/ (x # c /\ Contains(channel[t], x))
      <4>1. Contains(f[t], x) <=> x # c /\ Contains(channel[t], x)
        BY <1>1
      <4>2. CASE t = u
        BY <4>1, <4>2, <2>4, <2>6
      <4>3. CASE t # u
        BY <4>1, <4>3, <2>6
      <4> QED BY <4>2, <4>3
    <3>2. CASE x = c
      BY <3>1, <3>2, <2>2
    <3>3. CASE x # c
      <4>1. call'[x].at = call[x].at
        BY <3>3
      <4>2. Contains(channel[t], x) <=> t = TierAt(call[x].at)
        BY <1>2
      <4> QED BY <3>1, <3>3, <4>1, <4>2
    <3> QED BY <3>2, <3>3
  <2>9. Shifted(c, at)
    <3> SUFFICES ASSUME NEW t \in Tier, NEW x, NEW y
                 PROVE  Precedes(channel'[t], x, y) <=>
                            \/ x # c /\ y # c /\ Precedes(channel[t], x, y)
                            \/ t = TierAt(at) /\ x # c /\ y = c /\ Contains(channel[t], x)
      BY DEF Shifted
    <3>1. CASE t = u
      BY <3>1, <2>2, <2>5, <2>6, <1>1
    <3>2. CASE t # u
      BY <3>2, <2>2, <2>6, <1>1
    <3> QED BY <3>1, <3>2
  <2> QED BY <2>6, <2>7, <2>8, <2>9 DEF Channelled
<1> QED BY <1>3, <1>4

-----------------------------------------------------------------------------
(* A read that goes on or ends, or begins, keeps the invariant, if what it *)
(* knows afterwards is right: no writer notices.                           *)
LEMMA ReaderKeeps ==
    ASSUME TiersInv, NEW c \in Clients, NEW f, Freed(f, c), NEW rec, Proper(rec), Informed(rec),
           call[c].op \in {"none", "get"}, rec.op \in {"none", "get"},
           call' = [call EXCEPT ![c] = rec], Moves(c, f, rec.at), answer' = [answer EXCEPT ![c] = "none"],
           UNCHANGED <<tier, stage, latest, written, deleted, faulted>>,
           memory' \in Entry \cup {None}, raced' \in BOOLEAN, raced => raced',
           ~raced' /\ ~faulted => /\ Kept(memory') /\ Undeleted' /\ Clean(rec)
                                  /\ rec.at = "promote" => rec.val = latest
    PROVE  TiersInv'
<1>1. Channelled /\ Called /\ Stored /\ Recalled
  BY DEF TiersInv
<1>2. call \in [Clients -> Records] /\ answer \in [Clients -> {"none", "ok", "error"}]
  BY <1>1 DEF Called, Stored
<1>3. /\ call'[c] = rec /\ answer'[c] = "none"
      /\ \A x \in Clients \ {c} : call'[x] = call[x] /\ answer'[x] = answer[x]
      /\ call' \in [Clients -> Records] /\ answer' \in [Clients -> {"none", "ok", "error"}]
  BY <1>2 DEF Proper
<1>4. rec.at \in Awaits \cup {"none"}
  BY DEF Proper, Records
<1>5. Channelled' /\ Shifted(c, rec.at)
  BY <1>1, <1>3, <1>4, MoveFacts
<1>6. Called'
  BY <1>1, <1>3 DEF Called, Proper
<1>7. Stored'
  BY <1>1, <1>3 DEF Stored
<1>8. Recalled'
  BY <1>1, <1>3 DEF Recalled, Informed
<1>9. ASSUME ~raced', ~faulted'
      PROVE  Sound'
  <2>1. ~raced /\ ~faulted
    BY <1>9, <1>1 DEF Stored
  <2>2. ServedInOrder /\ LastWriter /\ Settled /\ Promotes /\ \A x \in Clients : Clean(call[x])
    BY <2>1 DEF TiersInv, Sound
  <2>3. Kept(memory') /\ Undeleted' /\ Clean(rec) /\ (rec.at = "promote" => rec.val = latest)
    BY <1>9, <2>1
  <2>4. Writers' = Writers /\ c \notin Writers
    BY <1>3 DEF Writers, Active
  <2>5. ASSUME NEW t \in Tier, NEW x, NEW y, Precedes(channel'[t], x, y)
        PROVE  x # c /\ (y = c \/ Precedes(channel[t], x, y))
    BY <2>5, <1>5 DEF Shifted
  <2>6. ASSUME NEW t \in Tier, NEW x, NEW y, x # c, y # c
        PROVE  Precedes(channel'[t], x, y) <=> Precedes(channel[t], x, y)
    BY <2>6, <1>5 DEF Shifted
  <2>7. ServedInOrder'
    <3> SUFFICES ASSUME NEW t \in Tier, NEW x \in Clients, NEW y \in Clients,
                        Precedes(channel'[t], x, y), answer'[y] # "none"
                 PROVE  answer'[x] # "none"
      BY DEF ServedInOrder
    <3>1. x # c
      BY <2>5
    <3>5. y # c
      BY <1>3
    <3>2. Precedes(channel[t], x, y)
      BY <3>5, <2>5
    <3>3. answer[y] # "none"
      BY <3>5, <1>3
    <3>4. answer[x] # "none"
      BY <3>2, <3>3, <2>2 DEF ServedInOrder
    <3> QED BY <3>1, <3>4, <1>3
  <2>8. LastWriter'
    <3> SUFFICES ASSUME NEW x \in Writers, \A d \in Writers : ~Behind(d, x)'
                 PROVE  call'[x].val = latest
      BY <2>4 DEF LastWriter
    <3>1. x \in Clients /\ x # c
      BY <2>4 DEF Writers, Active
    <3>2. ASSUME NEW d \in Writers
          PROVE  ~Behind(d, x)
      <4>1. d \in Clients /\ d # c
        BY <2>4 DEF Writers, Active
      <4> QED BY <3>1, <4>1, <2>6, <1>3 DEF Behind
    <3> QED BY <3>1, <3>2, <2>2, <1>3 DEF LastWriter
  <2>9. Settled'
    <3> SUFFICES ASSUME NEW t \in Tier, Has(t), \A x \in Writers : ~Pending(t, x)'
                 PROVE  Holds(tier[t])
      BY <2>4 DEF Settled, Holds, Has
    <3>1. ASSUME NEW x \in Writers
          PROVE  ~Pending(t, x)
      <4>1. x \in Clients /\ x # c
        BY <2>4 DEF Writers, Active
      <4> QED BY <4>1, <2>4, <1>3 DEF Pending
    <3> QED BY <3>1, <2>2 DEF Settled
  <2>10. Promotes'
    <3> SUFFICES ASSUME NEW x \in Clients, call'[x].at = "promote", answer'[x] = "none"
                 PROVE  call'[x].val = latest \/ \E d \in Writers : Precedes(channel'["redis"], x, d)
      BY <2>4 DEF Promotes
    <3>1. CASE x = c
      BY <3>1, <2>3, <1>3
    <3>2. CASE x # c
      <4>1. call[x].val = latest \/ \E d \in Writers : Precedes(channel["redis"], x, d)
        BY <3>2, <2>2, <1>3 DEF Promotes
      <4>2. \A d \in Writers : Precedes(channel["redis"], x, d) => Precedes(channel'["redis"], x, d)
        BY <3>2, <2>4, <2>6 DEF Tier
      <4> QED BY <3>2, <4>1, <4>2, <1>3
    <3> QED BY <3>1, <3>2
  <2>11. \A x \in Clients : Clean(call[x])'
    <3> SUFFICES ASSUME NEW x \in Clients
                 PROVE  Clean(call[x])'
      OBVIOUS
    <3>1. PICK r : r = call'[x]
      OBVIOUS
    <3>2. Clean(r)
      BY <3>1, <2>2, <2>3, <1>3
    <3> QED BY <3>1, <3>2, <2>4 DEF Clean
  <2>12. Kept(memory)'
    BY <2>3 DEF Kept, Holds
  <2> QED BY <2>3, <2>7, <2>8, <2>9, <2>10, <2>11, <2>12 DEF Sound
<1> QED BY <1>5, <1>6, <1>7, <1>8, <1>9 DEF TiersInv

-----------------------------------------------------------------------------
(* What the invariant says of one call                                     *)
LEMMA CallFacts ==
    ASSUME TiersInv, NEW c \in Clients
    PROVE  /\ call \in [Clients -> Records] /\ call[c] \in Records /\ Proper(call[c]) /\ Informed(call[c])
           /\ memory \in Entry \cup {None} /\ raced \in BOOLEAN /\ faulted \in BOOLEAN
           /\ ~raced /\ ~faulted => Kept(memory) /\ Undeleted /\ Clean(call[c])
           /\ deleted \subseteq Values /\ latest \notin deleted
  BY DEF TiersInv, Called, Recalled, Stored, Sound

(* What a client that makes no call knows                                  *)
LEMMA NoCallFacts ==
    /\ Proper(NoCall) /\ Informed(NoCall) /\ Clean(NoCall) /\ NoCall.at = "none" /\ NoCall.op = "none"
<1>1. NoCall \in Records
  BY DEF NoCall, Records
<1> QED BY <1>1 DEF NoCall, Proper, Informed, Clean

(* The first tier after one is configured, and next.                       *)
LEMMA NextTierFacts ==
    ASSUME NEW at \in {"memory", "redis", "disk"}
    PROVE  /\ NextTier(at) \in {"redis", "disk", "none"}
           /\ NextTier(at) # "none" => Has(NextTier(at)) /\ TierAt(NextTier(at)) = NextTier(at)
           /\ NextTier("memory") # "none"
           /\ NextTier("memory") = "disk" => ~HasRedis
           /\ NextTier("redis") = "none" => ~HasDisk
           /\ NextTier("redis") # "redis" /\ NextTier("disk") = "none"
  BY CacheAssumption DEF CacheAssumption, NextTier, Has, TierAt

(* A read ends.                                                            *)
LEMMA ReadEnds ==
    ASSUME TiersInv, NEW c \in Clients, NEW t \in Tier, Contains(channel[t], c), call[c].op = "get",
           Finish(c, Rest(t, c)), UNCHANGED <<tier, stage, latest, written, deleted, faulted>>,
           memory' \in Entry \cup {None}, raced' \in BOOLEAN, raced => raced',
           ~raced' /\ ~faulted => Kept(memory') /\ Undeleted'
    PROVE  TiersInv'
<1>1. Channelled
  BY DEF TiersInv
<1>2. Freed(Rest(t, c), c)
  BY <1>1, RestFreed
<1>3. /\ call' = [call EXCEPT ![c] = NoCall] /\ Moves(c, Rest(t, c), NoCall.at) /\ answer' = [answer EXCEPT ![c] = "none"]
  BY NoCallFacts DEF Finish, Moves
<1> QED BY <1>2, <1>3, NoCallFacts, ReaderKeeps

(* A read goes on to another tier.                                         *)
LEMMA ReadGoesOn ==
    ASSUME TiersInv, NEW c \in Clients, NEW t \in Tier, Contains(channel[t], c), call[c].op = "get",
           NEW at \in Awaits, Has(TierAt(at)), at = "promote" => call[c].val # None,
           Send(c, call[c], at, Rest(t, c)), UNCHANGED <<tier, stage, latest, written, deleted, faulted>>,
           memory' \in Entry \cup {None}, raced' \in BOOLEAN, raced => raced',
           ~raced' /\ ~faulted => Kept(memory') /\ Undeleted',
           ~raced' /\ ~faulted /\ at = "promote" => call[c].val = latest /\ <<latest, "deleted">> \notin call[c].gone
    PROVE  TiersInv'
<1>1. Channelled /\ call[c] \in Records /\ Proper(call[c]) /\ Informed(call[c]) /\ raced \in BOOLEAN
  BY CallFacts DEF TiersInv
<1>2. Freed(Rest(t, c), c)
  BY <1>1, RestFreed
<1>3. PICK rec : rec = [call[c] EXCEPT !.at = at]
  OBVIOUS
<1>4. /\ call' = [call EXCEPT ![c] = rec] /\ answer' = [answer EXCEPT ![c] = "none"]
      /\ channel' = [Rest(t, c) EXCEPT ![TierAt(at)] = Append(@, c)]
  BY <1>3 DEF Send
<1>5. /\ rec \in Records /\ rec.at = at /\ rec.op = "get" /\ rec.val = call[c].val /\ rec.clean = call[c].clean
      /\ rec.gone = call[c].gone
  BY <1>1, <1>3 DEF Records
<1>6. at # "none"
  BY DEF Awaits
<1>7. Moves(c, Rest(t, c), rec.at)
  BY <1>4, <1>5, <1>6 DEF Moves
<1>8. Proper(rec)
  BY <1>5, <1>6 DEF Proper
<1>9. Informed(rec)
  BY <1>1, <1>5 DEF Informed
<1>10. ASSUME ~raced', ~faulted
       PROVE  Clean(rec) /\ (rec.at = "promote" => rec.val = latest)
  <2>1. Clean(call[c])
    BY <1>10, <1>1, CallFacts
  <2> QED BY <2>1, <1>10, <1>5 DEF Clean
<1> QED BY <1>1, <1>2, <1>4, <1>5, <1>7, <1>8, <1>9, <1>10, ReaderKeeps

(* What is served where nothing has raced is the latest value, and that is *)
(* not deleted.                                                            *)
LEMMA ServedLatest ==
    ASSUME NEW v, NEW gone \in SUBSET (Values \X Reasons), <<v, "deleted">> \notin gone, Undeleted, Serve(v, gone)
    PROVE  Undeleted'
<1>1. misserved' = misserved \cup {g \in gone : g[1] = v}
  BY DEF Serve
<1>2. ASSUME NEW g \in gone, g[1] = v, g[2] = "deleted"
      PROVE  FALSE
  <2>1. g = <<g[1], g[2]>>
    OBVIOUS
  <2> QED BY <2>1, <1>2
<1>3. \A g \in misserved : g[2] # "deleted"
  BY DEF Undeleted
<1> QED BY <1>1, <1>2, <1>3 DEF Undeleted

(* A rejected read ends, and so does a miss in the last tier.              *)
LEMMA GetRejectsKeeps ==
    ASSUME TiersInv, NEW c \in Clients, NEW t \in Tier, GetRejects(t, c)
    PROVE  TiersInv'
<1>1. Contains(channel[t], c) /\ call[c].op = "get" /\ Finish(c, Rest(t, c)) /\ UNCHANGED <<memory, tier, stage, history>>
  BY DEF GetRejects, Arrives
<1>2. UNCHANGED <<latest, written, deleted, misserved, raced, faulted>>
  BY <1>1 DEF history
<1>3. memory \in Entry \cup {None} /\ raced \in BOOLEAN /\ (~raced /\ ~faulted => Kept(memory) /\ Undeleted)
  BY CallFacts
<1>4. ~raced' /\ ~faulted => Kept(memory') /\ Undeleted'
  BY <1>1, <1>2, <1>3 DEF Undeleted
<1> QED BY <1>1, <1>2, <1>3, <1>4, ReadEnds

(* A miss goes on to the next tier.                                        *)
LEMMA GetMissesKeeps ==
    ASSUME TiersInv, NEW c \in Clients, NEW t \in Tier, GetMisses(t, c)
    PROVE  TiersInv'
<1>1. Contains(channel[t], c) /\ call[c].op = "get" /\ UNCHANGED <<memory, tier, stage, history>>
  BY DEF GetMisses, Arrives
<1>2. UNCHANGED <<latest, written, deleted, misserved, raced, faulted>>
  BY <1>1 DEF history
<1>3. memory \in Entry \cup {None} /\ raced \in BOOLEAN /\ (~raced /\ ~faulted => Kept(memory) /\ Undeleted)
  BY CallFacts
<1>4. ~raced' /\ ~faulted => Kept(memory') /\ Undeleted'
  BY <1>1, <1>2, <1>3 DEF Undeleted
<1>5. CASE NextTier(t) = "none"
  <2>1. Finish(c, Rest(t, c))
    BY <1>5 DEF GetMisses
  <2> QED BY <2>1, <1>1, <1>2, <1>3, <1>4, ReadEnds
<1>6. CASE NextTier(t) # "none"
  <2>1. Send(c, call[c], NextTier(t), Rest(t, c))
    BY <1>6 DEF GetMisses
  <2>2. PICK at : at = NextTier(t)
    OBVIOUS
  <2>3. at \in Awaits /\ Has(TierAt(at)) /\ at # "promote"
    BY <2>2, <1>6, NextTierFacts DEF Tier, Awaits
  <2>4. Send(c, call[c], at, Rest(t, c))
    BY <2>1, <2>2
  <2> QED BY <2>3, <2>4, <1>1, <1>2, <1>3, <1>4, ReadGoesOn
<1> QED BY <1>5, <1>6

(* A value found below memory is put there.  Unless the get() was          *)
(* overtaken by a write, it is the latest.                                 *)
LEMMA GetHitsKeeps ==
    ASSUME TiersInv, NEW c \in Clients, NEW t \in Tier, GetHits(t, c)
    PROVE  TiersInv'
<1>1. /\ Contains(channel[t], c) /\ call[c].op = "get" /\ call[c].val # None
      /\ memory' = [val |-> call[c].val, ttl |-> FALSE] /\ raced' = (raced \/ ~call[c].clean)
      /\ UNCHANGED <<tier, stage, latest, written, deleted, faulted>>
  BY DEF GetHits, Arrives
<1>2. /\ raced \in BOOLEAN /\ call[c] \in Records /\ Informed(call[c]) /\ latest \notin deleted
      /\ ~raced /\ ~faulted => Undeleted /\ Clean(call[c])
  BY CallFacts
<1>3. call[c].clean \in BOOLEAN /\ call[c].val \in Values /\ call[c].gone \in SUBSET (Values \X Reasons)
  BY <1>1, <1>2 DEF Records
<1>4. memory' \in Entry \cup {None} /\ raced' \in BOOLEAN /\ (raced => raced')
  BY <1>1, <1>2, <1>3 DEF Entry
<1>5. ASSUME ~raced', ~faulted
      PROVE  call[c].val = latest /\ <<latest, "deleted">> \notin call[c].gone /\ Kept(memory') /\ Undeleted
  <2>1. ~raced /\ call[c].clean
    BY <1>1, <1>5, <1>2, <1>3
  <2>2. call[c].val = latest
    BY <2>1, <1>5, <1>1, <1>2 DEF Clean
  <2>3. <<latest, "deleted">> \notin call[c].gone
    BY <2>2, <1>1, <1>2, <1>3 DEF Informed
  <2> QED BY <2>1, <2>2, <2>3, <1>1, <1>2, <1>3, <1>5 DEF Kept, Holds, Entry
<1>6. CASE t = "disk" /\ HasRedis
  <2>1. Send(c, call[c], "promote", Rest(t, c)) /\ misserved' = misserved
    BY <1>6 DEF GetHits
  <2>2. "promote" \in Awaits /\ Has(TierAt("promote"))
    BY <1>6 DEF Awaits, TierAt, Has
  <2>3. ~raced' /\ ~faulted => Kept(memory') /\ Undeleted'
    BY <1>5, <2>1 DEF Undeleted
  <2>4. PICK at : at = "promote"
    OBVIOUS
  <2> QED BY <2>1, <2>2, <2>3, <2>4, <1>1, <1>4, <1>5, ReadGoesOn
<1>7. CASE ~(t = "disk" /\ HasRedis)
  <2>1. Finish(c, Rest(t, c)) /\ Serve(call[c].val, call[c].gone)
    BY <1>7 DEF GetHits
  <2>2. ~raced' /\ ~faulted => Kept(memory') /\ Undeleted'
    BY <1>3, <1>5, <2>1, ServedLatest
  <2> QED BY <2>1, <2>2, <1>1, <1>4, ReadEnds
<1> QED BY <1>6, <1>7

(* What was promoted was not deleted when the get() began.                 *)
LEMMA GetPromotedKeeps ==
    ASSUME TiersInv, NEW c \in Clients, GetPromoted(c)
    PROVE  TiersInv'
<1>1. /\ Contains(channel["redis"], c) /\ call[c].at = "promote"
      /\ Finish(c, Rest("redis", c)) /\ Serve(call[c].val, call[c].gone)
      /\ UNCHANGED <<memory, tier, stage, latest, written, deleted, raced, faulted>>
  BY DEF GetPromoted, Arrives
<1>2. /\ raced \in BOOLEAN /\ call[c] \in Records /\ Proper(call[c]) /\ memory \in Entry \cup {None}
      /\ ~raced /\ ~faulted => Kept(memory) /\ Undeleted /\ Clean(call[c])
  BY CallFacts
<1>3. call[c].op = "get" /\ call[c].gone \in SUBSET (Values \X Reasons)
  BY <1>1, <1>2 DEF Proper, Records
<1>4. ASSUME ~raced', ~faulted
      PROVE  Kept(memory') /\ Undeleted'
  <2>1. Kept(memory) /\ Undeleted /\ <<call[c].val, "deleted">> \notin call[c].gone
    BY <1>1, <1>2, <1>4 DEF Clean
  <2> QED BY <2>1, <1>1, <1>3, ServedLatest
<1>5. PICK t \in Tier : t = "redis"
  BY DEF Tier
<1> QED BY <1>1, <1>2, <1>3, <1>4, <1>5, ReadEnds

(* A ttl passes, or a get() is answered from memory: no tier and no call   *)
(* changes.                                                                *)
LEMMA StillKeeps ==
    ASSUME TiersInv, UNCHANGED <<memory, tier, call, channel, answer, latest, written, deleted, raced, faulted>>,
           stage' \in [Values -> 0 .. 3], ~raced /\ ~faulted => Undeleted'
    PROVE  TiersInv'
<1>1. Channelled' /\ Called' /\ Recalled'
  BY DEF TiersInv, Channelled, Called, Recalled, Informed
<1>2. Stored'
  BY DEF TiersInv, Stored
<1>3. ASSUME ~raced, ~faulted
      PROVE  Sound'
  <2>1. Sound
    BY <1>3 DEF TiersInv
  <2>2. Writers' = Writers
    BY DEF Writers, Active
  <2>3. ServedInOrder' /\ Promotes'
    BY <2>1, <2>2 DEF Sound, ServedInOrder, Promotes
  <2>4. LastWriter'
    BY <2>1, <2>2 DEF Sound, LastWriter, Behind
  <2>5. Settled'
    <3> SUFFICES ASSUME NEW t \in Tier, Has(t), \A x \in Writers : ~Pending(t, x)'
                 PROVE  Holds(tier[t])
      BY <2>2 DEF Settled, Holds, Has
    <3>1. \A x \in Writers : ~Pending(t, x)
      BY <2>2 DEF Pending
    <3> QED BY <3>1, <2>1 DEF Sound, Settled
  <2>6. Kept(memory)' /\ (\A x \in Clients : Clean(call[x]))'
    BY <2>1, <2>2 DEF Sound, Kept, Holds, Clean
  <2> QED BY <2>3, <2>4, <2>5, <2>6, <1>3 DEF Sound
<1> QED BY <1>1, <1>2, <1>3 DEF TiersInv

(* A get() begins.                                                         *)
LEMMA GetBeginsKeeps ==
    ASSUME TiersInv, NEW c \in Clients, GetBegins(c)
    PROVE  TiersInv'
<1>1. /\ call[c] = NoCall /\ UNCHANGED <<tier, stage, latest, written, deleted, raced, faulted>>
  BY DEF GetBegins
<1>2. /\ raced \in BOOLEAN /\ memory \in Entry \cup {None} /\ latest \notin deleted /\ deleted \subseteq Values
      /\ ~raced /\ ~faulted => Kept(memory) /\ Undeleted
  BY CallFacts
<1>3. GoneNow \in SUBSET (Values \X Reasons) /\ \A v : <<v, "deleted">> \in GoneNow => v \in deleted
  BY <1>2 DEF GoneNow, Reasons
<1>4. CASE Shown("memory", memory) # None
  <2>1. PICK v : v = Shown("memory", memory)
    OBVIOUS
  <2>2. Serve(v, GoneNow) /\ UNCHANGED <<memory, call, channel, answer>>
    BY <2>1, <1>4 DEF GetBegins
  <2>3. memory # None /\ v = memory.val
    BY <2>1, <1>4 DEF Shown
  <2>4. ASSUME ~raced, ~faulted
        PROVE  Undeleted'
    <3>1. v = latest /\ Undeleted
      BY <2>3, <2>4, <1>2 DEF Kept, Holds
    <3>2. <<v, "deleted">> \notin GoneNow
      BY <3>1, <1>2, <1>3
    <3>3. PICK gone : gone = GoneNow
      OBVIOUS
    <3>4. gone \in SUBSET (Values \X Reasons) /\ <<v, "deleted">> \notin gone /\ Serve(v, gone)
      BY <3>2, <3>3, <1>3, <2>2
    <3> QED BY <3>1, <3>4, ServedLatest
  <2>5. stage \in [Values -> 0 .. 3]
    BY DEF TiersInv, Stored
  <2> QED BY <2>2, <2>4, <2>5, <1>1, StillKeeps
<1>5. CASE Shown("memory", memory) = None
  <2>1. PICK at : at = NextTier("memory")
    OBVIOUS
  <2>2. PICK rec : rec = [op |-> "get", at |-> at, val |-> None, clean |-> Writers = {}, gone |-> GoneNow]
    OBVIOUS
  <2>3. at \in {"redis", "disk"} /\ Has(TierAt(at)) /\ at \in Awaits
    BY <2>1, NextTierFacts DEF Awaits
  <2>4. /\ memory' = None /\ misserved' = misserved
        /\ call' = [call EXCEPT ![c] = rec] /\ answer' = [answer EXCEPT ![c] = "none"]
        /\ channel' = [channel EXCEPT ![TierAt(at)] = Append(@, c)]
    <3> DEFINE begun(b, g) == [op |-> "get", at |-> "none", val |-> None, clean |-> b, gone |-> g]
    <3>1. /\ memory' = None /\ misserved' = misserved
          /\ Send(c, begun(Writers = {}, GoneNow), at, channel)
      BY <1>5, <2>1 DEF GetBegins
    <3>2. \A b, g : [begun(b, g) EXCEPT !.at = at] = [op |-> "get", at |-> at, val |-> None, clean |-> b, gone |-> g]
      OBVIOUS
    <3>3. [begun(Writers = {}, GoneNow) EXCEPT !.at = at] = rec
      BY <3>2, <2>2
    <3> HIDE DEF begun
    <3> QED BY <3>1, <3>3 DEF Send
  <2>5. rec \in Records /\ rec.at = at /\ rec.op = "get" /\ rec.val = None /\ (rec.clean => Writers = {}) /\ rec.gone = GoneNow
    BY <2>2, <2>3, <1>3 DEF Records
  <2>6. at # "none" /\ at # "promote"
    BY <2>3
  <2>7. Proper(rec)
    BY <2>3, <2>5, <2>6 DEF Proper
  <2>8. Informed(rec)
    BY <2>5, <1>3 DEF Informed
  <2>9. Clean(rec)
    BY <2>5, <2>6 DEF Clean
  <2>10. Moves(c, channel, rec.at)
    BY <2>4, <2>5, <2>6 DEF Moves
  <2>11. Freed(channel, c) /\ call[c].op = "none"
    BY <1>1, NoCallFacts, IdleFreed DEF TiersInv
  <2>12. memory' \in Entry \cup {None} /\ Kept(memory') /\ (~raced /\ ~faulted => Undeleted')
    BY <2>4, <1>2 DEF Kept, Undeleted
  <2> QED BY <1>1, <1>2, <2>4, <2>5, <2>6, <2>7, <2>8, <2>9, <2>10, <2>11, <2>12, ReaderKeeps
<1> QED BY <1>4, <1>5

(* The process dies.  No request and no call is left.                      *)
LEMMA RestartKeeps == TiersInv /\ Restart => TiersInv'
<1> SUFFICES ASSUME TiersInv, Restart
             PROVE  TiersInv'
  OBVIOUS
<1>1. /\ memory' = None /\ call' = [c \in Clients |-> NoCall] /\ channel' = [t \in Tier |-> <<>>]
      /\ answer' = [c \in Clients |-> "none"] /\ faulted' = (faulted \/ Writers # {})
      /\ UNCHANGED <<tier, stage, latest, written, deleted, misserved, raced>>
  BY DEF Restart
<1>2. <<>> \in Seq(Clients) /\ IsInjective(<<>>) /\ \A x : ~Contains(<<>>, x)
  BY DEF IsInjective, Contains
<1>3. TierAt("none") \notin Tier
  BY DEF TierAt, Tier
<1>4. \A c \in Clients : call'[c] = NoCall
  BY <1>1
<1>5. \A t \in Tier : channel'[t] = <<>>
  BY <1>1
<1>6. Channelled'
  BY <1>1, <1>2, <1>3, <1>4, <1>5, NoCallFacts DEF Channelled
<1>7. Called'
  BY <1>1, NoCallFacts DEF Called, Proper
<1>8. Stored'
  BY <1>1 DEF TiersInv, Stored
<1>9. Recalled'
  <2>1. \A c \in Clients : Informed(call[c])'
    BY <1>4 DEF Informed, NoCall
  <2> QED BY <2>1, <1>1 DEF TiersInv, Recalled
<1>10. ASSUME ~raced', ~faulted'
       PROVE  Sound'
  <2>1. Writers = {} /\ ~raced /\ ~faulted
    BY <1>1, <1>10 DEF TiersInv, Stored
  <2>2. Writers' = {}
    BY <1>4 DEF Writers, Active, NoCall
  <2>3. ServedInOrder' /\ LastWriter'
    BY <1>1, <2>2 DEF ServedInOrder, LastWriter
  <2>4. Promotes'
    BY <1>4, NoCallFacts DEF Promotes
  <2>5. Settled'
    BY <2>1, <2>2, <1>1 DEF TiersInv, Sound, Settled, Holds, Has
  <2>6. \A c \in Clients : Clean(call[c])'
    BY <1>4 DEF Clean, NoCall
  <2>7. Kept(memory)' /\ Undeleted'
    BY <1>1, <2>1 DEF TiersInv, Sound, Kept, Undeleted
  <2> QED BY <2>3, <2>4, <2>5, <2>6, <2>7 DEF Sound
<1> QED BY <1>6, <1>7, <1>8, <1>9, <1>10 DEF TiersInv

(* Nothing is cached at first.                                             *)
LEMMA TiersStart == TiersInit => TiersInv
<1> SUFFICES ASSUME TiersInit
             PROVE  TiersInv
  OBVIOUS
<1> USE DEF TiersInit
<1>1. <<>> \in Seq(Clients) /\ IsInjective(<<>>) /\ \A x : ~Contains(<<>>, x)
  BY DEF IsInjective, Contains
<1>2. TierAt("none") \notin Tier
  BY DEF TierAt, Tier
<1>3. Channelled
  BY <1>1, <1>2, NoCallFacts DEF Channelled
<1>4. Called
  BY NoCallFacts DEF Called, Proper
<1>5. Stored
  <2>1. tier \in [Tier -> Entry \cup {None}] /\ \A t \in Tier : tier[t] = None
    OBVIOUS
  <2>2. stage \in [Values -> 0 .. 3] /\ answer \in [Clients -> {"none", "ok", "error"}]
    OBVIOUS
  <2> QED BY <2>1, <2>2 DEF Stored
<1>6. Recalled
  BY NoCallFacts DEF Recalled
<1>7. Writers = {}
  BY DEF Writers, Active, NoCall
<1>8. ServedInOrder /\ LastWriter
  BY <1>7 DEF ServedInOrder, LastWriter
<1>9. Promotes /\ Settled
  BY NoCallFacts DEF Promotes, Settled, Holds
<1>10. Kept(memory) /\ Undeleted /\ \A c \in Clients : Clean(call[c])
  BY NoCallFacts DEF Kept, Undeleted
<1> QED BY <1>3, <1>4, <1>5, <1>6, <1>8, <1>9, <1>10 DEF TiersInv, Sound

(* A write begins: it is the last at the first tier, so no writer it does  *)
(* not overtake is still to act anywhere, and no get() is clean.           *)
LEMMA WriteBegins ==
    ASSUME TiersInv, NEW c \in Clients, NEW rec \in Records, StartWrite(c, rec),
           rec.op \in {"set", "delete"}, rec.op = "set" => rec.val # None, rec.op = "delete" => rec.val = None,
           memory' \in Entry \cup {None}, Kept(memory)', rec.val = latest', latest' \in written' \cup {None},
           written' \subseteq Values, deleted \subseteq written' \ {latest'},
           written \ {latest} \subseteq written' \ {latest'},
           rec.gone \subseteq (written' \ {latest'}) \X {"deleted"}
    PROVE  TiersInv'
<1> DEFINE at == NextTier("memory")
<1> DEFINE new == [rec EXCEPT !.at = at]
<1>1. /\ call[c] = NoCall /\ call' = [Overlapped EXCEPT ![c] = new]
      /\ channel' = [channel EXCEPT ![at] = Append(@, c)] /\ answer' = [answer EXCEPT ![c] = "none"]
      /\ UNCHANGED <<tier, stage, deleted, misserved, raced, faulted>>
  BY DEF StartWrite
<1>2. /\ at \in {"redis", "disk"} /\ Has(at) /\ TierAt(at) = at /\ (at = "disk" => ~HasRedis)
  BY NextTierFacts
<1>3. /\ call \in [Clients -> Records] /\ answer \in [Clients -> {"none", "ok", "error"}]
      /\ Channelled /\ Called /\ Stored /\ Recalled
  BY DEF TiersInv, Called, Stored
<1> HIDE DEF at
<1>4. /\ new \in Records /\ new.at = at /\ new.op = rec.op /\ new.val = rec.val /\ new.gone = rec.gone
  BY <1>2 DEF Records, Awaits
<1> HIDE DEF new
<1>5. /\ call'[c] = new /\ answer'[c] = "none"
      /\ \A d \in Clients \ {c} : call'[d] = [call[d] EXCEPT !.clean = @ /\ call[d].op # "get"] /\ answer'[d] = answer[d]
  BY <1>1, <1>3 DEF Overlapped
<1>6. ASSUME NEW d \in Clients, d # c
      PROVE  /\ call'[d] \in Records /\ call'[d].op = call[d].op /\ call'[d].at = call[d].at
             /\ call'[d].val = call[d].val /\ call'[d].gone = call[d].gone /\ ~(call'[d].clean /\ call[d].op = "get")
  <2>1. call[d] \in Records /\ call'[d] = [call[d] EXCEPT !.clean = @ /\ call[d].op # "get"]
    BY <1>3, <1>5, <1>6
  <2>2. PICK b \in BOOLEAN : b = (call[d].clean /\ call[d].op # "get")
    BY <2>1 DEF Records
  <2>3. call'[d] = [call[d] EXCEPT !.clean = b]
    BY <2>1, <2>2
  <2>4. /\ call'[d] \in Records /\ call'[d].op = call[d].op /\ call'[d].at = call[d].at
        /\ call'[d].val = call[d].val /\ call'[d].gone = call[d].gone /\ call'[d].clean = b
    BY <2>1, <2>3 DEF Records
  <2> QED BY <2>2, <2>4
<1>7. call' \in [Clients -> Records] /\ answer' \in [Clients -> {"none", "ok", "error"}]
  <2>1. \A d \in Clients : call'[d] \in Records
    BY <1>4, <1>5, <1>6
  <2>2. DOMAIN call' = Clients /\ call' = [d \in Clients |-> call'[d]]
    BY <1>1 DEF Overlapped
  <2> QED BY <2>1, <2>2, <1>1, <1>3
<1>8. Freed(channel, c) /\ call[c].at = "none"
  BY <1>1, <1>3, NoCallFacts, IdleFreed
<1>9. at \in Awaits \cup {"none"} /\ at # "none" /\ Moves(c, channel, at)
  BY <1>1, <1>2 DEF Moves, Awaits
<1>10. Channelled' /\ Shifted(c, at)
  BY <1>3, <1>4, <1>5, <1>6, <1>8, <1>9, MoveFacts
<1>11. Called'
  <2>1. Proper(new)
    BY <1>2, <1>4, <1>9 DEF Proper
  <2>2. ASSUME NEW d \in Clients, d # c
        PROVE  Proper(call'[d])
    <3>1. Proper(call[d])
      BY <1>3 DEF Called
    <3> QED BY <3>1, <2>2, <1>6 DEF Proper
  <2>3. \A d \in Clients : Proper(call'[d])
    BY <2>1, <2>2, <1>5
  <2> QED BY <2>3, <1>7 DEF Called, Proper, Has
<1>12. Stored'
  BY <1>1, <1>3, <1>7 DEF Stored, Has
<1>13. Recalled'
  <2>1. ASSUME NEW d \in Clients
        PROVE  Informed(call[d])'
    <3>1. CASE d = c
      BY <3>1, <1>4, <1>5 DEF Informed
    <3>2. CASE d # c
      <4>1. Informed(call[d])
        BY <1>3 DEF Recalled
      <4>2. call'[d].op = call[d].op /\ call'[d].gone = call[d].gone
        BY <3>2, <1>6
      <4>3. call'[d].op # "get" => call'[d].gone \subseteq (written' \ {latest'}) \X {"deleted"}
        BY <4>1, <4>2 DEF Informed
      <4>4. call'[d].op = "get" => \A v \in Values : <<v, "deleted">> \in call'[d].gone => v \in deleted'
        BY <4>1, <4>2, <1>1 DEF Informed
      <4> QED BY <4>3, <4>4 DEF Informed
    <3> QED BY <3>1, <3>2
  <2> QED BY <2>1, <1>1 DEF Recalled
<1>14. ASSUME ~raced', ~faulted'
       PROVE  Sound'
  <2>1. ServedInOrder /\ LastWriter /\ Promotes /\ Undeleted /\ \A d \in Clients : Clean(call[d])
    BY <1>14, <1>1 DEF TiersInv, Sound
  <2>2. c \in Writers' /\ c \notin Writers /\ Writers' = Writers \cup {c}
    BY <1>1, <1>4, <1>5, <1>6, NoCallFacts DEF Writers, Active
  <2>3. ASSUME NEW t \in Tier, NEW x, NEW y, Precedes(channel'[t], x, y)
        PROVE  x # c /\ (y = c \/ Precedes(channel[t], x, y))
    BY <2>3, <1>10 DEF Shifted
  <2>4. ASSUME NEW x \in Clients, x # c, call[x].at = at \/ call[x].at = "promote"
        PROVE  at \in Tier /\ Precedes(channel'[at], x, c)
    <3>1. at \in Tier /\ at = TierAt(at)
      BY <1>2 DEF Tier
    <3>2. Has(TierAt(call[x].at))
      BY <1>2, <1>3, <2>4 DEF Called, Proper
    <3>3. at = TierAt(call[x].at)
      BY <3>1, <3>2, <2>4, <1>2 DEF TierAt, Has
    <3>4. Contains(channel[at], x)
      BY <3>1, <3>3, <1>3 DEF Channelled
    <3> QED BY <3>1, <3>4, <2>4, <1>10 DEF Shifted
  <2>5. ServedInOrder'
    <3> SUFFICES ASSUME NEW t \in Tier, NEW x \in Clients, NEW y \in Clients,
                        Precedes(channel'[t], x, y), answer'[y] # "none"
                 PROVE  answer'[x] # "none"
      BY DEF ServedInOrder
    <3>1. x # c /\ y # c
      BY <2>3, <1>5
    <3>2. Precedes(channel[t], x, y)
      BY <3>1, <2>3
    <3>3. answer[y] # "none"
      BY <3>1, <1>5
    <3>4. answer[x] # "none"
      BY <3>2, <3>3, <2>1 DEF ServedInOrder
    <3> QED BY <3>1, <3>4, <1>5
  <2>6. LastWriter'
    <3> SUFFICES ASSUME NEW x \in Writers', \A d \in Writers' : ~Behind(d, x)'
                 PROVE  call'[x].val = latest'
      BY DEF LastWriter
    <3>1. x = c
      <4> SUFFICES ASSUME x # c
                   PROVE  FALSE
        OBVIOUS
      <4>1. x \in Clients /\ call[x].op \in {"set", "delete"}
        BY <2>2 DEF Writers, Active
      <4>2. Proper(call[x]) /\ call[x] \in Records
        BY <4>1, <1>3 DEF Called
      <4>3. call[x].at \in {"redis", "disk"} /\ Has(TierAt(call[x].at))
        BY <4>1, <4>2 DEF Proper, Records, Awaits
      <4>4. CASE call[x].at = at
        BY <4>4, <4>1, <2>2, <2>4 DEF Behind
      <4>5. CASE call[x].at # at
        <5>1. call[x].at = "disk" /\ at = "redis"
          BY <4>3, <4>5, <1>2 DEF TierAt, Has
        <5>2. call'[x].at = "disk" /\ call'[c].at = "redis"
          BY <5>1, <4>1, <1>4, <1>5, <1>6
        <5> QED BY <5>2, <2>2 DEF Behind
      <4> QED BY <4>4, <4>5
    <3> QED BY <3>1, <1>4, <1>5
  <2>7. Settled'
    <3> SUFFICES ASSUME NEW t \in Tier, Has(t)
                 PROVE  Pending(t, c)'
      BY <2>2 DEF Settled, Has
    <3>1. call'[c].at = at /\ (t = at \/ (t = "disk" /\ at = "redis"))
      BY <1>2, <1>4, <1>5 DEF Tier, Has
    <3> QED BY <3>1, <1>5, <2>2 DEF Pending
  <2>8. Promotes'
    <3> SUFFICES ASSUME NEW x \in Clients, call'[x].at = "promote", answer'[x] = "none"
                 PROVE  Precedes(channel'["redis"], x, c)
      BY <2>2 DEF Promotes
    <3>1. x # c
      BY <1>2, <1>4, <1>5
    <3>2. call[x].at = "promote"
      BY <3>1, <1>6
    <3>3. Has("redis")
      BY <3>2, <1>3 DEF Called, Proper, TierAt
    <3>4. at = "redis"
      BY <3>3, <1>2 DEF Has
    <3> QED BY <3>1, <3>2, <3>4, <2>4
  <2>9. ASSUME NEW d \in Clients
        PROVE  Clean(call[d])'
    <3>1. CASE d = c
      BY <3>1, <1>2, <1>4, <1>5 DEF Clean
    <3>2. CASE d # c
      <4>1. /\ call'[d].op = call[d].op /\ call'[d].at = call[d].at /\ call'[d].val = call[d].val
            /\ call'[d].gone = call[d].gone /\ ~(call'[d].clean /\ call[d].op = "get")
        BY <3>2, <1>6
      <4> QED BY <4>1, <2>1 DEF Clean
    <3> QED BY <3>1, <3>2
  <2>10. Undeleted'
    BY <2>1, <1>1 DEF Undeleted
  <2> QED BY <2>5, <2>6, <2>7, <2>8, <2>9, <2>10 DEF Sound
<1> QED BY <1>10, <1>11, <1>12, <1>13, <1>14 DEF TiersInv

(* A set() of a new value begins.                                          *)
LEMMA SetKeeps ==
    ASSUME TiersInv, NEW c \in Clients, NEW v \in Values, Set(c, v)
    PROVE  TiersInv'
<1>1. PICK rec : rec = [NoCall EXCEPT !.op = "set", !.val = v]
  OBVIOUS
<1>2. /\ v \notin written /\ written' = written \cup {v} /\ latest' = v
      /\ memory' = [val |-> v, ttl |-> v \in TtlValues] /\ StartWrite(c, rec)
  BY <1>1 DEF Set
<1>3. rec \in Records /\ rec.op = "set" /\ rec.val = v /\ rec.gone = {} /\ v # None
  BY <1>1, CacheAssumption DEF CacheAssumption, NoCall, Records
<1>4. written \subseteq Values /\ deleted \subseteq written \ {latest}
  BY DEF TiersInv, Recalled
<1>5. memory' \in Entry \cup {None} /\ Kept(memory)'
  BY <1>2 DEF Kept, Holds, Entry
<1>6. /\ latest' \in written' \cup {None} /\ written' \subseteq Values /\ deleted \subseteq written' \ {latest'}
      /\ written \ {latest} \subseteq written' \ {latest'}
  BY <1>2, <1>4
<1> QED BY <1>2, <1>3, <1>5, <1>6, WriteBegins

(* A delete() of every value that is set begins.                           *)
LEMMA DeleteKeeps ==
    ASSUME TiersInv, NEW c \in Clients, Delete(c)
    PROVE  TiersInv'
<1>1. PICK gone : gone = {v \in written : \A d \in Active("set") : call[d].val # v} \X {"deleted"}
  OBVIOUS
<1>2. PICK rec : rec = [NoCall EXCEPT !.op = "delete", !.gone = gone]
  OBVIOUS
<1>3. /\ written' = written /\ latest' = None /\ memory' = None /\ StartWrite(c, rec)
  BY <1>1, <1>2 DEF Delete
<1>4. written \subseteq Values /\ deleted \subseteq written \ {latest} /\ None \notin Values
  BY CacheAssumption DEF TiersInv, Recalled, CacheAssumption
<1>5. gone \subseteq (written \ {None}) \X {"deleted"} /\ gone \in SUBSET (Values \X Reasons)
  BY <1>1, <1>4 DEF Reasons
<1>6. rec \in Records /\ rec.op = "delete" /\ rec.val = None /\ rec.gone = gone
  BY <1>2, <1>5 DEF NoCall, Records
<1>7. memory' \in Entry \cup {None} /\ Kept(memory)'
  BY <1>3 DEF Kept
<1>8. /\ latest' \in written' \cup {None} /\ written' \subseteq Values /\ deleted \subseteq written' \ {latest'}
      /\ written \ {latest} \subseteq written' \ {latest'}
  BY <1>3, <1>4
<1> QED BY <1>3, <1>5, <1>6, <1>7, <1>8, WriteBegins

(* What a write that moves from one tier to the next, or ends, leaves of   *)
(* the tiers and of the other calls                                        *)
LEMMA WriteMoves ==
    ASSUME TiersInv, NEW c \in Writers, NEW t \in Tier, Arrives(t, c), NEW new \in Records, Proper(new), Informed(new),
           call' = [call EXCEPT ![c] = new], Moves(c, Rest(t, c), new.at), answer' = [answer EXCEPT ![c] = "none"],
           \/ new.op = call[c].op /\ new.val = call[c].val /\ new.at = "disk" /\ t = "redis"
           \/ new.op = "none" /\ (t = "disk" \/ ~HasDisk),
           deleted \subseteq deleted', deleted' \subseteq written \ {latest},
           UNCHANGED <<memory, tier, stage, latest, written, misserved, raced, faulted>>
    PROVE  TiersInv'
<1>1. /\ Channelled /\ Called /\ Stored /\ Recalled /\ c \in Clients /\ call[c].op \in {"set", "delete"}
  BY DEF TiersInv, Writers, Active
<1>2. /\ call \in [Clients -> Records] /\ answer \in [Clients -> {"none", "ok", "error"}]
      /\ channel[t] \in Seq(Clients) /\ IsInjective(channel[t]) /\ Contains(channel[t], c)
  BY <1>1 DEF Called, Stored, Channelled, Arrives
<1>3. /\ call'[c] = new /\ answer'[c] = "none"
      /\ \A x \in Clients \ {c} : call'[x] = call[x] /\ answer'[x] = answer[x]
      /\ call' \in [Clients -> Records] /\ answer' \in [Clients -> {"none", "ok", "error"}]
  BY <1>1, <1>2
<1>4. call[c].at = t
  <2>1. call[c] \in Records /\ Proper(call[c]) /\ t = TierAt(call[c].at)
    BY <1>1, <1>2 DEF Called, Channelled
  <2> QED BY <2>1, <1>1 DEF Proper, TierAt
<1>5. new.at \in Awaits \cup {"none"}
  BY DEF Records
<1>6. Freed(Rest(t, c), c)
  BY <1>1, <1>2, RestFreed
<1>7. Channelled' /\ Shifted(c, new.at)
  BY <1>1, <1>3, <1>5, <1>6, MoveFacts
<1>8. Called'
  BY <1>1, <1>3 DEF Called, Proper, Has
<1>9. Stored'
  BY <1>1, <1>3 DEF Stored, Has
<1>10. Recalled'
  <2>1. ASSUME NEW x \in Clients
        PROVE  Informed(call[x])'
    <3>1. Informed(call'[x])
      BY <1>1, <1>3 DEF Recalled
    <3>2. PICK r : r = call'[x]
      OBVIOUS
    <3> QED BY <3>1, <3>2 DEF Informed
  <2> QED BY <2>1, <1>1 DEF Recalled
<1>11. ASSUME ~raced', ~faulted'
       PROVE  Sound'
  <2>1. /\ ServedInOrder /\ LastWriter /\ Settled /\ Promotes /\ Kept(memory) /\ Undeleted
        /\ \A d \in Clients : Clean(call[d])
    BY <1>11 DEF TiersInv, Sound
  <2>2. \A x : ~Precedes(channel[t], x, c)
    <3>1. c = channel[t][1]
      BY <1>11 DEF Arrives
    <3>2. \A x : ~Precedes(channel[t], x, channel[t][1])
      BY <1>2, FirstPrecedes
    <3> QED BY <3>1, <3>2
  <2>3. /\ \A x \in Clients \ {c} : x \in Writers' <=> x \in Writers
        /\ Writers' \subseteq Writers /\ (c \in Writers' => new.op # "none")
    BY <1>1, <1>3 DEF Writers, Active
  <2>4. ASSUME NEW u \in Tier, NEW x, NEW y, Precedes(channel'[u], x, y)
        PROVE  x # c /\ (y = c \/ Precedes(channel[u], x, y))
    BY <2>4, <1>7 DEF Shifted
  <2>5. ASSUME NEW u \in Tier, NEW x, NEW y, x # c, y # c
        PROVE  Precedes(channel'[u], x, y) <=> Precedes(channel[u], x, y)
    BY <2>5, <1>7 DEF Shifted
  <2>6. ASSUME NEW u \in Tier, NEW x, NEW y, Precedes(channel[u], x, y)
        PROVE  /\ Contains(channel[u], x) /\ Contains(channel[u], y) /\ x # y
               /\ x \in Clients => u = TierAt(call[x].at)
               /\ y \in Clients => u = TierAt(call[y].at)
    <3>1. channel[u] \in Seq(Clients) /\ IsInjective(channel[u])
      BY <1>1 DEF Channelled
    <3>2. Contains(channel[u], x) /\ Contains(channel[u], y) /\ x # y
      BY <3>1, <2>6, FirstPrecedes
    <3> QED BY <3>2, <1>1 DEF Channelled
  <2>7. ServedInOrder'
    <3> SUFFICES ASSUME NEW u \in Tier, NEW x \in Clients, NEW y \in Clients,
                        Precedes(channel'[u], x, y), answer'[y] # "none"
                 PROVE  answer'[x] # "none"
      BY DEF ServedInOrder
    <3>1. x # c /\ y # c
      BY <2>4, <1>3
    <3>2. Precedes(channel[u], x, y)
      BY <3>1, <2>4
    <3>3. answer[y] # "none"
      BY <3>1, <1>3
    <3>4. answer[x] # "none"
      BY <3>2, <3>3, <2>1 DEF ServedInOrder
    <3> QED BY <3>1, <3>4, <1>3
  <2>8. ASSUME NEW x \in Writers', NEW d \in Writers, Behind(d, x)
        PROVE  d \in Writers' /\ Behind(d, x)'
    <3>1. x \in Clients /\ d \in Clients /\ x \in Writers
      BY <2>3 DEF Writers, Active
    <3>2. CASE x = c
      <4>1. new.at = "disk" /\ t = "redis"
        BY <3>2, <2>3
      <4>2. PICK u \in Tier : Precedes(channel[u], c, d)
        BY <2>8, <3>2, <4>1, <1>4 DEF Behind
      <4>3. u = TierAt(call[c].at) /\ u = TierAt(call[d].at) /\ d # c
        BY <4>2, <3>1, <1>1, <2>6
      <4>4. call[d].op \in {"set", "delete"} /\ Proper(call[d])
        BY <3>1, <1>1 DEF Writers, Active, Called
      <4>5. call[d].at = "redis"
        BY <4>1, <4>3, <4>4, <1>4 DEF TierAt, Proper
      <4> QED BY <4>1, <4>3, <4>5, <3>1, <3>2, <2>3, <1>3 DEF Behind
    <3>3. CASE x # c /\ d = c
      <4>1. \A u \in Tier : ~Precedes(channel[u], x, c)
        <5> SUFFICES ASSUME NEW u \in Tier, Precedes(channel[u], x, c)
                     PROVE  FALSE
          OBVIOUS
        <5>1. u = TierAt(call[c].at)
          BY <2>6, <1>1
        <5>2. u = t
          BY <5>1, <1>1, <1>2 DEF Channelled
        <5> QED BY <5>2, <2>2
      <4>2. call[x].at = "disk" /\ t = "redis"
        BY <4>1, <3>3, <2>8, <1>4 DEF Behind
      <4>3. Proper(call[x]) /\ HasDisk
        BY <4>2, <3>1, <1>1 DEF Called, Proper, TierAt, Has
      <4>4. new.op = call[c].op /\ new.at = "disk" /\ TierAt(new.at) = "disk"
        BY <4>2, <4>3 DEF TierAt
      <4>5. Contains(channel["disk"], x) /\ "disk" \in Tier
        BY <4>2, <3>1, <1>1 DEF Channelled, TierAt, Tier
      <4>6. Precedes(channel'["disk"], x, c)
        BY <4>4, <4>5, <3>3, <1>7 DEF Shifted
      <4>7. c \in Writers'
        BY <4>4, <1>1, <1>3 DEF Writers, Active
      <4> QED BY <4>5, <4>6, <4>7, <3>3 DEF Behind
    <3>4. CASE x # c /\ d # c
      BY <3>4, <3>1, <2>3, <2>5, <2>8, <1>3 DEF Behind
    <3> QED BY <3>2, <3>3, <3>4
  <2>9. LastWriter'
    <3> SUFFICES ASSUME NEW x \in Writers', \A d \in Writers' : ~Behind(d, x)'
                 PROVE  call'[x].val = latest
      BY DEF LastWriter
    <3>1. x \in Writers /\ x \in Clients
      BY <2>3 DEF Writers, Active
    <3>2. \A d \in Writers : ~Behind(d, x)
      BY <2>8
    <3>3. call[x].val = latest
      BY <3>1, <3>2, <2>1 DEF LastWriter
    <3>4. call'[x].val = call[x].val
      BY <3>1, <2>3, <1>3
    <3> QED BY <3>3, <3>4
  <2>10. Settled'
    <3> SUFFICES ASSUME NEW u \in Tier, Has(u), \A x \in Writers' : ~Pending(u, x)'
                 PROVE  Holds(tier[u])
      BY DEF Settled, Holds, Has
    <3>1. ASSUME NEW x \in Writers
          PROVE  ~Pending(u, x)
      <4>1. CASE x # c
        <5>1. x \in Clients /\ x \in Writers'
          BY <4>1, <2>3 DEF Writers, Active
        <5> QED BY <5>1, <4>1, <1>3 DEF Pending
      <4>2. CASE x = c
        <5>1. answer[c] # "none"
          BY DEF Arrives
        <5>2. SUFFICES ASSUME u = "disk", t = "redis"
                       PROVE  FALSE
          BY <5>1, <4>2, <1>4 DEF Pending
        <5>3. new.op = call[c].op /\ new.at = "disk"
          BY <5>2 DEF Has
        <5>4. c \in Writers'
          BY <5>3, <1>1, <1>3 DEF Writers, Active
        <5> QED BY <5>2, <5>3, <5>4, <1>3 DEF Pending
      <4> QED BY <4>1, <4>2
    <3> QED BY <3>1, <2>1 DEF Settled
  <2>11. Promotes'
    <3> SUFFICES ASSUME NEW x \in Clients, call'[x].at = "promote", answer'[x] = "none"
                 PROVE  call'[x].val = latest \/ \E d \in Writers' : Precedes(channel'["redis"], x, d)
      BY DEF Promotes
    <3>1. x # c
      BY <1>3, <1>1 DEF Proper
    <3>2. call[x].val = latest \/ \E d \in Writers : Precedes(channel["redis"], x, d)
      BY <3>1, <2>1, <1>3 DEF Promotes
    <3>3. ASSUME NEW d \in Writers, Precedes(channel["redis"], x, d)
          PROVE  d \in Writers' /\ Precedes(channel'["redis"], x, d)
      <4>1. "redis" \in Tier /\ d \in Clients
        BY DEF Tier, Writers, Active
      <4>2. d # c
        <5> SUFFICES ASSUME d = c
                     PROVE  FALSE
          OBVIOUS
        <5>1. TierAt(call[c].at) = "redis"
          BY <4>1, <3>3, <2>6
        <5>2. t = "redis"
          BY <5>1, <1>1, <1>2 DEF Channelled
        <5> QED BY <5>2, <3>3, <2>2
      <4> QED BY <4>1, <4>2, <3>1, <3>3, <2>3, <2>5
    <3> QED BY <3>1, <3>2, <3>3, <1>3
  <2>12. ASSUME NEW d \in Clients
         PROVE  Clean(call[d])'
    <3>1. CASE d = c
      <4>1. new.op # "get" /\ new.at # "promote"
        BY <1>1 DEF Proper
      <4> QED BY <3>1, <4>1, <1>3 DEF Clean
    <3>2. CASE d # c
      BY <3>2, <1>3, <2>1, <2>3 DEF Clean
    <3> QED BY <3>1, <3>2
  <2>13. Kept(memory)' /\ Undeleted'
    BY <2>1 DEF Kept, Holds, Undeleted
  <2> QED BY <2>7, <2>9, <2>10, <2>11, <2>12, <2>13 DEF Sound
<1> QED BY <1>7, <1>8, <1>9, <1>10, <1>11 DEF TiersInv

(* set() and delete() go on to the next tier, or are done.                 *)
LEMMA WriteGoesOnKeeps ==
    ASSUME TiersInv, NEW c \in Clients, NEW t \in Tier, WriteGoesOn(t, c)
    PROVE  TiersInv'
<1>1. /\ Arrives(t, c) /\ c \in Writers /\ UNCHANGED <<memory, tier, stage, latest, written, misserved, raced, faulted>>
  BY DEF WriteGoesOn
<1>2. /\ call[c] \in Records /\ Proper(call[c]) /\ Informed(call[c]) /\ call[c].op \in {"set", "delete"}
      /\ Recalled
  BY <1>1, CallFacts DEF Writers, Active, TiersInv
<1>3. call[c].gone \subseteq (written \ {latest}) \X {"deleted"} /\ deleted \subseteq written \ {latest}
  BY <1>2 DEF Informed, Recalled
<1>4. CASE /\ NextTier(t) # "none" /\ Send(c, call[c], NextTier(t), Rest(t, c))
           /\ UNCHANGED deleted
  <2>1. NextTier(t) = "disk" /\ t = "redis" /\ Has("disk")
    BY <1>4, NextTierFacts DEF Tier
  <2>2. PICK new : new = [call[c] EXCEPT !.at = "disk"]
    OBVIOUS
  <2>3. /\ new \in Records /\ new.op = call[c].op /\ new.val = call[c].val /\ new.gone = call[c].gone
        /\ new.at = "disk"
    BY <2>2, <1>2 DEF Records, Awaits
  <2>4. Proper(new)
    BY <2>1, <2>3, <1>2 DEF Proper, TierAt
  <2>5. Informed(new)
    BY <2>3, <1>2, <1>3 DEF Informed
  <2>6. call' = [call EXCEPT ![c] = new] /\ Moves(c, Rest(t, c), new.at) /\ answer' = [answer EXCEPT ![c] = "none"]
    BY <1>4, <2>1, <2>2, <2>3 DEF Send, Moves
  <2> QED BY <2>1, <2>3, <2>4, <2>5, <2>6, <1>1, <1>3, <1>4, WriteMoves
<1>5. CASE /\ NextTier(t) = "none" /\ Finish(c, Rest(t, c))
           /\ deleted' = deleted \cup {g[1] : g \in call[c].gone}
  <2>1. t = "disk" \/ ~HasDisk
    BY <1>5, NextTierFacts DEF Tier
  <2>2. deleted \subseteq deleted' /\ deleted' \subseteq written \ {latest}
    BY <1>3, <1>5
  <2>3. call' = [call EXCEPT ![c] = NoCall] /\ Moves(c, Rest(t, c), NoCall.at) /\ answer' = [answer EXCEPT ![c] = "none"]
    BY <1>5, NoCallFacts DEF Finish, Moves
  <2>4. NoCall \in Records
    BY NoCallFacts DEF Proper
  <2> QED BY <2>1, <2>2, <2>3, <2>4, <1>1, NoCallFacts, WriteMoves
<1> QED BY <1>4, <1>5 DEF WriteGoesOn

(* What an adapter is asked to do, and answers, is an entry or nothing.    *)
LEMMA EffectTyped ==
    ASSUME TiersInv, NEW c \in Clients, NEW t \in Tier, Waits(t, c)
    PROVE  /\ Effect(t, c) \in Entry \cup {None} /\ Shown(t, tier[t]) \in Values \cup {None}
           /\ tier[t] \in Entry \cup {None} /\ Has(t) /\ TierAt(call[c].at) = t /\ answer[c] = "none"
           /\ call[c].op \in {"get", "set", "delete"} /\ call[c] \in Records /\ Proper(call[c])
<1>1. call[c] \in Records /\ Proper(call[c]) /\ Contains(channel[t], c) /\ answer[c] = "none"
  BY CallFacts DEF Waits
<1>2. t = TierAt(call[c].at)
  BY <1>1 DEF TiersInv, Channelled
<1>3. tier[t] \in Entry \cup {None}
  BY DEF TiersInv, Stored
<1>4. call[c].at # "none" /\ call[c].op \in {"get", "set", "delete"} /\ Has(t)
  <2>1. call[c].at # "none"
    BY <1>2 DEF TierAt, Tier
  <2> QED BY <2>1, <1>1, <1>2 DEF Proper, Records
<1>5. call[c].val \in Values \cup {None}
  BY <1>1 DEF Records
<1>6. Effect(t, c) \in Entry \cup {None}
  <2>1. CASE call[c].op = "set"
    BY <2>1, <1>1, <1>5 DEF Effect, Proper, Entry
  <2>2. CASE call[c].op = "delete"
    BY <2>2, <1>1 DEF Effect, Proper
  <2>3. CASE call[c].op = "get" /\ call[c].at = "promote"
    BY <2>3, <1>1, <1>5 DEF Effect, Proper, Entry
  <2>4. CASE call[c].op = "get" /\ call[c].at # "promote"
    BY <2>4, <1>3 DEF Effect
  <2>5. call[c].op = "set" \/ call[c].op = "delete" \/ call[c].op = "get"
    BY <1>4
  <2>6. CASE call[c].op = "get"
    BY <2>3, <2>4, <2>6
  <2> QED BY <2>1, <2>2, <2>5, <2>6
<1>7. Shown(t, tier[t]) \in Values \cup {None}
  BY <1>3 DEF Shown, Entry
<1> QED BY <1>1, <1>2, <1>3, <1>4, <1>6, <1>7

(* A rejection only has to keep what holds of misbehaving adapters.        *)
LEMMA TierRejectsKeeps ==
    ASSUME TiersInv, NEW c \in Clients, NEW t \in Tier, TierRejects(t, c)
    PROVE  TiersInv'
<1>1. /\ Waits(t, c) /\ answer' = [answer EXCEPT ![c] = "error"] /\ faulted' = TRUE
      /\ UNCHANGED <<memory, stage, call, channel, latest, written, deleted, misserved, raced>>
  BY DEF TierRejects, MayServe
<1>2. PICK e \in {tier[t], Effect(t, c)} : tier' = [tier EXCEPT ![t] = e]
  BY DEF TierRejects
<1>3. e \in Entry \cup {None} /\ Has(t)
  BY <1>1, EffectTyped
<1>4. Channelled' /\ Called' /\ Recalled'
  BY <1>1 DEF TiersInv, Channelled, Called, Recalled, Informed
<1>5. Stored'
  BY <1>1, <1>2, <1>3 DEF TiersInv, Stored, Has
<1> QED BY <1>1, <1>4, <1>5 DEF TiersInv

(* What an adapter does in turn: the last writer to act at a tier, and a   *)
(* promotion no writer follows there, bring the latest value.              *)
LEMMA LastEffect ==
    ASSUME TiersInv, ~raced, ~faulted, NEW c \in Clients, NEW t \in Tier, Waits(t, c),
           call[c].op = "get" => call[c].at = "promote",
           \A d \in Writers : d = c \/ ~Pending(t, d)
    PROVE  Holds(Effect(t, c))
<1>1. ServedInOrder /\ LastWriter /\ Promotes
  BY DEF TiersInv, Sound
<1>2. /\ TierAt(call[c].at) = t /\ answer[c] = "none" /\ call[c].op \in {"get", "set", "delete"}
      /\ call[c] \in Records /\ Proper(call[c])
  BY EffectTyped
<1>3. ASSUME NEW d \in Writers
      PROVE  ~Precedes(channel[t], c, d)
  <2> SUFFICES ASSUME Precedes(channel[t], c, d)
               PROVE  FALSE
    OBVIOUS
  <2>1. channel[t] \in Seq(Clients) /\ IsInjective(channel[t])
    BY DEF TiersInv, Channelled
  <2>2. d # c /\ Contains(channel[t], d) /\ d \in Clients
    BY <2>1, FirstPrecedes DEF Writers, Active
  <2>3. call[d].op \in {"set", "delete"} /\ Proper(call[d]) /\ t = TierAt(call[d].at)
    BY <2>2 DEF Writers, Active, TiersInv, Called, Channelled
  <2>4. call[d].at = t
    BY <2>3 DEF Proper, TierAt
  <2>5. answer[d] # "none"
    BY <2>2, <2>4 DEF Pending
  <2> QED BY <2>2, <2>5, <1>1, <1>2 DEF ServedInOrder
<1>4. CASE call[c].op = "get"
  <2>1. call[c].at = "promote" /\ t = "redis"
    BY <1>2, <1>4 DEF TierAt
  <2>2. call[c].val = latest
    BY <2>1, <1>1, <1>2, <1>3 DEF Promotes
  <2>3. Effect(t, c) = [val |-> latest, ttl |-> FALSE] /\ latest \in Values
    BY <2>1, <2>2, <1>2, <1>4 DEF Effect, Proper, Records
  <2> QED BY <2>3 DEF Holds, Entry
<1>5. CASE call[c].op \in {"set", "delete"}
  <2>1. c \in Writers /\ call[c].at = t
    BY <1>2, <1>5 DEF Writers, Active, Proper, TierAt
  <2>2. \A d \in Writers : ~Behind(d, c)
    <3> SUFFICES ASSUME NEW d \in Writers, Behind(d, c)
                 PROVE  FALSE
      OBVIOUS
    <3>1. CASE \E u \in Tier : Precedes(channel[u], c, d)
      <4>1. PICK u \in Tier : Precedes(channel[u], c, d)
        BY <3>1
      <4>2. channel[u] \in Seq(Clients) /\ IsInjective(channel[u])
        BY DEF TiersInv, Channelled
      <4>3. Contains(channel[u], c)
        BY <4>1, <4>2, FirstPrecedes
      <4>4. u = t
        BY <4>3, <1>2 DEF TiersInv, Channelled
      <4> QED BY <4>1, <4>4, <1>3
    <3>2. CASE call[c].at = "disk" /\ call[d].at = "redis"
      BY <3>2, <2>1 DEF Pending
    <3> QED BY <3>1, <3>2 DEF Behind
  <2>3. call[c].val = latest
    BY <2>1, <2>2, <1>1 DEF LastWriter
  <2>4. CASE call[c].op = "set"
    <3>1. Effect(t, c) = [val |-> latest, ttl |-> latest \in TtlValues] /\ latest \in Values
      BY <2>3, <2>4, <1>2 DEF Effect, Proper, Records
    <3> QED BY <3>1 DEF Holds, Entry
  <2>5. CASE call[c].op = "delete"
    BY <2>3, <2>5, <1>2 DEF Effect, Proper, Holds
  <2> QED BY <2>4, <2>5, <1>5
<1> QED BY <1>2, <1>4, <1>5

(* An adapter acts on a request.                                           *)
LEMMA TierActsKeeps ==
    ASSUME TiersInv, NEW c \in Clients, NEW t \in Tier, TierActs(t, c)
    PROVE  TiersInv'
<1> DEFINE Reading == call[c].op = "get" /\ call[c].at # "promote"
<1>1. /\ Waits(t, c) /\ tier' = [tier EXCEPT ![t] = Effect(t, c)] /\ answer' = [answer EXCEPT ![c] = "ok"]
      /\ call' = IF Reading THEN [call EXCEPT ![c].val = Shown(t, tier[t])] ELSE call
      /\ faulted' = (faulted \/ ~InTurn(t, c))
      /\ UNCHANGED <<memory, stage, channel, latest, written, deleted, misserved, raced>>
  BY DEF TierActs, MayServe
<1>2. /\ Effect(t, c) \in Entry \cup {None} /\ Shown(t, tier[t]) \in Values \cup {None} /\ Has(t)
      /\ TierAt(call[c].at) = t /\ answer[c] = "none" /\ tier[t] \in Entry \cup {None}
      /\ call[c].op \in {"get", "set", "delete"} /\ call[c] \in Records /\ Proper(call[c])
  BY <1>1, EffectTyped
<1>3. Channelled /\ Called /\ Stored /\ Recalled
  BY DEF TiersInv
<1>4. PICK new : new = IF Reading THEN [call[c] EXCEPT !.val = Shown(t, tier[t])] ELSE call[c]
  OBVIOUS
<1>5. /\ new \in Records /\ new.op = call[c].op /\ new.at = call[c].at /\ new.clean = call[c].clean
      /\ new.gone = call[c].gone /\ (~Reading => new.val = call[c].val) /\ (Reading => new.val = Shown(t, tier[t]))
  <2>1. CASE Reading
    <3>1. new = [call[c] EXCEPT !.val = Shown(t, tier[t])]
      BY <2>1, <1>4
    <3> QED BY <2>1, <3>1, <1>2 DEF Records
  <2>2. CASE ~Reading
    BY <2>2, <1>2, <1>4
  <2> QED BY <2>1, <2>2
<1>6. /\ call'[c] = new /\ answer'[c] = "ok"
      /\ \A x \in Clients \ {c} : call'[x] = call[x] /\ answer'[x] = answer[x]
      /\ call' \in [Clients -> Records] /\ answer' \in [Clients -> {"none", "ok", "error"}]
  <2>1. call \in [Clients -> Records] /\ answer \in [Clients -> {"none", "ok", "error"}]
    BY <1>3 DEF Called, Stored
  <2>2. call' = [call EXCEPT ![c] = new]
    BY <2>1, <1>1, <1>4
  <2> QED BY <2>1, <2>2, <1>1, <1>5
<1>7. ASSUME NEW x \in Clients
      PROVE  /\ call'[x].op = call[x].op /\ call'[x].at = call[x].at /\ call'[x].clean = call[x].clean
             /\ call'[x].gone = call[x].gone
             /\ x # c \/ call[x].op # "get" \/ call[x].at = "promote" => call'[x].val = call[x].val
  BY <1>5, <1>6
<1> HIDE DEF Reading
<1>8. Channelled'
  BY <1>1, <1>3, <1>7 DEF Channelled
<1>9. Called'
  <2>1. Proper(new)
    BY <1>2, <1>5 DEF Proper, Reading
  <2>2. \A x \in Clients : Proper(call'[x])
    BY <2>1, <1>3, <1>6 DEF Called
  <2> QED BY <2>2, <1>6 DEF Called, Proper, Has
<1>10. Stored'
  BY <1>1, <1>2, <1>3, <1>6 DEF Stored, Has
<1>11. Recalled'
  <2>1. ASSUME NEW x \in Clients
        PROVE  Informed(call[x])'
    BY <1>1, <1>3, <1>7 DEF Recalled, Informed
  <2> QED BY <2>1, <1>1, <1>3 DEF Recalled
<1>12. ASSUME ~raced', ~faulted'
       PROVE  Sound'
  <2>1. ~raced /\ ~faulted /\ InTurn(t, c)
    BY <1>1, <1>12, <1>3 DEF Stored
  <2>2. /\ ServedInOrder /\ LastWriter /\ Settled /\ Promotes /\ Kept(memory) /\ Undeleted
        /\ \A d \in Clients : Clean(call[d])
    BY <2>1 DEF TiersInv, Sound
  <2>3. Writers' = Writers
    BY <1>7 DEF Writers, Active
  <2>4. \A d \in Writers : d \in Clients /\ call[d].op # "get"
    BY DEF Writers, Active
  <2>5. ServedInOrder'
    <3> SUFFICES ASSUME NEW u \in Tier, NEW x \in Clients, NEW y \in Clients,
                        Precedes(channel[u], x, y), answer'[y] # "none"
                 PROVE  answer'[x] # "none"
      BY <1>1 DEF ServedInOrder
    <3>1. CASE y = c
      <4>1. channel[u] \in Seq(Clients) /\ IsInjective(channel[u])
        BY <1>3 DEF Channelled
      <4>2. Contains(channel[u], c)
        BY <3>1, <4>1, FirstPrecedes
      <4>3. u = t
        BY <4>2, <1>2, <1>3 DEF Channelled
      <4>4. answer[x] # "none"
        BY <3>1, <4>3, <2>1 DEF InTurn
      <4> QED BY <4>4, <1>6
    <3>2. CASE y # c
      <4>1. answer[y] # "none"
        BY <3>2, <1>6
      <4>2. answer[x] # "none"
        BY <4>1, <2>2 DEF ServedInOrder
      <4>3. x # c
        BY <4>2, <1>2
      <4> QED BY <4>2, <4>3, <1>6
    <3> QED BY <3>1, <3>2
  <2>6. LastWriter'
    <3> SUFFICES ASSUME NEW x \in Writers, \A d \in Writers : ~Behind(d, x)'
                 PROVE  call'[x].val = latest
      BY <2>3, <1>1 DEF LastWriter
    <3>1. \A d \in Writers : ~Behind(d, x)
      BY <2>4, <1>1, <1>7 DEF Behind
    <3>2. call[x].val = latest
      BY <3>1, <2>2 DEF LastWriter
    <3> QED BY <3>2, <2>4, <1>7
  <2>7. Settled'
    <3> SUFFICES ASSUME NEW u \in Tier, Has(u), \A x \in Writers : ~Pending(u, x)'
                 PROVE  Holds(tier'[u])
      BY <2>3, <1>1 DEF Settled, Holds, Has
    <3>1. ASSUME NEW d \in Writers, d # c
          PROVE  ~Pending(u, d)
      BY <3>1, <2>3, <2>4, <1>6 DEF Pending
    <3>2. CASE u = t /\ ~Reading
      <4>1. call[c].op = "get" => call[c].at = "promote"
        BY <3>2 DEF Reading
      <4>2. \A d \in Writers : d = c \/ ~Pending(t, d)
        BY <3>1, <3>2
      <4>3. Holds(Effect(t, c))
        BY <4>1, <4>2, <2>1, <1>1, LastEffect
      <4>4. tier'[u] = Effect(t, c)
        BY <3>2, <1>1, <1>3 DEF Stored
      <4> QED BY <4>3, <4>4
    <3>3. CASE u # t \/ Reading
      <4>1. tier'[u] = tier[u]
        BY <3>3, <1>1, <1>3 DEF Stored, Effect, Reading
      <4>2. c \in Writers => ~Pending(u, c)
        <5> SUFFICES ASSUME c \in Writers
                     PROVE  ~Pending(u, c)
          OBVIOUS
        <5>1. u # t
          BY <2>4, <3>3 DEF Reading
        <5>2. call[c].at # u
          BY <5>1, <1>2 DEF TierAt, Tier
        <5> QED BY <5>2, <2>3, <1>7 DEF Pending
      <4>3. \A d \in Writers : ~Pending(u, d)
        BY <3>1, <4>2
      <4> QED BY <4>1, <4>3, <2>2 DEF Settled
    <3> QED BY <3>2, <3>3
  <2>8. Promotes'
    <3> SUFFICES ASSUME NEW x \in Clients, call'[x].at = "promote", answer'[x] = "none"
                 PROVE  call'[x].val = latest \/ \E d \in Writers : Precedes(channel["redis"], x, d)
      BY <2>3, <1>1 DEF Promotes
    <3>1. x # c
      BY <1>6
    <3> QED BY <3>1, <2>2, <1>6 DEF Promotes
  <2>9. ASSUME NEW d \in Clients
        PROVE  Clean(call[d])'
    <3>1. CASE d = c /\ Reading
      <4>1. ASSUME call[c].clean, new.val # None
            PROVE  new.val = latest
        <5>1. Writers = {}
          BY <4>1, <3>1, <2>2 DEF Clean, Reading
        <5>2. Holds(tier[t])
          BY <5>1, <2>2, <1>2 DEF Settled
        <5>3. new.val = tier[t].val /\ tier[t] # None
          BY <4>1, <3>1, <1>5 DEF Shown
        <5> QED BY <5>2, <5>3 DEF Holds
      <4>2. Clean(call[c])
        BY <2>2
      <4> QED BY <4>1, <4>2, <3>1, <2>3, <1>1, <1>5, <1>6 DEF Clean, Reading
    <3>2. CASE ~(d = c /\ Reading)
      <4>1. call'[d] = call[d]
        BY <3>2, <1>4, <1>6
      <4> QED BY <4>1, <2>2, <2>3, <1>1 DEF Clean
    <3> QED BY <3>1, <3>2
  <2>10. Kept(memory)' /\ Undeleted'
    BY <2>2, <1>1 DEF Kept, Holds, Undeleted
  <2> QED BY <2>5, <2>6, <2>7, <2>8, <2>9, <2>10 DEF Sound
<1> QED BY <1>8, <1>9, <1>10, <1>11, <1>12 DEF TiersInv

-----------------------------------------------------------------------------
(* Every step keeps the invariant.                                         *)
LEMMA TiersStep == TiersInv /\ [TiersNext]_tiersVars => TiersInv'
<1> SUFFICES ASSUME TiersInv, [TiersNext]_tiersVars
             PROVE  TiersInv'
  OBVIOUS
<1>1. stage \in [Values -> 0 .. 3] /\ (~raced /\ ~faulted => Undeleted)
  BY DEF TiersInv, Stored, Sound
<1>2. CASE UNCHANGED tiersVars
  <2>1. UNCHANGED <<memory, tier, stage, call, channel, answer, latest, written, deleted, misserved, raced, faulted>>
    BY <1>2 DEF tiersVars, history
  <2> QED BY <2>1, <1>1, StillKeeps DEF Undeleted
<1>3. CASE \E c \in Clients : GetBegins(c) \/ Delete(c) \/ GetPromoted(c) \/ \E v \in Values : Set(c, v)
  BY <1>3, GetBeginsKeeps, DeleteKeeps, GetPromotedKeeps, SetKeeps
<1>4. CASE \E c \in Clients, t \in Tier : AtTier(t, c)
  BY <1>4, TierActsKeeps, TierRejectsKeeps, GetRejectsKeeps, GetMissesKeeps, GetHitsKeeps, WriteGoesOnKeeps DEF AtTier
<1>5. CASE \E v \in Values : TtlPasses(v)
  <2>1. PICK v \in Values : TtlPasses(v)
    BY <1>5
  <2>2. /\ stage' = [stage EXCEPT ![v] = @ + 1] /\ stage[v] < 3
        /\ UNCHANGED <<memory, tier, call, channel, answer, latest, written, deleted, misserved, raced, faulted>>
    BY <2>1 DEF TtlPasses, history
  <2>3. stage' \in [Values -> 0 .. 3]
    <3>1. stage[v] \in 0 .. 3 /\ stage[v] + 1 \in 0 .. 3
      BY <1>1, <2>2
    <3> QED BY <3>1, <1>1, <2>2
  <2> QED BY <2>2, <2>3, <1>1, StillKeeps DEF Undeleted
<1>6. CASE Restart
  BY <1>6, RestartKeeps
<1> QED BY <1>2, <1>3, <1>4, <1>5, <1>6 DEF TiersNext

(* cache_manager.ts:160-242, however the calls of the clients overlap and  *)
(* whatever the adapters do: while they serve in order and no get() has    *)
(* put back what was overwritten, a tier that no writer is still to reach  *)
(* holds the latest value.                                                 *)
THEOREM TiersInvariant == TiersSpec => []TiersInv
<1> QED BY TiersStart, TiersStep, PTL DEF TiersSpec

(* cache_manager.ts:204-242: a quiet cache agrees with the latest write,   *)
(* no more and no less.                                                    *)
THEOREM TiersAlwaysAgree == TiersSpec => []TiersAgree
<1>1. TiersInv => TiersAgree
  <2> SUFFICES ASSUME TiersInv
               PROVE  TiersAgree
    OBVIOUS
  <2>1. Channelled /\ Called /\ Stored /\ Recalled
    BY DEF TiersInv
  <2>2. TiersTypeOK
    BY <2>1 DEF Channelled, Called, Records, Stored, TiersTypeOK
  <2>3. ASSUME Quiet, ~raced, ~faulted, NEW t \in Tier
        PROVE  /\ Shown("memory", memory) \in {latest, None} /\ Shown(t, tier[t]) \in {latest, None}
               /\ Has(t) /\ latest # None => Shown(t, tier[t]) = latest \/ stage[latest] >= Rank(t)
    <3>1. Writers = {}
      BY <2>3 DEF Quiet, Writers, Active, NoCall
    <3>2. Kept(memory) /\ (Has(t) => Holds(tier[t]))
      BY <3>1, <2>3 DEF TiersInv, Sound, Settled
    <3>3. tier[t] = None \/ Holds(tier[t])
      BY <3>2, <2>1 DEF Stored
    <3>4. memory = None \/ (memory \in Entry /\ memory.val = latest)
      BY <3>2 DEF Kept, Holds
    <3>5. Shown("memory", memory) \in {latest, None}
      BY <3>4 DEF Shown
    <3>6. tier[t] = None \/ (tier[t] \in Entry /\ tier[t].val = latest)
      BY <3>3 DEF Holds
    <3>7. Shown(t, tier[t]) \in {latest, None}
      BY <3>6 DEF Shown
    <3>8. ASSUME Has(t), latest # None
          PROVE  Shown(t, tier[t]) = latest \/ stage[latest] >= Rank(t)
      <4>1. tier[t] \in Entry /\ tier[t].val = latest
        BY <3>2, <3>8 DEF Holds
      <4>2. tier[t] # None => Shown(t, tier[t]) = latest \/ stage[latest] >= Rank(t)
        BY <4>1 DEF Shown
      <4>3. tier[t] # None
        BY <4>1, CacheAssumption DEF CacheAssumption
      <4> QED BY <4>2, <4>3
    <3> QED BY <3>5, <3>7, <3>8
  <2>4. "redis" \in Tier
    BY DEF Tier
  <2>5. Coherent
    BY <2>3, <2>4 DEF Coherent
  <2>6. Retained
    BY <2>3 DEF Retained, Has
  <2> QED BY <2>2, <2>5, <2>6 DEF TiersAgree
<1> QED BY <1>1, TiersInvariant, PTL

(* cache_manager.ts:160-203: while adapters serve in order and no get()    *)
(* has put back what was overwritten, none returns what a delete() that    *)
(* was done had deleted, and one that no write overtook returns the latest.*)
THEOREM ReadsStaySound == TiersSpec => []ReadsSound
<1>1. TiersInv => ReadsSound
  <2> SUFFICES ASSUME TiersInv, ~raced, ~faulted
               PROVE  ReadsSound
    BY DEF ReadsSound, NoResurrection, CleanReads
  <2>1. Undeleted /\ \A c \in Clients : Clean(call[c])
    BY DEF TiersInv, Sound
  <2> QED BY <2>1 DEF Undeleted, Clean, Active, ReadsSound, NoResurrection, CleanReads
<1> QED BY <1>1, TiersInvariant, PTL
=============================================================================
