----------------------- MODULE ReedSolomonCacheProofs -----------------------
(***************************************************************************)
(* Proofs about the codec cache for every set of threads, keys and cells,  *)
(* every capacity, and every eviction the LRU map may choose.              *)
(***************************************************************************)
EXTENDS ReedSolomonCache, FiniteSetTheorems, TLAPS

-----------------------------------------------------------------------------
(* The inductive invariant.                                                *)

(* Who is where: the write guard, the key and the Arc of the local entry   *)
(* exist exactly as long as the code holds them.                           *)
Held ==
    \A t \in Thread :
      /\ pc[t] \in {"insert", "put"} <=> writer = t
      /\ key[t] = None <=> pc[t] = "idle"
      /\ entry[t] # None <=> pc[t] \in {"init", "build"}

(* The second look stays true until the put: nobody else can insert.       *)
StillMissing == \A t \in Thread : pc[t] = "put" => key[t] \notin DOMAIN cache

(* A cell serves one key only, through the cache and through the local     *)
(* variables of the calls alike.                                           *)
CellServesOneKey ==
    /\ \A k, l \in DOMAIN cache : cache[k] = cache[l] => k = l
    /\ \A t \in Thread, k \in DOMAIN cache : entry[t] = cache[k] => key[t] = k
    /\ \A t, u \in Thread :
         entry[t] # None /\ entry[t] = entry[u] => key[t] = key[u]

(* A cell is initialised by one thread at a time, and is marked meanwhile. *)
OneBuilderPerCell ==
    /\ \A t \in Thread : pc[t] = "build" => once[entry[t]] = Running
    /\ \A t, u \in Thread :
         pc[t] = "build" /\ pc[u] = "build" /\ entry[t] = entry[u] => t = u

IInv ==
    /\ TypeOK
    /\ Held
    /\ StillMissing
    /\ CellServesOneKey
    /\ OneBuilderPerCell
    /\ CellHoldsCodecOfKey

-----------------------------------------------------------------------------
(* LruCache::put leaves a set of keys that were there or were put, the put *)
(* one among them.                                                         *)
LEMMA SurvivorsOfPut ==
    ASSUME NEW keys, NEW k \in keys, NEW S \in Survivors(keys, k)
    PROVE  S \subseteq keys /\ k \in S
  BY SMT DEF Survivors

LEMMA InitIInv == Init => IInv
  <1> SUFFICES ASSUME Init PROVE IInv
    OBVIOUS
  <1> USE CacheAssumption DEF Init
  <1>1. TypeOK
    BY DEF TypeOK, Location, Empty
  <1>2. Held
    BY DEF Held
  <1>3. StillMissing /\ CellServesOneKey /\ OneBuilderPerCell /\ CellHoldsCodecOfKey
    BY DEF StillMissing, CellServesOneKey, OneBuilderPerCell, CellHoldsCodecOfKey
  <1> QED
    BY <1>1, <1>2, <1>3 DEF IInv

(* Put, the step that changes the map: the cell it takes is referenced by  *)
(* nobody, and the keys that survive keep their cells.                     *)
LEMMA PutIInv ==
    ASSUME IInv, NEW t \in Thread, Put(t)
    PROVE  IInv'
  <1> USE CacheAssumption
  <1>0. /\ TypeOK /\ Held /\ StillMissing
        /\ CellServesOneKey /\ OneBuilderPerCell /\ CellHoldsCodecOfKey
    BY DEF IInv
  <1> PICK c \in Cell \ Referenced, S \in Survivors(DOMAIN cache \cup {key[t]}, key[t]) :
             /\ cache' = [k \in S |-> IF k = key[t] THEN c ELSE cache[k]]
             /\ once' = [once EXCEPT ![c] = Empty]
             /\ entry' = [entry EXCEPT ![t] = c]
    BY DEF Put
  <1>1. S \subseteq DOMAIN cache \cup {key[t]} /\ key[t] \in S
    BY SurvivorsOfPut
  <1>2. /\ pc[t] = "put" /\ writer' = None /\ pc' = [pc EXCEPT ![t] = "init"]
        /\ UNCHANGED <<readers, key, answer>>
    BY DEF Put, AfterPut
  <1>3. key[t] \in Key /\ key[t] \notin DOMAIN cache
    BY <1>0, <1>2 DEF TypeOK, Held, StillMissing
  <1>4. DOMAIN cache' = S /\ cache'[key[t]] = c
    BY <1>1
  <1>5. \A k \in S \ {key[t]} : k \in DOMAIN cache /\ cache'[k] = cache[k] /\ cache[k] # c
    BY <1>1 DEF Referenced
  <1>6. /\ entry'[t] = c
        /\ \A u \in Thread \ {t} : entry'[u] = entry[u] /\ entry[u] # c
    BY <1>0 DEF TypeOK, Referenced
  <1>7. /\ once'[c] = Empty
        /\ \A d \in Cell \ {c} : once'[d] = once[d]
    BY <1>0 DEF TypeOK
  <1>8. TypeOK'
    <2>1. DOMAIN cache' \subseteq Key
      BY <1>0, <1>1, <1>3, <1>4 DEF TypeOK
    <2>2. cache' \in [DOMAIN cache' -> Cell]
      BY <1>0, <1>1, <1>4, <1>5 DEF TypeOK
    <2>3. once' \in [Cell -> {Empty, Running}
                     \cup {[state |-> "full", value |-> New(k)] : k \in Key}]
      BY <1>0 DEF TypeOK
    <2>4. pc' \in [Thread -> Location] /\ entry' \in [Thread -> Cell \cup {None}]
      BY <1>0, <1>2 DEF TypeOK, Location
    <2> QED
      BY <1>0, <1>2, <2>1, <2>2, <2>3, <2>4 DEF TypeOK
  <1>9. Held'
    BY <1>0, <1>2, <1>6 DEF Held, TypeOK
  <1>10. StillMissing'
    <2> SUFFICES ASSUME NEW u \in Thread, pc'[u] = "put" PROVE FALSE
      BY DEF StillMissing
    <2>1. u # t /\ pc[u] = "put"
      BY <1>0, <1>2 DEF TypeOK
    <2> QED
      BY <1>0, <1>2, <2>1 DEF Held
  <1>11. CellServesOneKey'
    <2>1. \A k, l \in DOMAIN cache' : cache'[k] = cache'[l] => k = l
      BY <1>0, <1>4, <1>5 DEF CellServesOneKey
    <2>2. \A u \in Thread, k \in DOMAIN cache' : entry'[u] = cache'[k] => key'[u] = k
      BY <1>0, <1>2, <1>4, <1>5, <1>6 DEF CellServesOneKey
    <2>3. \A u, v \in Thread : entry'[u] # None /\ entry'[u] = entry'[v] => key'[u] = key'[v]
      BY <1>0, <1>2, <1>6 DEF CellServesOneKey
    <2> QED
      BY <2>1, <2>2, <2>3 DEF CellServesOneKey
  <1>12. CellHoldsCodecOfKey'
    <2>1. ASSUME NEW k \in DOMAIN cache', once'[cache'[k]].state = "full"
          PROVE  once'[cache'[k]].value = New(k)
      <3>1. CASE k = key[t]
        BY <1>4, <1>7, <2>1, <3>1 DEF Empty
      <3>2. CASE k # key[t]
        BY <1>0, <1>4, <1>5, <1>7, <2>1, <3>2 DEF CellHoldsCodecOfKey, TypeOK
      <3> QED
        BY <3>1, <3>2
    <2>2. ASSUME NEW u \in Thread, entry'[u] # None, once'[entry'[u]].state = "full"
          PROVE  once'[entry'[u]].value = New(key'[u])
      <3>1. CASE u = t
        BY <1>6, <1>7, <2>2, <3>1 DEF Empty
      <3>2. CASE u # t
        BY <1>0, <1>2, <1>6, <1>7, <2>2, <3>2 DEF CellHoldsCodecOfKey, TypeOK
      <3> QED
        BY <3>1, <3>2
    <2> QED
      BY <2>1, <2>2 DEF CellHoldsCodecOfKey
  <1>13. OneBuilderPerCell'
    <2>1. \A u \in Thread : pc'[u] = "build" => u # t /\ pc[u] = "build" /\ entry[u] \in Cell
      BY <1>0, <1>2 DEF TypeOK, Held
    <2> QED
      BY <1>0, <1>6, <1>7, <2>1 DEF OneBuilderPerCell
  <1> QED
    BY <1>8, <1>9, <1>10, <1>11, <1>12, <1>13 DEF IInv

(* FinishBuild, the step that fills a cell: whoever else refers to the     *)
(* cell refers to it for the same key.                                     *)
LEMMA FinishBuildIInv ==
    ASSUME IInv, NEW t \in Thread, FinishBuild(t)
    PROVE  IInv'
  <1> USE CacheAssumption
  <1>0. /\ TypeOK /\ Held /\ StillMissing
        /\ CellServesOneKey /\ OneBuilderPerCell /\ CellHoldsCodecOfKey
    BY DEF IInv
  <1>1. /\ pc[t] = "build" /\ pc' = [pc EXCEPT ![t] = "init"]
        /\ once' = [once EXCEPT ![entry[t]] = [state |-> "full", value |-> New(key[t])]]
        /\ UNCHANGED <<cache, readers, writer, key, entry, answer>>
    BY DEF FinishBuild, Full
  <1>2. entry[t] \in Cell /\ key[t] \in Key
    BY <1>0, <1>1 DEF TypeOK, Held
  <1>3. /\ once'[entry[t]] = [state |-> "full", value |-> New(key[t])]
        /\ \A d \in Cell \ {entry[t]} : once'[d] = once[d]
    BY <1>0, <1>1, <1>2 DEF TypeOK
  <1>4. TypeOK'
    BY <1>0, <1>1, <1>2 DEF TypeOK, Location
  <1>5. Held' /\ StillMissing'
    BY <1>0, <1>1 DEF Held, StillMissing, TypeOK
  <1>6. CellServesOneKey'
    BY <1>0, <1>1 DEF CellServesOneKey
  <1>7. CellHoldsCodecOfKey'
    <2>1. \A k \in DOMAIN cache' :
            once'[cache'[k]].state = "full" => once'[cache'[k]].value = New(k)
      BY <1>0, <1>1, <1>3 DEF CellHoldsCodecOfKey, CellServesOneKey, TypeOK
    <2>2. \A u \in Thread : entry'[u] # None /\ once'[entry'[u]].state = "full"
            => once'[entry'[u]].value = New(key'[u])
      BY <1>0, <1>1, <1>2, <1>3 DEF CellHoldsCodecOfKey, CellServesOneKey, TypeOK
    <2> QED
      BY <2>1, <2>2 DEF CellHoldsCodecOfKey
  <1>8. OneBuilderPerCell'
    BY <1>0, <1>1, <1>2, <1>3 DEF OneBuilderPerCell, TypeOK, Held, Running
  <1> QED
    BY <1>4, <1>5, <1>6, <1>7, <1>8 DEF IInv

(* BeginBuild, the step that claims an empty cell. *)
LEMMA BeginBuildIInv ==
    ASSUME IInv, NEW t \in Thread, BeginBuild(t)
    PROVE  IInv'
  <1> USE CacheAssumption
  <1>0. /\ TypeOK /\ Held /\ StillMissing
        /\ CellServesOneKey /\ OneBuilderPerCell /\ CellHoldsCodecOfKey
    BY DEF IInv
  <1>1. /\ pc[t] = "init" /\ pc' = [pc EXCEPT ![t] = "build"]
        /\ once[entry[t]].state = "empty"
        /\ once' = [once EXCEPT ![entry[t]] = Running]
        /\ UNCHANGED <<cache, readers, writer, key, entry, answer>>
    BY DEF BeginBuild, MayBuild
  <1>2. entry[t] \in Cell
    BY <1>0, <1>1 DEF TypeOK, Held
  <1>3. /\ once'[entry[t]] = Running /\ Running.state # "full"
        /\ \A d \in Cell \ {entry[t]} : once'[d] = once[d]
    BY <1>0, <1>1, <1>2 DEF TypeOK, Running
  <1>4. TypeOK'
    BY <1>0, <1>1, <1>2 DEF TypeOK, Location
  <1>5. Held' /\ StillMissing'
    BY <1>0, <1>1 DEF Held, StillMissing, TypeOK
  <1>6. CellServesOneKey'
    BY <1>0, <1>1 DEF CellServesOneKey
  <1>7. CellHoldsCodecOfKey'
    BY <1>0, <1>1, <1>3 DEF CellHoldsCodecOfKey, TypeOK
  <1>8. OneBuilderPerCell'
    <2>1. \A u \in Thread : pc[u] = "build" => entry[u] \in Cell /\ entry[u] # entry[t]
      BY <1>0, <1>1 DEF TypeOK, Held, OneBuilderPerCell, Running
    <2> QED
      BY <1>0, <1>1, <1>3, <2>1 DEF OneBuilderPerCell, TypeOK
  <1> QED
    BY <1>4, <1>5, <1>6, <1>7, <1>8 DEF IInv

(* A step that looks a key up takes the cell of that very key. *)
LEMMA LookupIInv ==
    ASSUME IInv, NEW t \in Thread, LookupHit(t) \/ SecondLookHit(t)
    PROVE  IInv'
  <1> USE CacheAssumption
  <1>0. /\ TypeOK /\ Held /\ StillMissing
        /\ CellServesOneKey /\ OneBuilderPerCell /\ CellHoldsCodecOfKey
    BY DEF IInv
  <1>1. /\ pc[t] \in {"lookup", "insert"} /\ pc' = [pc EXCEPT ![t] = "init"]
        /\ key[t] \in DOMAIN cache /\ entry' = [entry EXCEPT ![t] = cache[key[t]]]
        /\ readers' \in {readers, readers \ {t}}
        /\ writer' = IF pc[t] = "insert" THEN None ELSE writer
        /\ UNCHANGED <<cache, once, key, answer>>
    BY DEF LookupHit, SecondLookHit, FoundUnderWriteLock
  <1>2. cache[key[t]] \in Cell
    BY <1>0, <1>1 DEF TypeOK
  <1>3. TypeOK'
    BY <1>0, <1>1, <1>2 DEF TypeOK, Location
  <1>4. Held'
    BY <1>0, <1>1, <1>2 DEF Held, TypeOK
  <1>5. StillMissing'
    BY <1>0, <1>1 DEF StillMissing, TypeOK
  <1>6. CellServesOneKey'
    BY <1>0, <1>1, <1>2 DEF CellServesOneKey, TypeOK
  <1>7. CellHoldsCodecOfKey'
    BY <1>0, <1>1 DEF CellHoldsCodecOfKey, TypeOK
  <1>8. OneBuilderPerCell'
    BY <1>0, <1>1 DEF OneBuilderPerCell, TypeOK
  <1> QED
    BY <1>3, <1>4, <1>5, <1>6, <1>7, <1>8 DEF IInv

(* Return hands out the value of a full cell and drops the Arc. *)
LEMMA ReturnIInv ==
    ASSUME IInv, NEW t \in Thread, Return(t)
    PROVE  IInv' /\ key[t] \in Key /\ answer'[t] = New(key[t])
  <1> USE CacheAssumption
  <1>0. /\ TypeOK /\ Held /\ StillMissing
        /\ CellServesOneKey /\ OneBuilderPerCell /\ CellHoldsCodecOfKey
    BY DEF IInv
  <1>1. /\ pc[t] = "init" /\ pc' = [pc EXCEPT ![t] = "idle"]
        /\ once[entry[t]].state = "full"
        /\ answer' = [answer EXCEPT ![t] = once[entry[t]].value]
        /\ entry' = [entry EXCEPT ![t] = None]
        /\ key' = [key EXCEPT ![t] = None]
        /\ UNCHANGED <<cache, readers, writer, once>>
    BY DEF Return, Ready
  <1>2. entry[t] \in Cell /\ key[t] \in Key
    BY <1>0, <1>1 DEF TypeOK, Held
  <1>3. answer'[t] = New(key[t])
    BY <1>0, <1>1, <1>2 DEF CellHoldsCodecOfKey, TypeOK
  <1>4. TypeOK'
    BY <1>0, <1>1, <1>2, <1>3 DEF TypeOK, Location
  <1>5. Held'
    BY <1>0, <1>1 DEF Held, TypeOK
  <1>6. StillMissing'
    BY <1>0, <1>1 DEF StillMissing, TypeOK
  <1>7. CellServesOneKey'
    BY <1>0, <1>1 DEF CellServesOneKey, TypeOK
  <1>8. CellHoldsCodecOfKey'
    BY <1>0, <1>1 DEF CellHoldsCodecOfKey, TypeOK
  <1>9. OneBuilderPerCell'
    BY <1>0, <1>1 DEF OneBuilderPerCell, TypeOK
  <1> QED
    BY <1>2, <1>3, <1>4, <1>5, <1>6, <1>7, <1>8, <1>9 DEF IInv

(* The steps that only move a thread: a call, the two locks, the misses. *)
LEMMA MoveIInv ==
    ASSUME IInv, NEW t \in Thread,
           \/ \E k \in Key : Call(t, k)
           \/ LockShared(t) \/ LookupMiss(t)
           \/ LockExclusive(t) \/ SecondLookMiss(t)
    PROVE  IInv'
  <1> USE CacheAssumption
  <1>0. /\ TypeOK /\ Held /\ StillMissing
        /\ CellServesOneKey /\ OneBuilderPerCell /\ CellHoldsCodecOfKey
    BY DEF IInv
  <1>1. UNCHANGED <<cache, once, entry, answer>>
    BY DEF Call, LockShared, LookupMiss, LockExclusive, SecondLookMiss
  <1>2. TypeOK'
    BY <1>0 DEF TypeOK, Location, Call, LockShared, LookupMiss, LockExclusive, SecondLookMiss
  <1>3. Held'
    BY <1>0 DEF TypeOK, Held, Call, LockShared, LookupMiss, LockExclusive, SecondLookMiss
  <1>4. StillMissing'
    BY <1>0 DEF TypeOK, Held, StillMissing, Call, LockShared, LookupMiss, LockExclusive,
                SecondLookMiss, FoundUnderWriteLock
  <1>5. \A u \in Thread : /\ entry[u] # None => key'[u] = key[u]
                          /\ pc'[u] = "build" => pc[u] = "build"
    BY <1>0 DEF TypeOK, Held, Call, LockShared, LookupMiss, LockExclusive, SecondLookMiss
  <1>6. \A k \in DOMAIN cache : cache[k] # None
    BY <1>0 DEF TypeOK
  <1>7. CellServesOneKey'
    BY <1>0, <1>1, <1>5, <1>6 DEF CellServesOneKey
  <1>8. CellHoldsCodecOfKey'
    BY <1>0, <1>1, <1>5 DEF CellHoldsCodecOfKey
  <1>9. OneBuilderPerCell'
    BY <1>0, <1>1, <1>5 DEF OneBuilderPerCell
  <1> QED
    BY <1>2, <1>3, <1>4, <1>7, <1>8, <1>9 DEF IInv

LEMMA NextIInv == IInv /\ [Next]_vars => IInv'
  <1> SUFFICES ASSUME IInv, [Next]_vars PROVE IInv'
    OBVIOUS
  <1>1. CASE UNCHANGED vars
    BY <1>1 DEF vars, IInv, TypeOK, Held, StillMissing, CellServesOneKey,
                OneBuilderPerCell, CellHoldsCodecOfKey
  <1>2. ASSUME NEW t \in Thread, NEW k \in Key, Call(t, k) PROVE IInv'
    BY <1>2, MoveIInv
  <1>3. ASSUME NEW t \in Thread, Step(t) PROVE IInv'
    BY <1>3, MoveIInv, LookupIInv, PutIInv, BeginBuildIInv, ReturnIInv DEF Step
  <1>4. ASSUME NEW t \in Thread, FinishBuild(t) PROVE IInv'
    BY <1>4, FinishBuildIInv
  <1> QED
    BY <1>1, <1>2, <1>3, <1>4 DEF Next

LEMMA Invariance == Spec => []IInv
  BY InitIInv, NextIInv, PTL DEF Spec

-----------------------------------------------------------------------------
(* Every variable has its type in every reachable state. *)
THEOREM Typed == Spec => []TypeOK
  <1>1. IInv => TypeOK
    BY DEF IInv
  <1> QED
    BY <1>1, Invariance, PTL

(* No interleaving of lookups, evictions and builds leaves the codec of    *)
(* other shard counts where get would hand it out (lib.rs 684-699).        *)
THEOREM RightCodec == Spec => []CellHoldsCodecOfKey
  <1>1. IInv => CellHoldsCodecOfKey
    BY DEF IInv
  <1> QED
    BY <1>1, Invariance, PTL

(* The second look keeps the cell of a cached key in place (lib.rs 690).   *)
THEOREM NoReplacement == Spec => EntryNeverReplaced
  <1>1. ASSUME IInv, [Next]_vars
        PROVE  [\A k \in DOMAIN cache \cap DOMAIN cache' : cache'[k] = cache[k]]_vars
    <2> SUFFICES ASSUME NEW k \in DOMAIN cache, k \in DOMAIN cache' PROVE cache'[k] = cache[k]
      OBVIOUS
    <2>1. CASE UNCHANGED cache
      BY <2>1
    <2>2. ASSUME NEW t \in Thread, Put(t) PROVE cache'[k] = cache[k]
      <3>1. key[t] \notin DOMAIN cache
        BY <1>1, <2>2 DEF IInv, StillMissing, Put
      <3>2. PICK c \in Cell, S \in Survivors(DOMAIN cache \cup {key[t]}, key[t]) :
              cache' = [l \in S |-> IF l = key[t] THEN c ELSE cache[l]]
        BY <2>2 DEF Put
      <3> QED
        BY <3>1, <3>2
    <2>3. ASSUME NEW t \in Thread, Step(t) \/ FinishBuild(t) \/ \E l \in Key : Call(t, l)
          PROVE  Put(t) \/ UNCHANGED cache
      BY <2>3 DEF Step, Call, LockShared, LookupHit, LookupMiss, LockExclusive,
                  SecondLookHit, SecondLookMiss, BeginBuild, FinishBuild, Return
    <2> QED
      BY <1>1, <2>1, <2>2, <2>3 DEF Next, vars
  <1> QED
    BY <1>1, Invariance, PTL DEF Spec, EntryNeverReplaced

(* get implements the service that computes every answer afresh: a call is *)
(* the request, the return of a full cell is the reply, and every other    *)
(* step, evictions included, is invisible.                                 *)
THEOREM Refinement == Spec => ServiceSpec
  <1>1. Init => Service!Init
    BY DEF Init, Service!Init
  <1>2. ASSUME IInv, [Next]_vars
        PROVE  [Service!Next]_(Service!serviceVars)
    <2>0. key \in [Thread -> Key \cup {None}] /\ answer \in [Thread -> {New(k) : k \in Key} \cup {None}]
      BY <1>2 DEF IInv, TypeOK
    <2>1. CASE UNCHANGED vars
      BY <2>1 DEF vars, Service!serviceVars
    <2>2. ASSUME NEW t \in Thread, NEW k \in Key, Call(t, k) PROVE Service!Ask(t, k)
      BY <1>2, <2>2 DEF Call, Service!Ask, IInv, Held
    <2>3. ASSUME NEW t \in Thread, Return(t) PROVE Service!Reply(t)
      <3>1. key[t] \in Key /\ answer'[t] = New(key[t])
        BY <1>2, <2>3, ReturnIInv
      <3>2. answer' = [answer EXCEPT ![t] = New(key[t])]
        BY <2>0, <2>3, <3>1 DEF Return
      <3> QED
        BY <2>3, <3>1, <3>2, CacheAssumption DEF Return, Service!Reply
    <2>4. ASSUME NEW t \in Thread, Step(t) \/ FinishBuild(t), ~Return(t)
          PROVE  UNCHANGED Service!serviceVars
      BY <2>4 DEF Step, LockShared, LookupHit, LookupMiss, LockExclusive, SecondLookHit,
                  SecondLookMiss, Put, BeginBuild, FinishBuild, Service!serviceVars
    <2> QED
      BY <1>2, <2>1, <2>2, <2>3, <2>4 DEF Next, Service!Next
  <1> QED
    BY <1>1, <1>2, Invariance, PTL DEF Spec, ServiceSpec, Service!Spec

-----------------------------------------------------------------------------
(* Without evictions, the cell a call holds is the one the cache holds. *)
HeldIsCached ==
    \A t \in Thread :
      entry[t] # None => key[t] \in DOMAIN cache /\ cache[key[t]] = entry[t]

(* While all keys together stay below twice the capacity, put evicts none. *)
LEMMA NoEviction ==
    ASSUME IsFiniteSet(Key), Cardinality(Key) < 2 * Capacity,
           NEW keys \in SUBSET Key, NEW k
    PROVE  Survivors(keys, k) = {keys}
  <1>1. Cardinality(keys) <= Cardinality(Key)
    BY FS_Subset
  <1>2. Cardinality(keys) \in Nat /\ Cardinality(Key) \in Nat
    BY FS_Subset, FS_CardinalityType
  <1>3. Cardinality(keys) < 2 * Capacity
    BY <1>1, <1>2, CacheAssumption
  <1> QED
    BY <1>3 DEF Survivors

LEMMA HeldIsCachedStep ==
    ASSUME IsFiniteSet(Key), Cardinality(Key) < 2 * Capacity,
           IInv, HeldIsCached, [Next]_vars
    PROVE  HeldIsCached'
  <1>0. TypeOK /\ Held /\ StillMissing
    BY DEF IInv
  <1>1. CASE UNCHANGED <<cache, key, entry>>
    BY <1>1 DEF HeldIsCached
  <1>2. ASSUME NEW t \in Thread, Put(t) PROVE HeldIsCached'
    <2>1. key[t] \in Key /\ key[t] \notin DOMAIN cache
      BY <1>0, <1>2, CacheAssumption DEF TypeOK, Held, StillMissing, Put
    <2>2. Survivors(DOMAIN cache \cup {key[t]}, key[t]) = {DOMAIN cache \cup {key[t]}}
      BY <1>0, <2>1, NoEviction DEF TypeOK
    <2>3. PICK c \in Cell :
            /\ cache' = [k \in DOMAIN cache \cup {key[t]} |-> IF k = key[t] THEN c ELSE cache[k]]
            /\ entry' = [entry EXCEPT ![t] = c]
      BY <1>2, <2>2 DEF Put
    <2>4. key' = key
      BY <1>2 DEF Put
    <2> QED
      BY <1>0, <2>1, <2>3, <2>4 DEF HeldIsCached, TypeOK
  <1>3. ASSUME NEW t \in Thread, LookupHit(t) \/ SecondLookHit(t) PROVE HeldIsCached'
    BY <1>0, <1>3 DEF HeldIsCached, TypeOK, LookupHit, SecondLookHit, FoundUnderWriteLock
  <1>4. ASSUME NEW t \in Thread, Return(t) \/ \E k \in Key : Call(t, k) PROVE HeldIsCached'
    BY <1>0, <1>4 DEF HeldIsCached, TypeOK, Held, Return, Call
  <1>5. ASSUME NEW t \in Thread,
               \/ LockShared(t) \/ LookupMiss(t) \/ LockExclusive(t)
               \/ SecondLookMiss(t) \/ BeginBuild(t) \/ FinishBuild(t)
        PROVE  UNCHANGED <<cache, key, entry>>
    BY <1>5 DEF LockShared, LookupMiss, LockExclusive, SecondLookMiss, BeginBuild, FinishBuild
  <1> QED
    BY <1>1, <1>2, <1>3, <1>4, <1>5 DEF Next, Step, vars

(* A codec is built by one thread only, and the others that want it find   *)
(* the cell it is built in (the comment at lib.rs 696), as long as the     *)
(* keys in use cannot fill the cache.                                      *)
THEOREM SingleBuild ==
    ASSUME IsFiniteSet(Key)
    PROVE  Spec => []OneBuildPerKey
  <1>1. CASE Cardinality(Key) < 2 * Capacity
    <2>1. Init => HeldIsCached
      BY DEF Init, HeldIsCached
    <2>2. IInv /\ HeldIsCached /\ [Next]_vars => HeldIsCached'
      BY <1>1, HeldIsCachedStep
    <2>3. IInv /\ HeldIsCached => OneBuildPerKey
      BY DEF IInv, Held, HeldIsCached, OneBuilderPerCell, OneBuildPerKey
    <2> QED
      BY <2>1, <2>2, <2>3, Invariance, PTL DEF Spec
  <1>2. CASE ~(Cardinality(Key) < 2 * Capacity)
    <2>1. OneBuildPerKey
      BY <1>2 DEF OneBuildPerKey
    <2> QED
      BY <2>1, PTL
  <1> QED
    BY <1>1, <1>2
=============================================================================
