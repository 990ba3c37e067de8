-------------------------- MODULE ReedSolomonCache --------------------------
(***************************************************************************)
(* The cache of Reed-Solomon codecs that concurrent recover calls share    *)
(* (lib.rs 657-707): RwLock<LruCache<key, Arc<OnceLock<codec>>>>.  get     *)
(* looks its key up under the shared lock, falls back to the exclusive     *)
(* lock on a miss, looks again, puts an empty cell, and initialises the    *)
(* cell after every lock is released.                                      *)
(*                                                                         *)
(* The lock, the LRU map and OnceLock are libraries: they are modelled by  *)
(* what this code relies on.  LruCache::put may evict any keys but the one *)
(* just put; the real cache picks the least recently used ones.  A cell no *)
(* one refers to any more (its Arc count is zero) is free for reuse.       *)
(***************************************************************************)
EXTENDS Naturals, FiniteSets

CONSTANTS
    Thread,     \* threads that call get
    Key,        \* (data_shards, parity_shards) pairs
    Cell,       \* heap cells, each an Arc<OnceLock<_>>
    New(_),     \* the result of ReedSolomon::new for a key, Ok or Err
    Capacity,   \* Self::CAPACITY
    None        \* no thread, key, cell or codec

ASSUME CacheAssumption ==
    /\ Capacity \in Nat \ {0}
    /\ None \notin Thread \cup Key \cup Cell
    /\ \A k \in Key : New(k) # None

VARIABLES
    cache,      \* the LruCache: a function from the cached keys to cells
    readers,    \* threads that hold the RwLock shared
    writer,     \* the thread that holds the RwLock exclusively, or None
    once,       \* once[c]: state and value of the OnceLock in cell c
    pc,         \* where each thread is in get
    key,        \* the key of the thread's call in progress, or None
    entry,      \* the local `entry`: the cell the thread holds an Arc of
    answer      \* what the thread's last call returned, or None

vars == <<cache, readers, writer, once, pc, key, entry, answer>>

Location == {"idle", "read", "lookup", "write", "insert", "put", "init", "build"}

Empty == [state |-> "empty", value |-> None]
Running == [state |-> "running", value |-> None]
(* Slip: the cell is marked full before its value is stored. *)
FullBeforeValue(v) == [state |-> "full", value |-> None]

Full(v) == [state |-> "full", value |-> v]

Init ==
    /\ cache = [k \in {} |-> None]
    /\ readers = {}
    /\ writer = None
    /\ once = [c \in Cell |-> Empty]
    /\ pc = [t \in Thread |-> "idle"]
    /\ key = [t \in Thread |-> None]
    /\ entry = [t \in Thread |-> None]
    /\ answer = [t \in Thread |-> None]

-----------------------------------------------------------------------------
(* Slip: an evicted cell is reused although a call still holds it. *)
ReferencedByCacheOnly == {cache[k] : k \in DOMAIN cache}

(* Cells with an Arc in the cache or in a local variable of a call. *)
Referenced ==
    {cache[k] : k \in DOMAIN cache} \cup {entry[t] : t \in Thread}

(* The sets of keys that may be left after LruCache::put has added k: all  *)
(* of them below twice the capacity, Capacity of them from there on.       *)
Survivors(keys, k) ==
    IF Cardinality(keys) < 2 * Capacity
    THEN {keys}
    ELSE {S \in SUBSET keys : k \in S /\ Cardinality(S) = Capacity}

(* The shared lock can be taken.  Slip: only when no build is running, as  *)
(* if cells were filled under the lock.                                    *)
SharedLockFreeAfterBuilds == writer = None /\ \A t \in Thread : pc[t] # "build"
SharedLockFree == writer = None

(* The second look under the exclusive lock: is the key cached by now?     *)
(* Slip: no second look.                                                   *)
NoSecondLook(k) == FALSE
FoundUnderWriteLock(k) == k \in DOMAIN cache

(* Where a thread goes with the cell it has put: to get_or_init.  Slip:    *)
(* back to the lookup.                                                     *)
RetryAfterPut == "read"
AfterPut == "init"

(* get_or_init runs the closure iff the cell is empty.  Slip: get, then    *)
(* build and set.                                                          *)
MayBuildUnlessFull(c) == once[c].state # "full"
MayBuild(c) == once[c].state = "empty"

(* get_or_init returns once the cell is full.  Slip: it does not wait.     *)
ReadyAtOnce(c) == TRUE
Ready(c) == once[c].state = "full"

-----------------------------------------------------------------------------
(* A caller enters get with its key. *)
Call(t, k) ==
    /\ pc[t] = "idle"
    /\ pc' = [pc EXCEPT ![t] = "read"]
    /\ key' = [key EXCEPT ![t] = k]
    /\ UNCHANGED <<cache, readers, writer, once, entry, answer>>

(* self.0.read() *)
LockShared(t) ==
    /\ pc[t] = "read"
    /\ SharedLockFree
    /\ readers' = readers \cup {t}
    /\ pc' = [pc EXCEPT ![t] = "lookup"]
    /\ UNCHANGED <<cache, writer, once, key, entry, answer>>

(* .get(&key).cloned(), which also ends the temporary read guard. *)
LookupHit(t) ==
    /\ pc[t] = "lookup"
    /\ key[t] \in DOMAIN cache
    /\ entry' = [entry EXCEPT ![t] = cache[key[t]]]
    /\ readers' = readers \ {t}
    /\ pc' = [pc EXCEPT ![t] = "init"]
    /\ UNCHANGED <<cache, writer, once, key, answer>>

LookupMiss(t) ==
    /\ pc[t] = "lookup"
    /\ key[t] \notin DOMAIN cache
    /\ readers' = readers \ {t}
    /\ pc' = [pc EXCEPT ![t] = "write"]
    /\ UNCHANGED <<cache, writer, once, key, entry, answer>>

(* self.0.write() *)
LockExclusive(t) ==
    /\ pc[t] = "write"
    /\ writer = None
    /\ readers = {}
    /\ writer' = t
    /\ pc' = [pc EXCEPT ![t] = "insert"]
    /\ UNCHANGED <<cache, readers, once, key, entry, answer>>

(* The second look, cache.get(&key): another thread has inserted the key   *)
(* between the two looks, take its cell and drop the write guard.          *)
SecondLookHit(t) ==
    /\ pc[t] = "insert"
    /\ FoundUnderWriteLock(key[t])
    /\ entry' = [entry EXCEPT ![t] = cache[key[t]]]
    /\ writer' = None
    /\ pc' = [pc EXCEPT ![t] = "init"]
    /\ UNCHANGED <<cache, readers, once, key, answer>>

SecondLookMiss(t) ==
    /\ pc[t] = "insert"
    /\ ~FoundUnderWriteLock(key[t])
    /\ pc' = [pc EXCEPT ![t] = "put"]
    /\ UNCHANGED <<cache, readers, writer, once, key, entry, answer>>

(* cache.put(key, Arc::clone(&entry)) of a new empty cell, which evicts if *)
(* the map is full; the write guard is dropped with it.                    *)
Put(t) ==
    /\ pc[t] = "put"
    /\ \E c \in Cell \ Referenced, S \in Survivors(DOMAIN cache \cup {key[t]}, key[t]) :
         /\ cache' = [k \in S |-> IF k = key[t] THEN c ELSE cache[k]]
         /\ once' = [once EXCEPT ![c] = Empty]
         /\ entry' = [entry EXCEPT ![t] = c]
    /\ writer' = None
    /\ pc' = [pc EXCEPT ![t] = AfterPut]
    /\ UNCHANGED <<readers, key, answer>>

(* get_or_init on an empty cell: this thread runs the closure. *)
BeginBuild(t) ==
    /\ pc[t] = "init"
    /\ MayBuild(entry[t])
    /\ once' = [once EXCEPT ![entry[t]] = Running]
    /\ pc' = [pc EXCEPT ![t] = "build"]
    /\ UNCHANGED <<cache, readers, writer, key, entry, answer>>

(* ReedSolomon::new(data_shards, parity_shards) is done; Ok or Err, the    *)
(* result is what the cell keeps.                                          *)
FinishBuild(t) ==
    /\ pc[t] = "build"
    /\ once' = [once EXCEPT ![entry[t]] = Full(New(key[t]))]
    /\ pc' = [pc EXCEPT ![t] = "init"]
    /\ UNCHANGED <<cache, readers, writer, key, entry, answer>>

(* The cell is full: clone its value, drop the Arc, return. *)
Return(t) ==
    /\ pc[t] = "init"
    /\ Ready(entry[t])
    /\ answer' = [answer EXCEPT ![t] = once[entry[t]].value]
    /\ entry' = [entry EXCEPT ![t] = None]
    /\ key' = [key EXCEPT ![t] = None]
    /\ pc' = [pc EXCEPT ![t] = "idle"]
    /\ UNCHANGED <<cache, readers, writer, once>>

(* The steps of a call in progress that do not depend on how long          *)
(* ReedSolomon::new takes.                                                 *)
Step(t) ==
    \/ LockShared(t) \/ LookupHit(t) \/ LookupMiss(t)
    \/ LockExclusive(t) \/ SecondLookHit(t) \/ SecondLookMiss(t) \/ Put(t)
    \/ BeginBuild(t) \/ Return(t)

Next ==
    \E t \in Thread :
        \/ \E k \in Key : Call(t, k)
        \/ Step(t)
        \/ FinishBuild(t)

Spec == Init /\ [][Next]_vars

-----------------------------------------------------------------------------
(* Fairness.  A thread inside get keeps being scheduled, so a step of its  *)
(* that stays enabled is taken.  Nothing is assumed of the RwLock's        *)
(* queueing policy (a lock that is only now and then free may be missed),  *)
(* and callers are never obliged to call.  Nor is there a promise that a   *)
(* running ReedSolomon::new ever ends: FinishBuild is not fair.            *)
FairSpec == Spec /\ \A t \in Thread : WF_vars(Step(t))

-----------------------------------------------------------------------------
(* Every variable has its type. *)
TypeOK ==
    /\ DOMAIN cache \subseteq Key
    /\ cache \in [DOMAIN cache -> Cell]
    /\ readers \subseteq Thread
    /\ writer \in Thread \cup {None}
    /\ once \in [Cell -> {Empty, Running}
                 \cup {[state |-> "full", value |-> New(k)] : k \in Key}]
    /\ pc \in [Thread -> Location]
    /\ key \in [Thread -> Key \cup {None}]
    /\ entry \in [Thread -> Cell \cup {None}]
    /\ answer \in [Thread -> {New(k) : k \in Key} \cup {None}]

(* A full cell that the cache holds under a key, or that a thread holds    *)
(* for its key, has the codec of that key: however lookups, evictions and  *)
(* builds of other keys interleave (lib.rs 684-699), no caller can be      *)
(* handed the codec of other shard counts.                                 *)
CellHoldsCodecOfKey ==
    /\ \A k \in DOMAIN cache :
         once[cache[k]].state = "full" => once[cache[k]].value = New(k)
    /\ \A t \in Thread :
         entry[t] # None /\ once[entry[t]].state = "full"
           => once[entry[t]].value = New(key[t])

(* While the keys in use cannot fill the cache, a codec is built by one    *)
(* thread only (the comment at lib.rs 696): whoever builds does it in the  *)
(* cell the cache holds, and everyone else with that key waits for it.     *)
OneBuildPerKey ==
    Cardinality(Key) < 2 * Capacity =>
      \A t \in Thread : pc[t] = "build" =>
        /\ key[t] \in DOMAIN cache
        /\ cache[key[t]] = entry[t]
        /\ \A u \in Thread \ {t} : key[u] = key[t] =>
             pc[u] # "build" /\ entry[u] \in {None, entry[t]}

(* No step replaces the cell of a key that stays cached: the second look   *)
(* under the exclusive lock (lib.rs 690) keeps a thread that lost the race *)
(* from throwing away the winner's cell.                                   *)
EntryNeverReplaced ==
    [][\A k \in DOMAIN cache \cap DOMAIN cache' : cache'[k] = cache[k]]_vars

(* The cache is invisible: get behaves as if each call computed            *)
(* ReedSolomon::new for its own key.                                       *)
Service == INSTANCE CodecService WITH asked <- key
ServiceSpec == Service!Spec

(* New calls keep arriving for ever. *)
CallsNeverEnd == []<><<\E t \in Thread, k \in Key : Call(t, k)>>_vars

(* A build that never ends. *)
BuildNeverEnds == \E t \in Thread : <>[](pc[t] = "build")

(* If all builds end, a call that nothing newer keeps interrupting         *)
(* returns: no thread is left waiting on a lock or on a cell that nobody   *)
(* fills.                                                                  *)
CallsReturn ==
    CallsNeverEnd \/ BuildNeverEnds \/ \A t \in Thread : (key[t] # None) ~> (key[t] = None)

(* Cells are filled outside the locks (lib.rs 665, 696): a build that      *)
(* never ends holds up only the calls that share its cell.                 *)
SlowBuildBlocksOnlyItsCell ==
    CallsNeverEnd \/
    \A t \in Thread :
      (key[t] # None)
        ~> (key[t] = None \/ (entry[t] # None /\ once[entry[t]].state = "running"))
=============================================================================
