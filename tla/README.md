# Verification of lightweight-shred

TLA+ models of the shred parsing and recovery library in `src/`, model-checked
with TLC, with proofs for TLAPS. Paths below are relative to `src/src/`.

## 1. The system

The crate takes raw packets, filters and parses them into shreds, and rebuilds
the missing shreds of an erasure set. It owns no threads, sockets or files: its
callers do, and call it from many threads at once. What they share through it is
the cache of Reed-Solomon codecs, and the bytes that clones of a payload have in common.

```
 packet --> should_discard_shred --> Shred::new_from_serialized_shred --> (caller's store)
              (fetch filter)              (parser, sanitize)                    |
                                                                                v
            ReedSolomonCache::get <---- recover / recover_data_only <---- one erasure set
             (shared by threads)             |
                                        MerkleTree
```

| Component | State | Operations | Hard behaviour | What makes it correct |
|---|---|---|---|---|
| Codec cache (`lib.rs` 657-707) | `RwLock<LruCache<(data, parity), Arc<OnceLock<codec>>>>` | `get` | two lookups with a gap between the locks; eviction of cells in use; several threads initialising one cell; an error as a cached value | a caller gets the codec of its own key; one build per key while nothing is evicted; a slow build holds up only its own cell; calls return |
| Merkle tree (`merkle_tree.rs`; `merkle.rs` 332-374, 587-606) | flat vector of nodes | `try_new`, `root`, `make_merkle_proof`, `get_merkle_root`, `get_proof_size` | odd layers, clamped siblings, wrong sizes and indices, truncated proofs | the vector is the tree; every leaf is provable within the proof field; false claims are refused |
| Recovery (`merkle.rs` 608-950) | a batch of shreds and stubs with a mask, then a lazy iterator | `recover`, `recover_data_only` | shreds missing, doubled, altered, of a fork, in any order; leaders that erred; iterator drained late, in part or never | every shred in its place; what is yielded verifies and reparses; all missing shreds come back; both paths agree |
| Fetch filter (`lib.rs` 747-912, `blockstore_meta.rs`) | none of its own; the caller's root | `should_discard_shred` | wrapping arithmetic at the limits, the exception for slot 0, the root that moves after the check | what passes fits together in `recover`, but for coding shreds that `erasure_mismatch` tells apart; the last shred ends its set; implies the parser's range checks |
| Parser (`lib.rs` 392-407, `merkle.rs` 458-554, `shred_data.rs`, `shred_code.rs`, `traits.rs`) | none | `new_from_serialized_shred`, `sanitize`, `erasure_shard_index`, `parent` | limits; inconsistent headers; buffers too long or too short | refuses what recovery cannot place; keeps nothing of what follows the payload |
| Wire layout (`wire.rs`, `lib.rs` 104-127, 246-272, 558-655, `merkle.rs` 256-447) | none | getters and setters on bytes, `ShredVariant` to and from `u8` | offsets that depend on the variant, written down in three places | getters agree with the deserialized headers; setters disturb nothing else; data and coding shards are equally long |
| Shred identity (`lib.rs` 280-343, 519-535, `merkle.rs` 243) | none | `id`, `erasure_set`, `is_shred_duplicate`, `erasure_mismatch` | the retransmitter signature, which is not part of the comparison; shreds rebuilt from those of several relays | duplicates and mismatches are exactly the forks of a leader |
| Payload (`payload.rs`, `common.rs`) | reference-counted bytes, a write guard | `as_mut`, `get_mut`, `truncate`, drop of the guard | clones that share the bytes and come and go on other threads; the payload is empty while the guard lives | a write is seen by one owner only |
| Signatures (`lib.rs` 490, `merkle.rs` 376-414, `wire.rs` 213-250) | none | `verify`, `set_signature`, retransmitter signature | header field and payload bytes are written separately; relays write raw bytes | both always agree; what relays write never breaks the leader's signature |
| Statistics (`stats.rs`) | counters, the time of the last submission | `maybe_submit`, `record_*`, `+=` | bucket arithmetic, reset by time, counts that are not discards | the sums account for every packet; what workers recorded is in the sum as often as it was added |

`PROJECT.json` lists the hazards of this code at their lines, with the properties
that watch them. Those without a property say why.

## 2. Modules

| Module | Models | How it corresponds to the code |
|---|---|---|
| `CodecService` | what `ReedSolomonCache::get` promises | a thread asks for a key and is answered with `New(key)`; nothing else exists |
| `ReedSolomonCache` | `ReedSolomonCache::get` | one action per step another thread can observe: lock shared, look up (hit or miss, guard dropped), lock exclusively, second look, `put`, begin and finish `get_or_init`, return |
| `MerkleTree` | `merkle_tree.rs`, leaf hash and proof field of `merkle.rs` | pure operators with the source's names; a hash is the tuple of what was hashed |
| `ErasureCodec` | the `reed_solomon_erasure` library | external: polynomial interpolation over a small prime field, so every choice of missing shards and every inconsistent shard has its true effect |
| `Recovery` | `recover` and `recover_data_only` | sort and header (`CallFast`, `CallFull`, with one `Start` that says where the heads differ); then each function's own copy: `FastFill` per round of the fill loop, `FastDecode`, `Extract`, and `Fill`, `Decode`, `Verify`, `Iterate`, `Drop` |
| `RecoveryService` | what `recover` promises | refuses, or settles on one block that the caller's shreds belong to, and gives the rest of it out in order |
| `ShredFetch` | filter and parser | `Keep` is a packet that passes the filter, `Parse` the parser on it, `NewRoot` and `HandOver` are the caller |
| `FetchStats` | `ShredFetchStats` | `Filter` is `should_discard_shred` with its checks in the order of the code, each with its counter; `MaybeSubmit`, the clock, new statistics |
| `ShredLayout` | sizes and offsets, the variant byte | pure operators with the source's names, for real sizes |
| `ShredWire` | `wire.rs`, setters, headers, identity, stubs, on bytes | `Send` puts a leader's shred into a buffer of some size, `Resign` is a relay (`wire::set_retransmitter_signature`), `Receive` the parser, `Recover` the byte side of `recover` |
| `PayloadValues` | what a payload promises | each owner has bytes of its own |
| `Payload` | `payload.rs` | `Take` opens a guard and looks whether the bytes are shared, `Copy` makes them writable if so, `WriteByte`, `Release` is the guard's drop; `Create`, `Clone`, `Truncate`, `Drop` |
| `ProcessStats` | `ProcessShredsStats` | `record_num_data_shreds`, `record_shred`, `Add` (`+=`, which leaves the worker as it is), `submit`; `BeginAnew` is the caller, with new statistics for a worker |
| `MC...` | instances for TLC | contents, blocks and packets to check with; `MCMerkleTree` also has a prover and a verifier for the pure tree operators |
| `TreeDefinition` | what the tree should be | the layers of a tree, a node's sibling, a leaf's path, by level and index and without a flat vector |
| `DataInduction` | none | sequences, folds and sums, induction and recursion over data, for the proofs |
| `MerkleTreeProofs`, `MCMerkleTreeProofs`, `RecoveryProofs`, `ShredFetchProofs`, `ReedSolomonCacheProofs`, `PayloadProofs`, `ShredWireProofs` | proofs | section 5 |

`Recovery` EXTENDS `MerkleTree`; `MCRecovery` gives its codec constants the operators of
`ErasureCodec`, and two blocks for `SoundBlocks`. `FetchStats` EXTENDS `ShredFetch`, `ShredWire` EXTENDS `ShredLayout`. Three modules
INSTANCE their abstract specification for a refinement: `ReedSolomonCache` has `CodecService`
(`asked <- key`), `Payload` has `PayloadValues` (a value is what the owner's buffer holds, or
what its guard has taken), `Recovery` has `RecoveryService` (the promised block is the batch
with the proofs that the iterator will make, from the moment `recover` returns).

Some definitions stand next to a "slip": the same definition with a plausible bug (a
dropped check, an index that is off). Slips are used by no specification. The mutants
of `PROJECT.json` put one in place of the original to show that a property can
tell them apart.

### What is abstracted

* *Cache.* The `LruCache` may evict any keys but the one just put, once it has reached
  twice its capacity (`lazy_lru` evicts lazily, down to the capacity); the real one
  picks the least recently used. Cells come from a finite set and are reused when no
  `Arc` refers to them. Lock poisoning is left out: nothing that runs under a lock panics.
* *Merkle tree.* SHA-256 is collision-free, also when cut to 20 bytes. After an error the
  proof iterator of the code repeats it; the model stops, as every caller does.
* *Recovery.* A shred has two erasure-coded columns: the index and FEC set in its headers,
  and all the rest. The retransmitter signature lies behind the proof, outside of all that is
  hashed or compared here (`ShredWire` has it). That all shreds agree in FEC set and batch size
  is a debug assertion (`merkle.rs` 649-685, 873); here they may differ as in a release
  build. Slot and version take part in one comparison only, where they fare like the
  FEC set; the variant is a constant. A data shard whose
  headers do not even deserialize counts as one that does not match its stub: either
  way `recover` fails and `recover_data_only` skips it. The codec is a function of its key,
  or an error (`CodecOk`): the refinement of `CodecService` says that the cache gives nothing else.
  `index - position` is never negative here because the parser has checked it.
* *Fetch.* A packet is a record of the fields that are looked at. `u32` arithmetic
  wraps at `MaxU32`, or fails, as the code has it. Branches for fields that cannot
  be read are left out: a buffer of the full size does not reach them.
* *Wire.* A buffer is a sequence of bytes, each known by the value that it is a part of and the offsets
  this value was written to; reading gives a value back only if exactly its bytes are read. Headers
  are serialized field by field with their widths; that numbers fit these is the parser's and the
  leader's business. `get_erasure_config` unwraps the variant: a byte that names none is `Panic`. The signature of a block is over its Merkle root, so
  blocks have different ones (`BlockAssumption`). A Merkle root is the triple of index, hashed bytes and proof
  (`MerkleTree` is about the rest), and a signature verifies if its leader has signed that
  root. Reconstruction gives the bytes the leader encoded, if the shards are equally long
  (`Recovery` is about what it gives otherwise).
* *Payload.* A `Bytes` is a view of the first `len` bytes of a heap buffer. Whether the buffer is
  shared is decided when the guard opens, and copied in a later step: clones on other threads may
  go in between. A guard borrows its owner, so the owner does nothing else. Ranges begin within
  the payload, as those of all callers do: `get_mut` looks at their end only.
* *Statistics.* Counters that only callers write are one (`elapsed`), and those that no input
  can reach are left out. `u64` counters do not overflow. `leading_zeros` counts the bits of a number by
  halving it, up to the width of `usize`, in which every recorded size fits (`WidthAssumption`). Metrics are not sent by this crate.

## 3. Runs

| Run | Instance | Question |
|---|---|---|
| `cache_evicting` | 3 threads, 2 keys, capacity 1, 4 cells | types, right codec, no replacement, refinement of `CodecService`, with evictions |
| `cache_roomy` | 3 threads, 3 keys, capacity 2 | one build per key when nothing is evicted |
| `cache_liveness` | 2 threads, 2 keys, capacity 1, fair | calls return if builds end; a build that never ends holds up only its cell |
| `merkle_tree` | up to 6 leaves, 2 contents | layout, provability, wrong requests, false claims |
| `recovery` | 2 data and 3 coding shreds, at most 4 at a time; blocks that mix sets and sizes | all properties of `Recovery`, refinement of `RecoveryService` |
| `fetch` | sets of 2, slots of 4, `u32` up to 7, 2 packets at a time | all properties of `ShredFetch` |
| `fetch_slot_range` | same | the slot range of the comment at `lib.rs` 754 (violated) |
| `fetch_legacy` | same, parser called directly | legacy shreds as of the repository's `README.md` 9 (violated) |
| `fetch_stats` | same limits, 2 packets between submissions, 4 points of time, cadence 2 | sums of the counters, submissions spaced |
| `shred_wire` | 2 competing blocks of 3 shreds, 2 relays, 3 shreds received, real sizes | getters, signatures in transit, duplicates, mismatches, shard lengths |
| `payload` | 3 owners, 3 buffers, 2 bytes of 2 values | types, ranges within a shortened payload, exclusive writing, refinement of `PayloadValues` |
| `process_stats` | 2 workers, 3 events, 8-bit sizes | every event in the right counter, and in the sum as often as added |

Why the bounds are enough:

* Three threads allow one that builds, one that races it, and one that evicts. Four
  cells are one for each thread and one more for an entry no thread holds; a smaller
  number would disable `Put`. With capacity 1 the second key in the map makes `put`
  evict. One of the keys has an error as its codec. Symmetry (threads, cells) is used
  in the safety runs only.
* Six leaves give batches with an odd bottom layer (3, 5), with an odd layer further up
  (5, 6), and powers of two (1, 2, 4). Claims range over twice as many indices, proofs over all
  prefixes, requests over all sizes.
* Two data and three coding shreds make five shards, an odd number, with more than one
  shard of each type missing at once. The inputs are all sequences of up to four of the
  shreds of a sound block and of three altered shreds, and up to three with shreds of a
  fork or of five malformed blocks (bad parity, insane header, header of another
  place, data of another FEC set, coding shreds of several batch sizes), plus the
  complete block both ways and one that is too large for any codec. The field of 7 elements is the smallest
  one with room for five shards.
* Slots, indices, set indices, parents and positions go one past each of their limits;
  two packets at a time are all that the pairwise properties speak of.

* For the statistics of the filter two packets show each pair of counters, at slots and indices
  on both sides of every limit; the clock passes the cadence by one.
* On the wire, one block is resigned with three proof entries, one data and two coding shreds, the
  other one has neither relays nor proof, two data and one coding shred. Three shreds are enough
  for both to be recovered, for one that came twice by two relays, and for forks. Buffers are cut
  within the headers (64 and 80 bytes), exact (1203 and 1228) or too long (1232). All
  sixteen proof sizes are the business of the proofs.
* Payload: three owners are one that writes, one that shares, and one that clones meanwhile. With
  as many buffers as owners there is always one for a copy. Symmetry of owners, buffers and
  bytes is sound for invariants and for a refinement without fairness.
* The histogram's limits are 8, 16, 32 and 64: sizes are on both sides of each, 0 and the largest
  of the width. Three events show that `+=` and the reset lose none, and one of them can be
  added twice, by a worker that does not begin anew.

Deadlock is checked in all runs; none of the models stops.

## 4. Properties

Cache: `CellHoldsCodecOfKey`, `EntryNeverReplaced`, `OneBuildPerKey`, `ServiceSpec`,
`CallsReturn`, `SlowBuildBlocksOnlyItsCell`. Tree: `LayoutIsTree` (against the
definition level by level), `EveryLeafProvable`, `WrongRequestFails`,
`AcceptedClaimsHold`. Recovery: `EveryShredInItsPlace`, `YieldedShredsVerify`,
`YieldedShredsReparse`, `CarriedProofsMatch`, `FastPathAgrees`, `FastGivesNewShreds`,
`RecoveryComplete`, `ImplementsService`. Fetch: `RecoverableTogether`, `LastShredEndsItsSet`,
`FilterCoversParser`, `EveryPacketIsCounted`, `SubmissionsAreSpaced`. Wire: `GettersAgreeWithHeaders`,
`RootSurvivesTransit`, `DuplicatesAreForks`, `MismatchesAreForks`, `EnoughShredsRecover`. Payload:
`TypeOK`, `RangeInBytes`, `WriterIsAlone`, `IndependentValues`. Statistics: `TotalAccountsForAll`,
`WorkersAccountForTheirs`. Each is explained where it is defined.

Observations worth knowing, all checked:

* A proof is accepted for indices past the last leaf if they name one of the copies that
  an odd layer makes of its last node (`AcceptedClaimsHold`): the content is genuine, its
  index is not. `erasure_shard_index` keeps such indices away from the tree.
* `recover` reports success before any proof exists. That no later item is an error
  (`YieldedShredsVerify`) rests on the tree having been built from the same batch.
* What the filter lets through, the parser can still refuse: size fields and flags that
  make no sense, and positions that do not fit (`FilterCoversParser` names exactly these).
* Two coding shreds can pass filter and parser and still claim one place of their set: index 0 and
  index 1, both with position 0, say. The parser only refuses a position above the index. `recover` refuses them
  with `InvalidIndex` (`merkle.rs` 706). They have different first coding indices, which `erasure_mismatch` tells;
  all other shreds of a set that pass fit together (`RecoverableTogether`).
* Inconsistent sets may slip through `recover_data_only`. It never returns two shreds with one `ShredId`,
  nor one with that of a data shred of its FEC set that the caller passed (`FastGivesNewShreds`). But it may return a shred with
  the `ShredId` (slot, index, type) of a data shred of another FEC set that the caller mixed in: data of index 2 and set 2
  stands at the first place, and index 2 of set 1 is rebuilt at the second. Only debug assertions refuse such a mixture.
* A rebuilt shred carries the retransmitter signature of the coding shred its headers came from. Since
  duplicates are compared without it, a rebuilt and a received copy are no duplicates of each
  other (`DuplicatesAreForks`).
* `unexpected_data_complete_shred` is not a count of discards: it is incremented where the shred is
  kept too, or discarded for another reason and counted there again (`EveryPacketIsCounted`
  says by how much the sum may exceed the discards).

Divergences of text and code, each with a violated run: `should_discard_shred` accepts
data shreds of slot 0 at root 0, although its comment begins at root + 1; legacy shreds
are refused, although the repository's README lists them.

### Fairness

`FairSpec` has weak fairness of each thread's step inside `get`: a thread that can go on
eventually does, which an operating system's scheduler provides. Callers need not
call. Weak fairness promises a thread nothing about a lock that is free only now and
then, and the queueing policy of `RwLock` is unspecified, so the liveness
properties exclude executions in which new calls arrive for ever
(`CallsNeverEnd`). `FinishBuild` is not fair: nothing is known about how long
`ReedSolomon::new` runs. `CallsReturn` excludes builds that never end (`BuildNeverEnds`),
`SlowBuildBlocksOnlyItsCell` is about them.

## 5. Proofs

`ReedSolomonCacheProofs` proves for every set of threads, keys and cells and
every capacity (assumption `CacheAssumption`: the capacity is positive, `None` is
none of the other values):

| Theorem | Statement |
|---|---|
| `Typed` | `Spec => []TypeOK` |
| `RightCodec` | `Spec => []CellHoldsCodecOfKey` |
| `NoReplacement` | `Spec => EntryNeverReplaced` |
| `Refinement` | `Spec => ServiceSpec` |
| `SingleBuild` | `Spec => []OneBuildPerKey`, for a finite set of keys |

`CellHoldsCodecOfKey` is not inductive: a thread could finish a build in a cell that
the cache lists under another key. The inductive invariant `IInv` adds to it

* `Held`: which threads hold a cell and have a key, by their location, and who
  holds which lock (so that no one else changes the map between the second look
  and the put);
* `StillMissing`: between the second look and `put` the key stays missing;
* `CellServesOneKey`: a cell is referred to for one key only, by the cache and
  by the threads. It survives evictions because a cell with references is not reused;
* `OneBuilderPerCell`: a running cell has one builder, and a builder's cell is running.

There is one lemma per group of actions (`PutIInv`, `FinishBuildIInv`, ...). `SingleBuild` needs
one more invariant, `HeldIsCached`, which says that a held cell is the cached one as
long as nothing can be evicted, and the fact that a subset of `Key` with all of its
keys stays below twice the capacity (`NoEviction`, from the cardinality theorems).
The refinement maps `Call` to `Ask`, `Return` to `Reply`, and all other steps to
stuttering.

`ShredFetchProofs` proves the properties of `fetch` and `fetch_stats` for every set size, slot size,
integer width, cadence and set of packets, from `FetchAssumption` (the slot is a whole number of
sets, and its indices fit the width, as 32, 32768 and `u32` do) and `PacketAssumption`
(numeric and Boolean fields):

| Theorem | Statement |
|---|---|
| `Recoverable` | `Spec => []RecoverableTogether` |
| `LastEndsSet` | `Spec => []LastShredEndsItsSet` |
| `FilterCovers` | `Spec => []FilterCoversParser` |
| `Spaced` | `StatsSpec => SubmissionsAreSpaced` |
| `Counted` | `StatsSpec => []EveryPacketIsCounted` |

The invariant `FInv` says what passing the filter means for good: `Passed` keeps the checks
in which the root takes no part, and of `verify_shred_slots` what every root implies (a
parent offset of zero occurs in slot 0 only). Without it nothing would be known of a
packet after the root has moved. `NextMultiple` (two multiples of the set size are at
least that far apart) gives that a set lies within its slot as a whole, and that the
last shred, whose index plus one is a multiple, ends its set. `PlacesIncrease` is about the order of the sort: two shreds of
a set have increasing places, unless they are coding shreds with different first coding indices. For `Spaced`, the `since` of the code is
the time of the last reset. `Counted` is about sums over the counters (not about which counter a packet is in), which `FoldSet` adds up
in an order of its own: `SumGrows` says by how much a sum changes when some of its terms grow by one,
and `CountInv` that the counters are numbers.

### The tree

`MerkleTreeProofs` proves what the tree functions compute for every number of shreds;
`MCMerkleTreeProofs` concludes the four invariants of run `merkle_tree` for every `MaxLeaves`:

| Theorem | Statement |
|---|---|
| `FlatVectorIsTree` | `Spec => []LayoutIsTree` |
| `LeavesAreProvable` | `Spec => []EveryLeafProvable` |
| `WrongRequestsFail` | `Spec => []WrongRequestFails` |
| `AcceptedIsTrue` | `Spec => []AcceptedClaimsHold` |

`AcceptedIsTrue` is about the proofs that the module's prover hands out, whole or cut short. It follows from
`OnlyLeavesVerify`, which has no specification: whatever entries lead some content from some index to the root of a tree,
forged ones included, the content is that of a leaf.

These functions recurse or fold over data, and the library's induction theorems take an operator
as a parameter, which no prover here can instantiate. `DataInduction` states induction in a first-order form
instead: a set of natural numbers with 0 and the successor of each of its members holds all of them
(`SetInduction`), and a recursion whose step is given as a function has a solution, and one only (`Recursion`);
both come from the library's theorem that `<` is well-founded. With them `TryNew` says that the flat
vector is `Tree`, the layers one behind the other, and `PathYielded`, `PathStored` and `PathLeads` that the iterator
yields the siblings of a leaf, that they fill the proof field, and that they lead to the root. `Accepted` is the
converse, by induction down from the root: a join tells its children (`JoinTellsChildren`), a leaf
is no join (`LeafIsNoJoin`), so a proof that leads to the root is the path of the leaf that it is about.
Hashes have no common type; `Closure` provides one: a set that holds the leaves and is closed under joining.

### Recovery

`RecoveryProofs` proves all properties of run `recovery`, for every set of inputs and every batch size,
and whatever the codec and the headers in a shard are, from `RecoveryAssumption` (inputs are sequences of
shreds that the parser lets through; nothing says that they belong together). `GivesAllBack` also uses
`SoundAssumption`, which is said below.

| Theorem | Statement |
|---|---|
| `InPlace` | `Spec => []EveryShredInItsPlace` |
| `OnlyNew` | `Spec => []FastGivesNewShreds` |
| `YieldedVerify` | `Spec => []YieldedShredsVerify` |
| `YieldedReparse` | `Spec => []YieldedShredsReparse` |
| `CarriedMatch` | `Spec => []CarriedProofsMatch` |
| `BlockIsSettled` | `Spec => ImplementsService` |
| `FastAgrees` | `Spec => []FastPathAgrees` |
| `GivesAllBack` | `Spec => []RecoveryComplete` |

Both copies of the fill loop and of the decoding take the same step (`FillSteps` and `DecodeSteps`: `Fill` and `FastFill`
imply `FillStep`, `Decode` and `FastDecode` imply `DecodeStep`), so the invariants are proved of the step once.
`OnlyNew` names its exception, and `YieldedReparse` is about what the iterator of `recover` yields; of what
`recover_data_only` returns nothing says that it is sane. The invariant grows with the theorems:

* `PlaceInv` is `OrderOK` (the sorted shreds and those still to be placed are the
  caller's), `HeaderOK` (the headers are numbers and the batch does not outgrow them), `BatchOK` (every
  shred and stub knows its place and stands there) and `NoneLost` (the shreds placed and those to be
  placed are as many as the caller passed). `Padded` is the lemma about filling a gap with stubs.
* `StubsOK`: what does not come from the caller is, but for its shard, the stub of its place. `YieldedReparse` needs
  it for the indices and positions of rebuilt coding shreds.
* `SignOK`: the whole batch bears one signature. With it, `AllPlaced` counts: there are as many places
  taken as shreds, different places have different shreds, so none of the caller's is left out, and
  what is extracted is new.
* `GivenInv`: from the moment `recover` has returned `Ok`, the nodes are the tree of the batch, its root
  is the one in the headers, and what the iterator has yielded are as many rebuilt shreds, with their paths, as it
  has passed. That every proof fits the field of the shred (`ProofsFit`) follows from the one
  coding shred that the headers were taken from: its own proof leads to that root, so it has the height of the tree
  (`Accepted` again). This is why the `Ok` of `recover` already means that no later item is an error.
* `BlockIsSettled` is the refinement step by step: `Verify` settles the block, `Iterate` gives one shred of it or
  stutters, `Drop` leaves; the order and number of the items are `Completed`.
* `FastInv`: both calls work through the same sorted shreds, so what the batch will be is a function
  of them (`Whole`, `Restored`) and whether it is accepted a condition on them (`Acceptable`). The full call then
  finds the batch that the fast one had, which has been forgotten in between.
* `SortInv` (sorted, and all of the caller's shreds), `ItemsInOrder` and `Ended` (how a call with genuine shreds
  has ended) complete it for `GivesAllBack`.

`RecoveryComplete` is about blocks whose leader made no mistake. `SoundBlocks` is a constant for them and
`SoundAssumption` says of each what `WellMade` says: the places, signatures and headers of its
shreds agree, their proofs lead to the root of one tree, and of any `num_data` shards the codec
rebuilds the others. The first part is how leaders make blocks, the last is the promise of a Reed-Solomon code,
which `ErasureCodec` keeps (TLC evaluates the assumption for both sound blocks of the run). Nothing is assumed of
what the caller passes: that shreds of a sound block, sorted, are in the order of their places
(`LeTellsPlace`), that the headers of whichever coding shred is last are the block's (`HeadersAre`), that a stub with its
rebuilt shard is the shred but for the proof (`StubOf`, `RestoredIs`), and that the new path is the leader's proof
(`YieldedGivenBack`) is proved.

### Payload

`PayloadProofs` proves for every set of owners, buffers and bytes and every size (`PayloadAssumption`:
`None` is none of the other values):

| Theorem | Statement |
|---|---|
| `Typed` | `Spec => []TypeOK` |
| `RangesFit` | `Spec => []RangeInBytes` |
| `AloneWhileWriting` | `Spec => []WriterIsAlone` |
| `Refinement` | `Spec => IndependentValues` |

The inductive invariant adds to these `Placed` (where an owner's bytes are: in the payload
without a guard, with the guard otherwise) and `InRange` (a guard's range ends within its bytes).
The refinement maps a write to a change of one value because nobody else refers to the
buffer (`WriterIsAlone`), and a copy to a stutter because it changes a free buffer only.

### Shreds as bytes

`ShredWireProofs` first proves about `ShredLayout`, for all 64 variants, `EveryVariantFits` (positive
capacity), `PartsFillThePayload` (no gap and no overlap, up to the end of the payload), `ShardsAlign` (data
and coding shards are equally long), and `VariantRoundTrip` (variant and byte determine each other,
legacy bytes name none). From these and `BlockAssumption` (numbers of shreds are positive, proof sizes
have four bits, no two blocks share a signature) follow the invariants of run `shred_wire`, for any
blocks, relays and buffer sizes and any number of shreds:

| Theorem | Statement |
|---|---|
| `StoredAreShreds` | `Spec => []WireInv` |
| `GettersAgree` | `Spec => []GettersAgreeWithHeaders` |
| `RootSurvives` | `Spec => []RootSurvivesTransit` |
| `DuplicateIsFork` | `Spec => []DuplicatesAreForks` |
| `MismatchIsFork` | `Spec => []MismatchesAreForks` |
| `EnoughRecover` | `Spec => []EnoughShredsRecover` |

None of the five says anything of the packet in flight, or of bytes that no getter reads, so none of them
is inductive. `WireInv` is: what is stored has the headers and, byte by byte, the payload
of some shred of some block (`IsShred`), and what is in flight begins like one, as far as it reaches. Only the
last 64 bytes, of resigned variants, depend on who signed last (`ByteOf`). The argument follows a shred:

* A leader's setters, in their order, write every part once (`OriginalIs`), and a buffer that is cut off or
  too long begins with what they wrote (`SentIs`).
* A relay writes the last 64 bytes or, if the buffer is too short or the variant has none, nothing (`ResignKeeps`).
* What is parsed is the shred, whatever follows it in the buffer (`ReceivedIs`). This is where both ways
  of reading meet: `FieldOffsetsAre` computes where the fields of the header structs lie end to end,
  `Deserialized` reads them there, and `HeaderParts` finds the same bytes at the offsets of `wire.rs`.
* Whichever coding shred of a block is last, the stubs made from it are the missing shreds up to shard and
  proof (`StubsAre`), with the relay's signature of that one; the codec's shard and the new proof complete
  them (`RebuiltIs`), and the common headers that come with the shard are the stub's.

That `Rebuilt` puts the leader's shard and proof in place is the model's; `RecoveryProofs` is about why they are.

### Statistics of the workers

`ShredFetchProofs` also proves both invariants of run `process_stats`, for any workers, sizes and width:

| Theorem | Statement |
|---|---|
| `SumAccounts` | `ProcessSpec => []TotalAccountsForAll` |
| `WorkersAccount` | `ProcessSpec => []WorkersAccountForTheirs` |

The inductive invariant `ProcessInv` is both of them, with the types of counters and logs (`Kept`): the sum
is right because what is added to it is (`KeptWhenJoined`, counting in a concatenation), and a worker that begins
anew has nothing recorded. Nothing says that an event is in the sum once: `+=` takes a copy, and to reset the worker is up to the
caller (`BeginAnew`). That the bit count puts a size into its bucket is `BucketsAre`, from `Halving`
(the recursion behind `leading_zeros` has a solution) and `LimitsAre` (between 8 and 64 every doubling is one bit more).

### Only model-checked

* Liveness (`CallsReturn`, `SlowBuildBlocksOnlyItsCell`), which needs fairness and ENABLED.

All other properties of the passing runs are theorems. Only model-checked, too, are the two disagreements of text
and code, which are counterexamples, and that `ErasureCodec` is a Reed-Solomon code, which TLC
evaluates for the blocks of run `recovery`.

## 6. Not modelled

* *Signature scheme.* ed25519 is a library; a signature is here what its leader signed.
* *Representation.* The wincode and serde implementations of single fields (`lib.rs`, `common.rs`,
  `payload.rs`), formatting, `Debug` and conversions between error types have no behaviour over
  time and are taken to do what their widths say. Comparing and hashing payloads is
  comparing and hashing their bytes.
* *Recovery on several threads.* `recover` shares nothing but the codec cache. That the cache
  refines a codec service is proved, so a composition of several recoveries with it would say nothing that
  `Recovery` with a codec as a function of its key does not.
* *Callers.* The blockstore, the turbine relays and the metrics are outside of this repository; they appear
  as actions (`HandOver`, `Resign`, `NewRoot`, `Tick`) where the code depends on them.
