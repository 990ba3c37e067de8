------------------------------ MODULE Recovery ------------------------------
(***************************************************************************)
(* Recovery of the missing shreds of one erasure set: merkle::recover,     *)
(* which ends in a lazy iterator the caller drains or drops, and           *)
(* merkle::recover_data_only, the fast path without Merkle checks          *)
(* (merkle.rs 608-950).  The caller first takes the fast path and then     *)
(* the full one with the same shreds.                                      *)
(*                                                                         *)
(* The shreds come from the parser, so they are sanitized: a coding        *)
(* shred's position is below its num_coding and not above its index, a     *)
(* data shred's index not below its fec_set_index; a payload has as many   *)
(* proof entries as its variant says.  That the shreds agree on FEC set    *)
(* and batch size is only a debug assertion (merkle.rs 649-685, 873): here *)
(* they may differ, as they may in a release build.  Slot and version are  *)
(* nowhere looked at but in the comparison of headers, like the FEC set;   *)
(* the variant is a constant.                                              *)
(***************************************************************************)
EXTENDS MerkleTree

CONSTANTS
    ProofSize,              \* proof_size of the variant
    Inputs,                 \* sequences of shreds a caller may pass
    SoundBlocks,            \* blocks whose leaders made no mistake
    CodecOk(_, _),          \* ReedSolomonCache::get gives a codec for these numbers
    Enough(_, _),           \* with so many data shards, reconstruct accepts these indices
    Rebuilt(_, _),          \* the shards after reconstruct; see ErasureCodec
    HeaderIn(_),            \* index and fec_set_index that a data shard deserializes to
    SaneShard(_)            \* the headers in a data shard pass sanitize

(* A shred: type, signature, index, fec_set_index, shard (its erasure      *)
(* coded part: in a data shred all headers but the signature, and the      *)
(* data), chained (chained_merkle_root), proof; a coding shred also        *)
(* num_data, num_coding and position.  The retransmitter signature lies    *)
(* outside of everything checked here and is left out.                     *)
CommonFields == {"type", "signature", "index", "fec_set_index", "shard", "chained", "proof"}

Parsed(s) ==
    /\ \/ /\ s.type = "data" /\ DOMAIN s = CommonFields
          /\ s.index \in Nat /\ s.fec_set_index \in 0..s.index
       \/ /\ s.type = "code" /\ DOMAIN s = CommonFields \cup {"num_data", "num_coding", "position"}
          /\ {s.index, s.fec_set_index, s.num_data, s.num_coding} \subseteq Nat
          /\ s.num_data > 0 /\ s.position \in 0..s.num_coding - 1 /\ s.position <= s.index
    /\ s.proof \in Seq(Range(s.proof)) /\ Len(s.proof) = ProofSize
    /\ \A e \in Range(s.proof) : Entry(e) = e

ASSUME RecoveryAssumption ==
    /\ ProofSize \in Nat
    /\ \A shreds \in Inputs : shreds \in Seq(Range(shreds)) /\ \A s \in Range(shreds) : Parsed(s)

VARIABLES
    input,      \* the shreds of the caller
    mode,       \* "fast" (recover_data_only) or "full" (recover)
    pc,
    sorted,     \* the same, in the order that the sort gives
    todo,       \* of these, the shreds that the fill loop has not seen yet
    header,     \* what is taken from the last coding shred
    batch,      \* the vector the fill loop builds: shreds and stubs
    mask,       \* mask[i]: batch[i] came from the caller
    nodes,      \* the Merkle tree of the batch, once its root is checked
    cursor,     \* how many of the batch the iterator has gone through
    items,      \* what the iterator has yielded
    outcome,    \* the Result the call returned, or Pending
    fast        \* the Result of the fast call, once the full one has begun

vars == <<input, sorted, mode, pc, todo, header, batch, mask, nodes, cursor, items, outcome, fast>>

-----------------------------------------------------------------------------
erasure_shard_index(s) ==
    IF s.type = "data" THEN s.index - s.fec_set_index ELSE s.num_data + s.position

NumShards == header.num_data + header.num_coding

(* cmp_shred_erasure_shard_index(a, b).is_le() *)
is_le(a, b) ==
    IF a.type = b.type THEN a.index <= b.index ELSE a.type = "data"

IsSortedInput(s) == \A i \in 1..Len(s) - 1 : is_le(s[i], s[i + 1])

(* Sorted already, or put into any sorted order: the sort is not stable.   *)
(* Slip: no sort.                                                          *)
Unsorted(s) == {s}
SortedOrders(s) ==
    IF IsSortedInput(s) THEN {s}
    ELSE {t \in {[i \in DOMAIN s |-> s[p[i]]] : p \in Bijection(DOMAIN s, DOMAIN s)} : IsSortedInput(t)}

(* What merkle_node hashes: the payload from the signature to the proof.   *)
Content(s) ==
    IF s.type = "data" THEN <<"data", s.shard, s.chained>>
    ELSE <<"code", s.index, s.fec_set_index, s.num_data, s.num_coding, s.position, s.shard, s.chained>>

merkle_node(s) == get_merkle_node(Content(s))
merkle_root(s) == get_merkle_root(erasure_shard_index(s), merkle_node(s), s.proof)

(* The headers taken from the last coding shred: position zero, and the    *)
(* index that goes with it.                                                *)
HeaderOf(s) ==
    [signature |-> s.signature, first |-> s.index - s.position,
     fec_set_index |-> s.fec_set_index, num_data |-> s.num_data, num_coding |-> s.num_coding,
     root |-> merkle_root(s), chained |-> s.chained]

(* Slip: all coding stubs at the first position. *)
FirstPosition(index) == 0
StubPosition(index) == index - header.num_data

make_stub_shred(index) ==
    IF index >= header.num_data
    THEN [type |-> "code", signature |-> header.signature,
          index |-> header.first + StubPosition(index), fec_set_index |-> header.fec_set_index,
          num_data |-> header.num_data, num_coding |-> header.num_coding,
          position |-> StubPosition(index),
          shard |-> <<>>, chained |-> header.chained, proof |-> <<>>]
    ELSE [type |-> "data", signature |-> header.signature,
          index |-> header.fec_set_index + index, fec_set_index |-> header.fec_set_index,
          shard |-> <<>>, chained |-> header.chained, proof |-> <<>>]

(* Stubs for the erasure shard indices from..to - 1. *)
Stubs(from, to) == [k \in 1..to - from |-> make_stub_shred(from + k - 1)]
Absent(from, to) == [k \in 1..to - from |-> FALSE]

(* A reconstructed data shard must hold the header of its stub, and pass   *)
(* sanitize; a coding stub passes as it was made.  Slip: not compared.     *)
AnyHeader(s) == TRUE
HeaderMatches(s) ==
    s.type = "data" => HeaderIn(s.shard) = [index |-> s.index, fec_set_index |-> s.fec_set_index]

(* What stands at k in the batch must be a data shred if k is a place of   *)
(* data, and a coding shred otherwise, when it was rebuilt.                *)
Node(k) ==
    LET s == batch[k]
    IN  IF mask[k] THEN Ok(merkle_node(s))
        ELSE IF k <= header.num_data /\ s.type # "data" THEN Err("InvalidRecoveredShred")
        ELSE IF k > header.num_data /\ s.type # "code" THEN Err("InvalidRecoveredShred")
        ELSE IF ~HeaderMatches(s) THEN Err("InvalidRecoveredShred")
        ELSE IF s.type = "data" /\ ~SaneShard(s.shard) THEN Err("Sanitize")
        ELSE Ok(merkle_node(s))

(* Slip: the root is not compared. *)
AnyRoot(tree) == TRUE
RootMatches(tree) == Ok(root(tree)) = header.root

(* Slip: the proof of the position in the coding shreds. *)
ProofIndexAmongCoding(k) == (k - 1) % header.num_data
ProofIndex(k) == k - 1
Proof(k) == make_merkle_proof(nodes, ProofIndex(k), NumShards)

-----------------------------------------------------------------------------
Pending == Err("pending")

Init ==
    /\ input = <<>> /\ sorted = <<>> /\ mode = "fast" /\ pc = "idle"
    /\ todo = <<>> /\ header = <<>> /\ batch = <<>> /\ mask = <<>>
    /\ nodes = <<>> /\ cursor = 0 /\ items = <<>>
    /\ outcome = Pending /\ fast = Pending

(* The call returns r. *)
Return(r) ==
    /\ outcome' = r
    /\ pc' = "done"

(* Take the headers from the last shred, if it is a coding one; recover    *)
(* also wants its Merkle root.                                             *)
StartError(m) ==
    IF sorted' = <<>> \/ Last(sorted').type # "code" THEN Err("TooFewParityShards")
    ELSE IF m = "full" /\ ~merkle_root(Last(sorted')).ok THEN merkle_root(Last(sorted'))
    ELSE Pending

Start(m) ==
    /\ mode' = m
    /\ batch' = <<>> /\ mask' = <<>>
    /\ \/ /\ StartError(m) # Pending
          /\ Return(StartError(m))
          /\ todo' = <<>> /\ header' = <<>>
       \/ /\ StartError(m) = Pending
          /\ todo' = sorted'
          /\ header' = HeaderOf(Last(sorted'))
          /\ pc' = "fill"
          /\ outcome' = Pending

(* recover_data_only(shreds) *)
CallFast(shreds) ==
    /\ pc = "idle"
    /\ input' = shreds
    /\ sorted' \in SortedOrders(shreds)
    /\ Start("fast")
    /\ UNCHANGED <<nodes, cursor, items, fast>>

(* recover(shreds), with the shreds the fast call had; the same algorithm  *)
(* puts them into the same order.                                          *)
CallFull ==
    /\ pc = "done" /\ mode = "fast"
    /\ fast' = outcome
    /\ UNCHANGED <<input, sorted, nodes, cursor, items>>
    /\ Start("full")

(* recover has a fill loop, and a round of it is Fill: the shred belongs to *)
(* another block, or is not the next one to place, or is placed after      *)
(* stubs for the gap.                                                      *)
FillError(s) ==
    IF s.signature # header.signature THEN Err("InvalidMerkleRoot")
    ELSE IF erasure_shard_index(s) \notin Len(batch)..NumShards - 1 THEN Err("InvalidIndex")
    ELSE Pending

Fill ==
    /\ pc = "fill" /\ mode = "full" /\ todo # <<>>
    /\ LET s == Head(todo)
           at == erasure_shard_index(s)
       IN  \/ /\ FillError(s) # Pending
              /\ Return(FillError(s))
              /\ UNCHANGED <<todo, batch, mask>>
           \/ /\ FillError(s) = Pending
              /\ batch' = batch \o Stubs(Len(batch), at) \o <<s>>
              /\ mask' = mask \o Absent(Len(mask), at) \o <<TRUE>>
              /\ todo' = Tail(todo)
              /\ UNCHANGED <<pc, outcome>>
    /\ UNCHANGED <<input, sorted, mode, header, nodes, cursor, items, fast>>

(* recover_data_only has a fill loop of its own.  Slip: a copy that takes  *)
(* only the very next shred.                                               *)
RefusesGaps(s) ==
    IF s.signature # header.signature THEN Err("InvalidMerkleRoot")
    ELSE IF erasure_shard_index(s) # Len(batch) THEN Err("InvalidIndex")
    ELSE Pending
FastFillError(s) ==
    IF s.signature # header.signature THEN Err("InvalidMerkleRoot")
    ELSE IF erasure_shard_index(s) \notin Len(batch)..NumShards - 1 THEN Err("InvalidIndex")
    ELSE Pending

FastFill ==
    /\ pc = "fill" /\ mode = "fast" /\ todo # <<>>
    /\ LET s == Head(todo)
           idx == erasure_shard_index(s)
       IN  \/ /\ FastFillError(s) # Pending
              /\ Return(FastFillError(s))
              /\ UNCHANGED <<todo, batch, mask>>
           \/ /\ FastFillError(s) = Pending
              /\ batch' = batch \o Stubs(Len(batch), idx) \o <<s>>
              /\ mask' = mask \o Absent(Len(mask), idx) \o <<TRUE>>
              /\ todo' = Tail(todo)
              /\ UNCHANGED <<pc, outcome>>
    /\ UNCHANGED <<input, sorted, mode, header, nodes, cursor, items, fast>>

(* recover: stubs up to the end of the batch, then the codec and           *)
(* reconstruct on the erasure shards of all of them, which leaves the      *)
(* present ones alone.                                                     *)
DecodeError(present) ==
    IF ~CodecOk(header.num_data, header.num_coding) THEN Err("TooManyShards")
    ELSE IF ~Enough(header.num_data, {k \in DOMAIN present : present[k]}) THEN Err("TooFewShardsPresent")
    ELSE Pending

Decode ==
    /\ pc = "fill" /\ mode = "full" /\ todo = <<>>
    /\ LET all == batch \o Stubs(Len(batch), NumShards)
           present == mask \o Absent(Len(mask), NumShards)
           shards == Rebuilt(header.num_data, [k \in DOMAIN all |-> [shard |-> all[k].shard, present |-> present[k]]])
       IN  \/ /\ DecodeError(present) # Pending
              /\ Return(DecodeError(present))
              /\ UNCHANGED <<batch, mask>>
           \/ /\ DecodeError(present) = Pending
              /\ batch' = [k \in DOMAIN all |->
                             IF present[k] THEN all[k] ELSE [all[k] EXCEPT !.shard = shards[k]]]
              /\ mask' = present
              /\ pc' = "decoded"
              /\ UNCHANGED outcome
    /\ UNCHANGED <<input, sorted, mode, todo, header, nodes, cursor, items, fast>>

(* recover_data_only: the same, in a copy of its own. *)
FastDecodeError(present) ==
    IF ~CodecOk(header.num_data, header.num_coding) THEN Err("TooManyShards")
    ELSE IF ~Enough(header.num_data, {k \in DOMAIN present : present[k]}) THEN Err("TooFewShardsPresent")
    ELSE Pending

FastDecode ==
    /\ pc = "fill" /\ mode = "fast" /\ todo = <<>>
    /\ LET all == batch \o Stubs(Len(batch), NumShards)
           present == mask \o Absent(Len(mask), NumShards)
           shards == Rebuilt(header.num_data, [k \in DOMAIN all |-> [shard |-> all[k].shard, present |-> present[k]]])
       IN  \/ /\ FastDecodeError(present) # Pending
              /\ Return(FastDecodeError(present))
              /\ UNCHANGED <<batch, mask>>
           \/ /\ FastDecodeError(present) = Pending
              /\ batch' = [k \in DOMAIN all |->
                             IF present[k] THEN all[k] ELSE [all[k] EXCEPT !.shard = shards[k]]]
              /\ mask' = present
              /\ pc' = "decoded"
              /\ UNCHANGED outcome
    /\ UNCHANGED <<input, sorted, mode, todo, header, nodes, cursor, items, fast>>

(* recover_data_only: the rebuilt data shreds whose headers fit.  Slip:    *)
(* all data shreds.                                                        *)
AllData(k) == k <= header.num_data
Wanted(k) == ~mask[k] /\ k <= header.num_data /\ batch[k].type = "data" /\ HeaderMatches(batch[k])

InOrder(S) ==
    {q \in [1..Cardinality(S) -> S] : \A i, j \in DOMAIN q : i < j => q[i] < q[j]}

Extract ==
    /\ pc = "decoded" /\ mode = "fast"
    /\ \E wanted \in InOrder({k \in DOMAIN batch : Wanted(k)}) :
         Return(Ok([i \in DOMAIN wanted |-> batch[wanted[i]]]))
    /\ UNCHANGED <<input, sorted, mode, todo, header, batch, mask, nodes, cursor, items, fast>>

(* recover: check every rebuilt shred, build the tree, compare the root,   *)
(* and return the iterator.                                                *)
VerifyError(tree) ==
    IF ~tree.ok THEN tree
    ELSE IF ~RootMatches(tree.value) THEN Err("InvalidMerkleRoot")
    ELSE Pending

Verify ==
    /\ pc = "decoded" /\ mode = "full"
    /\ LET tree == try_new([k \in DOMAIN batch |-> Node(k)])
       IN  \/ /\ VerifyError(tree) # Pending
              /\ Return(VerifyError(tree))
              /\ UNCHANGED nodes
           \/ /\ VerifyError(tree) = Pending
              /\ nodes' = tree.value
              /\ outcome' = Ok("iterator")
              /\ pc' = "iterate"
    /\ UNCHANGED <<input, sorted, mode, todo, header, batch, mask, cursor, items, fast>>

(* The iterator moves on by one shred of the batch and yields it, with its *)
(* proof, if it is a rebuilt one.                                          *)
Iterate ==
    /\ pc = "iterate" /\ cursor < NumShards
    /\ LET k == cursor + 1
           proof == set_merkle_proof(Proof(k), ProofSize)
       IN  /\ cursor' = k
           /\ items' = IF mask[k] THEN items
                       ELSE Append(items, IF proof.ok
                                          THEN Ok([batch[k] EXCEPT !.proof = proof.value])
                                          ELSE proof)
    /\ UNCHANGED <<input, sorted, mode, pc, todo, header, batch, mask, nodes, outcome, fast>>

(* The iterator is used up, or dropped before that. *)
Drop ==
    /\ pc = "iterate"
    /\ pc' = "done"
    /\ UNCHANGED <<input, sorted, mode, todo, header, batch, mask, nodes, cursor, items, outcome, fast>>

(* On to the next erasure set. *)
Forget ==
    /\ pc = "done" /\ mode = "full"
    /\ input' = <<>> /\ sorted' = <<>> /\ mode' = "fast" /\ pc' = "idle"
    /\ todo' = <<>> /\ header' = <<>> /\ batch' = <<>> /\ mask' = <<>>
    /\ nodes' = <<>> /\ cursor' = 0 /\ items' = <<>>
    /\ outcome' = Pending /\ fast' = Pending

Next ==
    \/ \E shreds \in Inputs : CallFast(shreds)
    \/ CallFull
    \/ FastFill \/ FastDecode \/ Extract
    \/ Fill \/ Decode \/ Verify \/ Iterate \/ Drop
    \/ Forget

Spec == Init /\ [][Next]_vars

-----------------------------------------------------------------------------
Verified(s) == merkle_root(s) = header.root
Iterating == mode = "full" /\ outcome.ok

(* The fill loop (merkle.rs 698-719) puts every shred of the caller, none  *)
(* lost and none twice, and every stub where its own header says that it   *)
(* belongs, whatever the gaps between the shreds are.                      *)
EveryShredInItsPlace ==
    /\ Len(mask) = Len(batch)
    /\ \A k \in DOMAIN batch :
         /\ erasure_shard_index(batch[k]) = k - 1
         /\ mask[k] => \E i \in DOMAIN input : batch[k] = input[i]
    /\ pc \in {"decoded", "iterate"} =>
         Cardinality({k \in DOMAIN mask : mask[k]}) = Len(input)

(* Once recover has returned Ok its iterator never yields an Err, and each *)
(* shred it yields leads by its own index and its own proof to the root    *)
(* that the block was signed for, and bears that signature.                *)
YieldedShredsVerify ==
    \A i \in DOMAIN items :
      /\ items[i].ok
      /\ Verified(items[i].value)
      /\ items[i].value.signature = header.signature

(* The parser would take what recover yields, of either type, for what it  *)
(* is (debug_assert_eq at merkle.rs 766): position, indices and proof are  *)
(* within its limits, and the headers that were rebuilt from parity into a *)
(* data shred's bytes are those of its place in the set and sane, whatever *)
(* the leader signed.                                                      *)
YieldedShredsReparse ==
    \A i \in DOMAIN items : items[i].ok =>
      LET s == items[i].value
      IN  /\ Parsed(s)
          /\ s.type = "data" => /\ HeaderIn(s.shard) = [index |-> s.index, fec_set_index |-> s.fec_set_index]
                                /\ SaneShard(s.shard)

(* If all shreds of the caller verify by themselves, the proofs of the     *)
(* rebuilt tree are the ones they carry (debug_assert at merkle.rs 757).   *)
CarriedProofsMatch ==
    (Iterating /\ nodes # <<>> /\ \A i \in DOMAIN input : Verified(input[i])) =>
      \A k \in DOMAIN batch : mask[k] => set_merkle_proof(Proof(k), ProofSize) = Ok(batch[k].proof)

(* The fast path finds the same data shreds as the full one, when that     *)
(* succeeds: skipping the Merkle checks changes which sets are accepted,   *)
(* never what is recovered from an accepted one (merkle.rs 781-789).       *)
FastPathAgrees ==
    Iterating =>
      \E missing \in InOrder({k \in 1..header.num_data : ~mask[k]}) :
        fast = Ok([i \in DOMAIN missing |-> batch[missing[i]]])

(* A block as its leader should make it: first the data shreds, then the   *)
(* coding shreds, records whose headers agree, one tree, and shards any    *)
(* num_data of which give the codec all others.                            *)
WellMade(block) ==
    LET last == Last(block)
        Places == 1..Len(block)
        tree == try_new([k \in Places |-> Ok(merkle_node(block[k]))]).value
        Kept(I) == [k \in Places |-> [shard |-> IF k \in I THEN block[k].shard ELSE <<>>, present |-> k \in I]]
    IN  /\ block \in Seq(Range(block)) /\ block # <<>>
        /\ last.type = "code" /\ Len(block) = last.num_data + last.num_coding
        /\ \A k \in Places : LET s == block[k] IN
             /\ Parsed(s) /\ s = [f \in DOMAIN s |-> s[f]]
             /\ erasure_shard_index(s) = k - 1
             /\ s.type = "data" <=> k <= last.num_data
             /\ s.signature = last.signature /\ s.chained = last.chained
             /\ s.fec_set_index = last.fec_set_index
             /\ s.type = "code" => /\ s.num_data = last.num_data /\ s.num_coding = last.num_coding
                                   /\ s.index - s.position = last.index - last.position
             /\ s.type = "data" => HeaderMatches(s) /\ SaneShard(s.shard)
             /\ merkle_root(s) = Ok(root(tree))
        /\ CodecOk(last.num_data, last.num_coding)
        /\ \A I \in SUBSET Places :
             /\ Enough(last.num_data, I) <=> Cardinality(I) >= last.num_data
             /\ Enough(last.num_data, I) =>
                  \A k \in Places \ I : Rebuilt(last.num_data, Kept(I))[k] = block[k].shard

ASSUME SoundAssumption == \A block \in SoundBlocks : WellMade(block)

(* Shreds of one block, each of them once, with a coding one among them.   *)
Held(block) == {k \in DOMAIN block : \E i \in DOMAIN input : block[k] = input[i]}
Genuine(block) ==
    /\ \A i \in DOMAIN input : \E k \in DOMAIN block : block[k] = input[i]
    /\ Cardinality(Held(block)) = Len(input)
    /\ \E k \in Held(block) : block[k].type = "code"

(* From as many shreds of a block as it has data shreds, a coding one      *)
(* among them, in any order, both calls give back exactly the missing      *)
(* shreds, in order, and with fewer they report that there are too few.    *)
GivesBack(block) ==
    LET num_data == Last(block).num_data
        Missing(to) == InOrder((1..to) \ Held(block))
    IN  (pc = "done" /\ Genuine(block)) =>
          IF Len(input) < num_data THEN outcome = Err("TooFewShardsPresent")
          ELSE /\ outcome.ok
               /\ mode = "fast" =>
                    \E missing \in Missing(num_data) :
                      outcome = Ok([i \in DOMAIN missing |-> [block[missing[i]] EXCEPT !.proof = <<>>]])
               /\ mode = "full" /\ cursor = Len(block) =>
                    \E missing \in Missing(Len(block)) :
                      items = [i \in DOMAIN missing |-> Ok(block[missing[i]])]

RecoveryComplete == \A block \in SoundBlocks : GivesBack(block)

(* The fast path returns "only the newly recovered DATA shreds (not        *)
(* coding, not originals)" (merkle.rs 782) from inconsistent sets as well, *)
(* which it does not notice: no two with one ShredId (slot, index and      *)
(* type, lib.rs 280-282), each signed like all the caller passed and with  *)
(* the headers that are in its bytes, and none with the ShredId of a data  *)
(* shred of its FEC set that the caller passed.  The exception: the caller *)
(* mixed in a data shred of another FEC set, which only a debug assertion  *)
(* refuses (merkle.rs 649-685, 873); its index may lie in the set that is  *)
(* rebuilt, and then a shred with its ShredId may be returned.             *)
Identity(s) == <<s.index, s.type>>
FastGivesNewShreds ==
    mode = "fast" /\ outcome.ok =>
      LET new == outcome.value
      IN  /\ \A i, j \in DOMAIN new : i # j => Identity(new[i]) # Identity(new[j])
          /\ \A i \in DOMAIN new :
               /\ new[i].type = "data"
               /\ HeaderIn(new[i].shard) = [index |-> new[i].index, fec_set_index |-> new[i].fec_set_index]
               /\ \A n \in DOMAIN input :
                    /\ new[i].signature = input[n].signature
                    /\ input[n].type = "data" /\ input[n].fec_set_index = new[i].fec_set_index =>
                         Identity(input[n]) # Identity(new[i])

(* The lazy iterator gives out a block that is settled when recover        *)
(* returns (merkle.rs 751-778), although the proofs are made while it is   *)
(* drained: see module RecoveryService.                                    *)
Stage ==
    IF mode = "full" /\ pc \in {"fill", "decoded"} THEN "asked"
    ELSE IF pc = "iterate" THEN "giving"
    ELSE "idle"

Settled ==
    [k \in DOMAIN batch |->
       IF mask[k] THEN batch[k]
       ELSE [batch[k] EXCEPT !.proof = set_merkle_proof(Proof(k), ProofSize).value]]

Service == INSTANCE RecoveryService WITH
             stage <- Stage,
             input <- IF Stage = "idle" THEN <<>> ELSE input,
             block <- IF Stage = "giving" THEN Settled ELSE <<>>,
             items <- IF Stage = "giving" THEN items ELSE <<>>,
             Place <- erasure_shard_index,
             Root <- merkle_root
ImplementsService == Service!Spec
=============================================================================
