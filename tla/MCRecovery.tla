----------------------------- MODULE MCRecovery -----------------------------
(***************************************************************************)
(* Instances of recovery: the blocks leaders have signed, sound ones and   *)
(* malformed ones, and callers that pass any few of the shreds of a block, *)
(* twice or altered ones and shreds of a competing block among them.       *)
(***************************************************************************)
EXTENDS Recovery, ErasureCodec

CONSTANTS
    NumData, NumCoding,     \* the sizes of a sound block
    MaxShreds               \* how many shreds a caller passes at most

NumTotal == NumData + NumCoding
SetIndex == 1               \* fec_set_index of the block

(* ErasureCodec for the constants of Recovery.  A shard has two columns:   *)
(* the headers, index and FEC set of which are packed into one number, and *)
(* everything else.  The codec takes NumTotal shards at most.              *)
MCCodecOk(num_data, num_coding) == num_data + num_coding <= NumTotal
MCEnough(num_data, present) == CanReconstruct(num_data, present)
MCRebuilt(num_data, shards) == Rebuild(num_data, shards)

OtherSet == SetIndex + 1
Packed(index, fec_set_index) == IF fec_set_index = SetIndex THEN index ELSE index + NumData
MCHeaderIn(shard) ==
    IF shard[1] <= SetIndex + NumData THEN [index |-> shard[1], fec_set_index |-> SetIndex]
    ELSE [index |-> shard[1] - NumData, fec_set_index |-> OtherSet]
Insane == P - 1
MCSaneShard(shard) == shard[2] # Insane

FirstCoding == 4        \* index of the first coding shred, of its own count

(* The coding headers of a sound block. *)
Config(k) == [num_data |-> NumData, num_coding |-> NumCoding, position |-> k - NumData - 1]

(* A block as a leader signs it: the data shards, whose headers are in     *)
(* them, the coding shards with their headers, the tree over all shreds,   *)
(* and its proofs.                                                         *)
SignedAs(signature, shards, Coding(_)) ==
    LET Bare(k) ==
          [signature |-> signature, shard |-> shards[k], chained |-> "parent", proof |-> <<>>] @@
          (IF k <= NumData THEN [type |-> "data"] @@ MCHeaderIn(shards[k])
           ELSE [type |-> "code", index |-> FirstCoding + k - NumData - 1,
                 fec_set_index |-> SetIndex] @@ Coding(k))
        tree == try_new([k \in 1..NumTotal |-> Ok(merkle_node(Bare(k)))]).value
    IN  [k \in 1..NumTotal |->
          [Bare(k) EXCEPT !.proof =
             set_merkle_proof(make_merkle_proof(tree, k - 1, NumTotal), ProofSize).value]]

Signed(signature, shards) == SignedAs(signature, shards, Config)

Encoded(data) ==
    Rebuild(NumData, [k \in 1..NumTotal |->
      IF k <= NumData THEN [present |-> TRUE, shard |-> data[k]]
      ELSE [present |-> FALSE, shard |-> <<>>]])

Numbered(values) == [k \in 1..NumData |-> <<Packed(SetIndex + k - 1, SetIndex), values[k]>>]

Values1 == [k \in 1..NumData |-> k + 1]
Values2 == [k \in 1..NumData |-> (k * k) % (P - 1)]
ValuesInsane == [Values1 EXCEPT ![NumData] = Insane]

Good == Signed("good", Encoded(Numbered(Values1)))
Fork == Signed("fork", Encoded(Numbered(Values2)))

(* The leader erred in a coding shard, in a header, in a header's number.  *)
BadParity == Signed("parity", [Encoded(Numbered(Values1)) EXCEPT ![NumTotal][2] = (@ + 1) % P])
BadHeader == Signed("header", Encoded(Numbered(ValuesInsane)))
BadNumber == Signed("number", Encoded([Numbered(Values1) EXCEPT ![1] = Numbered(Values1)[2]]))

(* The leader mixed sets: a data shred of another set in the same place,   *)
(* coding shreds with other numbers in the same place, and a batch that is *)
(* larger than any codec.                                                  *)
MixedSets == Signed("sets", Encoded([Numbered(Values1) EXCEPT ![1][1] = Packed(OtherSet, OtherSet)]))
MixedConfig(k) ==
    IF k = NumTotal THEN Config(k)
    ELSE IF k = NumTotal - 1 THEN [num_data |-> NumTotal - 2, num_coding |-> 2, position |-> 0]
    ELSE [num_data |-> 1, num_coding |-> k, position |-> k - 2]
MixedConfigs == SignedAs("configs", Encoded(Numbered(Values1)), MixedConfig)
LargeConfig(k) == [Config(k) EXCEPT !.num_coding = NumCoding + 1]
TooLarge == SignedAs("large", Encoded(Numbered(Values1)), LargeConfig)

(* Shreds of Good that were altered after they were signed. *)
Altered ==
    {[Good[1] EXCEPT !.shard[2] = (@ + 1) % P],
     [Good[NumData + 1] EXCEPT !.shard[2] = (@ + 1) % P],
     [Good[NumData] EXCEPT !.proof = Good[1].proof]}

Shreds(block) == {block[k] : k \in 1..NumTotal}

MCInputs ==
    {Good, Reverse(Good), TooLarge}
    \cup BoundedSeq(Shreds(Good) \cup Altered, MaxShreds)
    \cup BoundedSeq(Shreds(Good) \cup {Fork[1], Fork[NumTotal]}, MaxShreds - 1)
    \cup UNION {BoundedSeq(Shreds(b), MaxShreds - 1) : b \in {Fork, BadParity, BadHeader, BadNumber, MixedSets, MixedConfigs}}

MCSoundBlocks == {Good, Fork}
=============================================================================
