----------------------------- MODULE ShredLayout -----------------------------
(***************************************************************************)
(* Where everything lies in the payload of a shred: the sizes of lib.rs    *)
(* 104-127 and merkle.rs, the offsets of the macro impl_merkle_shred       *)
(* (merkle.rs 256-447), and the byte that names the variant (lib.rs        *)
(* 558-622).  Sizes are the real ones; a range is the pair of its first    *)
(* offset and the offset behind its last one.                              *)
(***************************************************************************)
EXTENDS Naturals

Ok(v) == [ok |-> TRUE, value |-> v]
Err(e) == [ok |-> FALSE, error |-> e]

SIZE_OF_SIGNATURE == 64
SIZE_OF_MERKLE_ROOT == 32
SIZE_OF_MERKLE_PROOF_ENTRY == 20
SIZE_OF_NONCE == 4
PACKET_DATA_SIZE == 1232

Type == {"code", "data"}

SIZE_OF_HEADERS(type) == IF type = "code" THEN 89 ELSE 88

CodePayload == PACKET_DATA_SIZE - SIZE_OF_NONCE
SIZE_OF_PAYLOAD(type) ==
    IF type = "code" THEN CodePayload
    ELSE CodePayload - SIZE_OF_HEADERS("code") + SIZE_OF_SIGNATURE

(* ShredVariant: the low half of its byte holds the proof size. *)
ShredVariant == [type : Type, proof_size : 0..15, resigned : BOOLEAN]

-----------------------------------------------------------------------------
(* The variant byte: u8::from(ShredVariant) and ShredVariant::try_from.    *)
(* The bytes of the legacy formats, 0x5A and 0xA5, have no variant either. *)
HighNibble(type, resigned) ==
    IF type = "code" THEN IF resigned THEN 7 ELSE 6
    ELSE IF resigned THEN 11 ELSE 9

VariantByte(v) == 16 * HighNibble(v.type, v.resigned) + v.proof_size

LegacyBytes == {90, 165}

VariantOf(byte) ==
    LET high == byte \div 16
    IN  IF byte \in LegacyBytes \/ high \notin {6, 7, 9, 11} THEN Err("InvalidShredVariant")
        ELSE Ok([type |-> IF high \in {6, 7} THEN "code" ELSE "data",
                 proof_size |-> byte % 16,
                 resigned |-> high \in {7, 11}])

-----------------------------------------------------------------------------
(* Headers | erasure coded shard, or data | chained root | proof |         *)
(* retransmitter signature of a resigned variant.                          *)
Overhead(v) ==
    SIZE_OF_HEADERS(v.type) + SIZE_OF_MERKLE_ROOT
      + v.proof_size * SIZE_OF_MERKLE_PROOF_ENTRY
      + (IF v.resigned THEN SIZE_OF_SIGNATURE ELSE 0)

(* checked_sub: InvalidProofSize otherwise. *)
HasCapacity(v) == Overhead(v) <= SIZE_OF_PAYLOAD(v.type)
capacity(v) == SIZE_OF_PAYLOAD(v.type) - Overhead(v)

get_chained_merkle_root_offset(v) == SIZE_OF_HEADERS(v.type) + capacity(v)

get_proof_offset(v) == get_chained_merkle_root_offset(v) + SIZE_OF_MERKLE_ROOT

ProofEnd(v) == get_proof_offset(v) + v.proof_size * SIZE_OF_MERKLE_PROOF_ENTRY

(* Slip: right behind the chained root, as if there were no proof. *)
BeforeProof(v) == IF v.resigned THEN Ok(get_proof_offset(v)) ELSE Err("InvalidShredVariant")
get_retransmitter_signature_offset(v) ==
    IF v.resigned THEN Ok(ProofEnd(v)) ELSE Err("InvalidShredVariant")

(* The data shred's shard begins with the headers behind the signature.    *)
(* Slip: with the data.                                                    *)
BehindHeaders(type) == SIZE_OF_HEADERS(type)
ERASURE_SHARD_START_OFFSET(type) ==
    IF type = "code" THEN SIZE_OF_HEADERS("code") ELSE SIZE_OF_SIGNATURE

erasure_shard_offsets(v) ==
    <<ERASURE_SHARD_START_OFFSET(v.type), get_chained_merkle_root_offset(v)>>

(* What merkle_node hashes, and with it what the leader signs. *)
SignedRange(v) == <<SIZE_OF_SIGNATURE, get_proof_offset(v)>>
=============================================================================
