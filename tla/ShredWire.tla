------------------------------ MODULE ShredWire ------------------------------
(***************************************************************************)
(* Shreds as bytes: on their way through relays that sign them again, in   *)
(* buffers that are too long or too short, parsed into headers and         *)
(* payload, rebuilt from others, and compared for duplicates.  The headers *)
(* are read in two ways: by the offsets written down in wire.rs, and by    *)
(* the parser that lays the fields of the header structs end to end        *)
(* (lib.rs 246-272).  The models of the other modules rely on both being   *)
(* the same.                                                               *)
(*                                                                         *)
(* A buffer is a sequence of bytes.  A byte is known by the value it is    *)
(* part of and the offsets this value was written to, <<from, to, value>>; *)
(* which part of it follows from the byte's own place.  Offsets begin with *)
(* 0, as in the code: the byte at offset i is buf[i + 1].                  *)
(***************************************************************************)
EXTENDS ShredLayout, Sequences, FiniteSets

CONSTANTS
    Blocks,         \* what leaders have signed for this erasure set
    Slot, Version, FecSetIndex, FirstCoding,    \* the same in all blocks
    Relays,         \* retransmitter signatures
    BufferSizes,    \* of the buffers in which shreds arrive
    MaxReceived     \* bound: shreds received

(* A block: its signature, proof_size, resigned, num_data, num_coding.     *)
(* The signature is over the Merkle root, so no two blocks share one.      *)
ASSUME BlockAssumption ==
    /\ FecSetIndex \in Nat /\ FirstCoding \in Nat /\ BufferSizes \subseteq Nat
    /\ \A b \in Blocks :
         /\ b.proof_size \in 0..15 /\ b.resigned \in BOOLEAN
         /\ b.num_data \in Nat \ {0} /\ b.num_coding \in Nat \ {0}
    /\ \A b, c \in Blocks : b.signature = c.signature => b = c

VARIABLES
    packet,     \* the buffer in flight, or NoPacket
    received,   \* how many shreds were received
    store       \* the parsed and recovered shreds the caller keeps

vars == <<packet, received, store>>

NoPacket == <<>>

-----------------------------------------------------------------------------
(* Bytes. *)
Span(from, to, value) ==
    LET byte == <<from, to, value>> IN [i \in 1..to - from |-> byte]
Zeros(len) == Span(0, len, "zero")

(* buf.get(from..to) *)
Slice(buf, from, to) == SubSeq(buf, from + 1, to)

(* Other bytes in the place of from..to - 1. *)
Replace(buf, from, to, bytes) == Slice(buf, 0, from) \o bytes \o Slice(buf, to, Len(buf))
Write(buf, from, to, value) == Replace(buf, from, to, Span(from, to, value))

(* The value that was written to exactly these bytes. *)
ReadAt(buf, from, to) ==
    IF to > Len(buf) THEN Err("InvalidPayloadSize")
    ELSE IF Slice(buf, from, to) = Span(from, to, buf[from + 1][3]) THEN Ok(buf[from + 1][3])
    ELSE Err("other bytes")

-----------------------------------------------------------------------------
(* The header structs, field by field with their widths.  wincode writes   *)
(* them end to end, the common header first.                               *)
CommonFields ==
    <<<<"signature", 64>>, <<"shred_variant", 1>>, <<"slot", 8>>, <<"index", 4>>,
      <<"version", 2>>, <<"fec_set_index", 4>>>>

Fields ==
    [type \in Type |-> CommonFields \o
       IF type = "data" THEN <<<<"parent_offset", 2>>, <<"flags", 1>>, <<"size", 2>>>>
       ELSE <<<<"num_data_shreds", 2>>, <<"num_coding_shreds", 2>>, <<"position", 2>>>>]

Names(fields) == {fields[i][1] : i \in DOMAIN fields}

(* The header of a type, from the values of its two structs. *)
Header(type, common, special) ==
    [name \in Names(Fields[type]) |-> IF name \in Names(CommonFields) THEN common[name] ELSE special[name]]

(* The first offset of every field, and the one behind them all. *)
FieldOffsets ==
    [type \in Type |->
       LET at[i \in 1..Len(Fields[type]) + 1] ==
             IF i = 1 THEN 0 ELSE at[i - 1] + Fields[type][i - 1][2]
       IN  at]

(* shred_variant is kept as its byte. *)
Serialize(buf, type, header) ==
    LET at == FieldOffsets[type]
        field(i) == CHOOSE f \in DOMAIN Fields[type] : at[f] <= i /\ i < at[f + 1]
        value(f) == <<at[f], at[f + 1], header[Fields[type][f][1]]>>
        end == at[Len(Fields[type]) + 1]
    IN  Replace(buf, 0, end, [i \in 1..end |-> value(field(i - 1))])

Deserialize(buf, type) ==
    [name \in Names(Fields[type]) |->
       LET f == CHOOSE f \in DOMAIN Fields[type] : Fields[type][f][1] = name
       IN  ReadAt(buf, FieldOffsets[type][f], FieldOffsets[type][f + 1])]

-----------------------------------------------------------------------------
(* wire.rs: getters on bytes that have not been parsed. *)
get_signature(buf) == ReadAt(buf, 0, 64)
get_shred_variant(buf) ==
    LET byte == ReadAt(buf, 64, 65) IN IF byte.ok THEN VariantOf(byte.value) ELSE byte
get_slot(buf) == ReadAt(buf, 65, 65 + 8)
(* Slip: where a format without the variant byte has it. *)
IndexBehindSlot(buf) == ReadAt(buf, 72, 72 + 4)
get_index(buf) == ReadAt(buf, 73, 73 + 4)
get_version(buf) == ReadAt(buf, 77, 77 + 2)
get_fec_set_index(buf) == ReadAt(buf, 79, 79 + 4)
get_parent_offset(buf) == ReadAt(buf, 83, 83 + 2)

OnlyOf(type, buf, result) ==
    LET v == get_shred_variant(buf)
    IN  IF ~v.ok THEN v ELSE IF v.value.type # type THEN Err("InvalidShredType") ELSE result

get_flags(buf) == OnlyOf("data", buf, ReadAt(buf, 85, 85 + 1))
get_data_size(buf) == ReadAt(buf, 86, 86 + 2)
get_reference_tick(buf) ==
    LET flags == ReadAt(buf, 85, 86)
    IN  OnlyOf("data", buf, IF flags.ok THEN Ok(flags.value % 64) ELSE flags)

(* ShredData::get_data: the data up to the size in the header, which may   *)
(* not reach beyond the room there is for it.                              *)
DataUpTo(buf, v, size) ==
    IF size \in SIZE_OF_HEADERS("data")..get_chained_merkle_root_offset(v) /\ size <= Len(buf)
    THEN Ok(Slice(buf, SIZE_OF_HEADERS("data"), size)) ELSE Err("InvalidDataSize")

get_data(buf) ==
    LET size == get_data_size(buf)
        v == get_shred_variant(buf)
    IN  OnlyOf("data", buf, IF size.ok THEN DataUpTo(buf, v.value, size.value) ELSE size)

(* It unwraps the variant: a byte that names none is a panic (wire.rs 132), *)
(* where the other getters return the error.                               *)
Panic == Err("panic")
get_erasure_config(buf) ==
    LET num_data == ReadAt(buf, 83, 83 + 2)
        num_coding == ReadAt(buf, 85, 85 + 2)
    IN  IF ~get_shred_variant(buf).ok THEN Panic
        ELSE OnlyOf("code", buf,
          IF num_data.ok /\ num_coding.ok THEN Ok(<<num_data.value, num_coding.value>>)
          ELSE Err("InvalidPayloadSize"))

get_shred_id(buf) ==
    LET slot == get_slot(buf) index == get_index(buf) v == get_shred_variant(buf)
    IN  IF slot.ok /\ index.ok /\ v.ok THEN Ok(<<slot.value, index.value, v.value.type>>)
        ELSE Err("None")

get_chained_merkle_root(buf) ==
    LET v == get_shred_variant(buf)
        at == get_chained_merkle_root_offset(v.value)
    IN  IF v.ok THEN ReadAt(buf, at, at + SIZE_OF_MERKLE_ROOT) ELSE v

get_retransmitter_signature(buf) ==
    LET v == get_shred_variant(buf)
        at == get_retransmitter_signature_offset(v.value)
    IN  IF ~v.ok THEN v ELSE IF ~at.ok THEN at ELSE ReadAt(buf, at.value, at.value + SIZE_OF_SIGNATURE)

(* The buffer after wire::set_retransmitter_signature: unchanged on errors. *)
set_retransmitter_signature(buf, signature) ==
    LET v == get_shred_variant(buf)
        at == get_retransmitter_signature_offset(v.value)
    IN  IF ~v.ok \/ ~at.ok \/ at.value + SIZE_OF_SIGNATURE > Len(buf) THEN buf
        ELSE Write(buf, at.value, at.value + SIZE_OF_SIGNATURE, signature)

(* A Merkle root is a function of the leaf's index, the bytes under the    *)
(* leaf, and the proof (module MerkleTree); here it is these three.        *)
RootFrom(buf, v, index) ==
    IF ProofEnd(v) > Len(buf) THEN Err("InvalidPayloadSize")
    ELSE Ok([index |-> index, node |-> Slice(buf, SignedRange(v)[1], SignedRange(v)[2]),
             proof |-> Slice(buf, get_proof_offset(v), ProofEnd(v))])

get_merkle_root(buf) ==
    LET v == get_shred_variant(buf)
        num_data == ReadAt(buf, 83, 85)
        position == ReadAt(buf, 87, 89)
    IN  IF ~v.ok THEN v
        ELSE IF v.value.type = "code" THEN
          IF num_data.ok /\ position.ok THEN RootFrom(buf, v.value, num_data.value + position.value)
          ELSE Err("None")
        ELSE IF get_index(buf).ok /\ get_fec_set_index(buf).ok
               /\ get_index(buf).value >= get_fec_set_index(buf).value THEN
          RootFrom(buf, v.value, get_index(buf).value - get_fec_set_index(buf).value)
        ELSE Err("None")

(* get_shred_from_buf *)
HasShred(buf) ==
    LET v == get_shred_variant(buf) IN v.ok /\ SIZE_OF_PAYLOAD(v.value.type) <= Len(buf)
get_shred_from_buf(buf) == Slice(buf, 0, SIZE_OF_PAYLOAD(get_shred_variant(buf).value.type))

-----------------------------------------------------------------------------
(* A parsed shred: type, header (by field name), payload. *)
Variant(s) == VariantOf(s.header.shred_variant).value

(* Shred::new_from_serialized_shred, of which module ShredFetch has the    *)
(* checks on the values of the fields.                                     *)
Parses(buf) ==
    /\ HasShred(buf)
    /\ LET fields == Deserialize(buf, get_shred_variant(buf).value.type)
       IN  \A name \in DOMAIN fields : fields[name].ok
Parsed(buf) ==
    LET type == get_shred_variant(buf).value.type
        payload == Slice(buf, 0, SIZE_OF_PAYLOAD(type))
        fields == Deserialize(payload, type)
    IN  [type |-> type, payload |-> payload, header |-> [name \in DOMAIN fields |-> fields[name].value]]

id(s) == <<s.header.slot, s.header.index, s.type>>
erasure_set(s) == <<s.header.slot, s.header.fec_set_index>>

erasure_shard_index(s) ==
    IF s.type = "data" THEN s.header.index - s.header.fec_set_index
    ELSE s.header.num_data_shreds + s.header.position

merkle_root(s) == RootFrom(s.payload, Variant(s), erasure_shard_index(s))

chained_merkle_root(s) ==
    LET at == get_chained_merkle_root_offset(Variant(s))
    IN  ReadAt(s.payload, at, at + SIZE_OF_MERKLE_ROOT)

retransmitter_signature(s) ==
    LET at == get_retransmitter_signature_offset(Variant(s))
    IN  IF at.ok THEN ReadAt(s.payload, at.value, at.value + SIZE_OF_SIGNATURE) ELSE at

reference_tick(s) == IF s.type = "code" THEN 63 ELSE s.header.flags % 64
data(s) == DataUpTo(s.payload, Variant(s), s.header.size)

(* The setters of a parsed shred, each of which writes one part of it. *)
Put(s, from, to, value) == [s EXCEPT !.payload = Write(@, from, to, value)]

set_signature(s, signature) ==
    [Put(s, 0, SIZE_OF_SIGNATURE, signature) EXCEPT !.header.signature = signature]
set_chained_merkle_root(s, root) ==
    Put(s, get_chained_merkle_root_offset(Variant(s)), get_proof_offset(Variant(s)), root)
set_merkle_proof(s, proof) == Put(s, get_proof_offset(Variant(s)), ProofEnd(Variant(s)), proof)
SetRetransmitterSignature(s, signature) ==
    LET at == get_retransmitter_signature_offset(Variant(s))
    IN  IF at.ok THEN Put(s, at.value, at.value + SIZE_OF_SIGNATURE, signature) ELSE s

(* What two shreds with one id are compared by.  Slip: all of the payload. *)
WholePayload(s) == s.payload
ComparedPayload(s) ==
    LET at == get_retransmitter_signature_offset(Variant(s))
    IN  IF at.ok /\ at.value <= Len(s.payload) THEN Slice(s.payload, 0, at.value) ELSE s.payload

is_shred_duplicate(s, t) == id(s) = id(t) /\ ComparedPayload(s) # ComparedPayload(t)

(* Slip: the coding shreds' index is compared as it is. *)
OwnIndex(s) == s.header.index
first_coding_index(s) == s.header.index - s.header.position

erasure_mismatch(s, t) ==
    \/ s.header.num_coding_shreds # t.header.num_coding_shreds
    \/ s.header.num_data_shreds # t.header.num_data_shreds
    \/ first_coding_index(s) # first_coding_index(t)
    \/ s.header.signature # t.header.signature

-----------------------------------------------------------------------------
(* The shreds of a block as its leader sends them, k = 1, 2, ...: made     *)
(* with the setters; no relay has signed them.                             *)
NumShreds(b) == b.num_data + b.num_coding

LeadersShred(b, k) ==
    LET type == IF k <= b.num_data THEN "data" ELSE "code"
        v == [type |-> type, proof_size |-> b.proof_size, resigned |-> b.resigned]
        common == [signature |-> "none", shred_variant |-> VariantByte(v), slot |-> Slot,
                   index |-> IF k <= b.num_data THEN FecSetIndex + k - 1
                             ELSE FirstCoding + k - b.num_data - 1,
                   version |-> Version, fec_set_index |-> FecSetIndex]
        special == IF type = "data"
                   THEN [parent_offset |-> 1, flags |-> 69, size |-> SIZE_OF_HEADERS("data") + 1]
                   ELSE [num_data_shreds |-> b.num_data, num_coding_shreds |-> b.num_coding,
                         position |-> k - b.num_data - 1]
        header == Header(type, common, special)
        bare == [type |-> type, header |-> header,
                 payload |-> Serialize(Zeros(SIZE_OF_PAYLOAD(type)), type, header)]
        filled == Put(bare, SIZE_OF_HEADERS(type), get_chained_merkle_root_offset(v), <<b.signature, "shard", k>>)
        proven == set_merkle_proof(set_chained_merkle_root(filled, "parent"), <<b.signature, "proof", k>>)
    IN  SetRetransmitterSignature(set_signature(proven, b.signature), "unsigned")

Originals == [b \in Blocks |-> [k \in 1..NumShreds(b) |-> LeadersShred(b, k)]]
Original(b, k) == Originals[b][k]

(* Shred::verify, where a leader's key has signed the roots of its blocks. *)
SignedRoots == [b \in Blocks |-> {merkle_root(Original(b, k)) : k \in 1..NumShreds(b)}]
LeaderSigned(signature, root) == \E b \in Blocks : b.signature = signature /\ root \in SignedRoots[b]
verify(s) == LeaderSigned(s.header.signature, merkle_root(s))

BlockOf(s) == CHOOSE b \in Blocks : b.signature = s.header.signature

(* make_stub_shred for the place k of a set whose last coding shred is     *)
(* `last`.                                                                 *)
StubVariant(last, k) ==
    IF k > last.header.num_data_shreds THEN Variant(last)
    ELSE [Variant(last) EXCEPT !.type = "data", !.resigned = retransmitter_signature(last).ok]

StubHeader(last, k) ==
    LET position == k - last.header.num_data_shreds - 1
    IN  IF k > last.header.num_data_shreds
        THEN [last.header EXCEPT !.index = first_coding_index(last) + position, !.position = position]
        ELSE Header("data",
               [last.header EXCEPT !.index = last.header.fec_set_index + k - 1,
                                   !.shred_variant = VariantByte(StubVariant(last, k))],
               [parent_offset |-> 0, flags |-> 0, size |-> 0])

make_stub_shred(last, k) ==
    LET type == StubVariant(last, k).type
        header == StubHeader(last, k)
        zeros == Zeros(SIZE_OF_PAYLOAD(type))
        bare == [type |-> type, header |-> header,
                 payload |-> IF type = "code" THEN Serialize(zeros, type, header)
                             ELSE Write(zeros, 0, SIZE_OF_SIGNATURE, header.signature)]
        chained == set_chained_merkle_root(bare, chained_merkle_root(last).value)
        signature == retransmitter_signature(last)
    IN  IF signature.ok THEN SetRetransmitterSignature(chained, signature.value) ELSE chained

(* reconstruct, in a stub's erasure shard; the headers of a data shred are *)
(* then read from there and must be the stub's; and set_merkle_proof.      *)
ShardLength(s) == erasure_shard_offsets(Variant(s))[2] - erasure_shard_offsets(Variant(s))[1]

WithShard(stub, b, k) ==
    LET range == erasure_shard_offsets(Variant(stub))
    IN  Replace(stub.payload, range[1], range[2], Slice(Original(b, k).payload, range[1], range[2]))

HeaderFits(stub, b, k) ==
    stub.type = "data" =>
      LET fields == Deserialize(WithShard(stub, b, k), "data")
      IN  \A name \in Names(CommonFields) : fields[name] = Ok(stub.header[name])

Rebuilt(stub, b, k) ==
    LET payload == WithShard(stub, b, k)
        fields == Deserialize(payload, stub.type)
        header == IF stub.type = "code" THEN stub.header ELSE [name \in DOMAIN fields |-> fields[name].value]
    IN  set_merkle_proof([stub EXCEPT !.payload = payload, !.header = header], <<b.signature, "proof", k>>)

-----------------------------------------------------------------------------
Init == packet = NoPacket /\ received = 0 /\ store = {}

(* A shred arrives in a buffer of some size: cut off, or with other bytes  *)
(* behind it.                                                              *)
Send(b, k, len) ==
    /\ packet = NoPacket
    /\ received < MaxReceived
    /\ LET shred == Original(b, k).payload
       IN  packet' = Slice(shred \o Span(Len(shred), len, "nonce"), 0, len)
    /\ UNCHANGED <<received, store>>

(* A relay signs it, on the bytes. *)
Resign(signature) ==
    /\ packet # NoPacket
    /\ packet' = set_retransmitter_signature(packet, signature)
    /\ UNCHANGED <<received, store>>

(* It is parsed, from the whole buffer or from what get_shred_from_buf     *)
(* makes of it, or refused.                                                *)
Receive ==
    /\ packet # NoPacket
    /\ packet' = NoPacket
    /\ \/ /\ Parses(packet)
          /\ \E buf \in {packet, get_shred_from_buf(packet)} : store' = store \cup {Parsed(buf)}
          /\ received' = received + 1
       \/ ~Parses(packet) /\ UNCHANGED <<received, store>>

(* recover may be called with shreds of one block, one for each place.     *)
Have(shreds) == {erasure_shard_index(s) + 1 : s \in shreds}
Missing(b, shreds) == (1..NumShreds(b)) \ Have(shreds)

Enough(b, shreds) ==
    /\ \A s \in shreds : s.header.signature = b.signature
    /\ \E s \in shreds : s.type = "code"
    /\ Cardinality(Have(shreds)) = Cardinality(shreds)
    /\ Cardinality(shreds) >= b.num_data
    /\ Missing(b, shreds) # {}

Stubs(b, shreds) ==
    LET codes == {s \in shreds : s.type = "code"}
        last == CHOOSE s \in codes : \A t \in codes : t.header.index <= s.header.index
    IN  [k \in Missing(b, shreds) |-> make_stub_shred(last, k)]

(* reconstruct wants shards of one length, and recover the stub's header.  *)
Reconstructs(b, shreds, stubs) ==
    /\ \A s \in shreds, k \in DOMAIN stubs : ShardLength(s) = ShardLength(stubs[k])
    /\ \A k \in DOMAIN stubs : HeaderFits(stubs[k], b, k)

(* recover: what is missing joins the store. *)
Recover(b, shreds) ==
    /\ Enough(b, shreds)
    /\ LET stubs == Stubs(b, shreds)
       IN  /\ Reconstructs(b, shreds, stubs)
           /\ store' = store \cup {Rebuilt(stubs[k], b, k) : k \in DOMAIN stubs}
    /\ UNCHANGED <<packet, received>>

(* The caller is done with the set. *)
Discard ==
    /\ store # {}
    /\ store' = {} /\ received' = 0
    /\ UNCHANGED packet

Next ==
    \/ \E b \in Blocks, len \in BufferSizes : \E k \in 1..NumShreds(b) : Send(b, k, len)
    \/ \E r \in Relays : Resign(r)
    \/ Receive
    \/ \E b \in Blocks : \E shreds \in SUBSET store : Recover(b, shreds)
    \/ Discard

Spec == Init /\ [][Next]_vars

-----------------------------------------------------------------------------
(* Every getter of wire.rs reads from the payload of a shred, received or  *)
(* rebuilt, what the parser or recover has put into its headers, although  *)
(* the one has its offsets written out (wire.rs 40-218) and the other has  *)
(* the order of the fields (lib.rs 246-272) and the stub's header.         *)
GettersAgreeWithHeaders ==
    \A s \in store :
      /\ get_shred_id(s.payload) = Ok(id(s))
      /\ get_signature(s.payload) = Ok(s.header.signature)
      /\ get_version(s.payload) = Ok(s.header.version)
      /\ get_fec_set_index(s.payload) = Ok(s.header.fec_set_index)
      /\ get_chained_merkle_root(s.payload) = chained_merkle_root(s)
      /\ get_retransmitter_signature(s.payload) = retransmitter_signature(s)
      /\ s.type = "data" =>
           /\ get_parent_offset(s.payload) = Ok(s.header.parent_offset)
           /\ get_flags(s.payload) = Ok(s.header.flags)
           /\ get_data_size(s.payload) = Ok(s.header.size)
           /\ get_reference_tick(s.payload) = Ok(reference_tick(s))
           /\ get_data(s.payload) = data(s)
      /\ s.type = "code" =>
           get_erasure_config(s.payload) = Ok(<<s.header.num_data_shreds, s.header.num_coding_shreds>>)

(* Whatever relays write and however long the buffer is, the bytes below   *)
(* the signature and the proof stay the leader's: every stored shred still *)
(* verifies (lib.rs 490), and the root read from its bytes (wire.rs 175)   *)
(* is the one that goes with its headers (merkle.rs 332).                  *)
RootSurvivesTransit ==
    \A s \in store :
      /\ verify(s)
      /\ get_merkle_root(s.payload) = merkle_root(s)
      /\ erasure_shard_index(s) \in 0..NumShreds(BlockOf(s)) - 1

(* Two shreds with one id are duplicates (lib.rs 519) exactly if leaders   *)
(* signed different ones: not if they came through different relays, and   *)
(* not if one of them was rebuilt with the relay's signature of another.   *)
DuplicatesAreForks ==
    \A s, t \in store : id(s) = id(t) =>
      (is_shred_duplicate(s, t) <=> s.header.signature # t.header.signature)

(* The coding shreds of an erasure set mismatch (merkle.rs 243) exactly if *)
(* they are of different blocks; two of one block, at whatever positions,  *)
(* never do.                                                               *)
MismatchesAreForks ==
    \A s, t \in {x \in store : x.type = "code"} : erasure_set(s) = erasure_set(t) =>
      (erasure_mismatch(s, t) <=> s.header.signature # t.header.signature)

(* Any shreds of a block that are enough to recover the others do recover  *)
(* them: the erasure shards of data and coding shreds, stubs among them,   *)
(* are equally long although their headers are not, and the rebuilt bytes  *)
(* hold the stub's header (merkle.rs 720-745).                             *)
EnoughShredsRecover ==
    \A b \in Blocks : \A shreds \in SUBSET store :
      Enough(b, shreds) => Reconstructs(b, shreds, Stubs(b, shreds))
=============================================================================
