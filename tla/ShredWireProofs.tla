--------------------------- MODULE ShredWireProofs ---------------------------
(* Where the parts of a shred lie and what its variant byte names, for     *)
(* every variant; and, for all blocks, relays and buffer sizes, that what  *)
(* is stored is a shred of some block, byte by byte, but for the           *)
(* signature of the relay it came through (WireInv).  All the invariants   *)
(* of ShredWire follow from that.                                          *)
EXTENDS ShredWire, DataInduction, TLAPS

(* Every variant that a byte can name has room for data: capacity's        *)
(* checked_sub (merkle.rs 266-275, 170-180) never fails on one.            *)
THEOREM EveryVariantFits ==
    \A v \in ShredVariant : HasCapacity(v) /\ capacity(v) > 0
<1> SUFFICES ASSUME NEW v \in ShredVariant PROVE HasCapacity(v) /\ capacity(v) > 0
    OBVIOUS
<1>1. v.proof_size \in 0..15 /\ v.type \in {"code", "data"} /\ v.resigned \in BOOLEAN
    BY DEF ShredVariant, Type
<1>2. v.proof_size * 20 \in 0..300
    BY <1>1
<1> QED
    BY <1>1, <1>2
    DEF HasCapacity, capacity, Overhead, SIZE_OF_PAYLOAD, CodePayload, SIZE_OF_HEADERS, SIZE_OF_NONCE,
        SIZE_OF_SIGNATURE, SIZE_OF_MERKLE_ROOT, SIZE_OF_MERKLE_PROOF_ENTRY, PACKET_DATA_SIZE

(* The sums behind the theorems below. *)
LEMMA Offsets ==
    ASSUME NEW v \in ShredVariant
    PROVE  /\ capacity(v) \in Nat \ {0}
           /\ get_chained_merkle_root_offset(v) = SIZE_OF_HEADERS(v.type) + capacity(v)
           /\ get_proof_offset(v) = get_chained_merkle_root_offset(v) + 32
           /\ ProofEnd(v) = get_proof_offset(v) + v.proof_size * 20
           /\ v.proof_size * 20 \in Nat
           /\ SIZE_OF_PAYLOAD(v.type) = ProofEnd(v) + IF v.resigned THEN 64 ELSE 0
<1>1. v.proof_size \in 0..15 /\ v.type \in {"code", "data"} /\ v.resigned \in BOOLEAN
    BY DEF ShredVariant, Type
<1>2. v.proof_size * 20 \in Nat
    BY <1>1
<1>3. Overhead(v) = SIZE_OF_HEADERS(v.type) + 32 + v.proof_size * 20 + (IF v.resigned THEN 64 ELSE 0)
    BY DEF Overhead, SIZE_OF_MERKLE_ROOT, SIZE_OF_MERKLE_PROOF_ENTRY, SIZE_OF_SIGNATURE
<1>4. capacity(v) = SIZE_OF_PAYLOAD(v.type) - Overhead(v) /\ capacity(v) > 0 /\ HasCapacity(v)
    BY EveryVariantFits DEF capacity
<1>5. SIZE_OF_HEADERS(v.type) \in Nat /\ SIZE_OF_PAYLOAD(v.type) \in Nat
    BY <1>1 DEF SIZE_OF_HEADERS, SIZE_OF_PAYLOAD, CodePayload, PACKET_DATA_SIZE, SIZE_OF_NONCE, SIZE_OF_SIGNATURE
<1>6. /\ get_chained_merkle_root_offset(v) = SIZE_OF_HEADERS(v.type) + capacity(v)
      /\ get_proof_offset(v) = get_chained_merkle_root_offset(v) + 32
      /\ ProofEnd(v) = get_proof_offset(v) + v.proof_size * 20
    BY DEF get_chained_merkle_root_offset, get_proof_offset, ProofEnd, SIZE_OF_MERKLE_ROOT,
           SIZE_OF_MERKLE_PROOF_ENTRY
<1> QED
    BY <1>1, <1>2, <1>3, <1>4, <1>5, <1>6

(* Headers, shard or data, chained root, proof and the retransmitter's     *)
(* signature follow each other without gap or overlap, and a resigned      *)
(* shred ends with that signature, as is_shred_duplicate asserts           *)
(* (lib.rs 527): the setters of merkle.rs disturb none but their own part. *)
THEOREM PartsFillThePayload ==
    \A v \in ShredVariant :
      /\ SIZE_OF_HEADERS(v.type) < get_chained_merkle_root_offset(v)
      /\ get_chained_merkle_root_offset(v) + SIZE_OF_MERKLE_ROOT = get_proof_offset(v)
      /\ get_proof_offset(v) <= ProofEnd(v)
      /\ v.resigned =>
           /\ get_retransmitter_signature_offset(v) = Ok(ProofEnd(v))
           /\ ProofEnd(v) + SIZE_OF_SIGNATURE = SIZE_OF_PAYLOAD(v.type)
      /\ ~v.resigned => ProofEnd(v) = SIZE_OF_PAYLOAD(v.type)
<1> SUFFICES ASSUME NEW v \in ShredVariant
             PROVE  /\ SIZE_OF_HEADERS(v.type) < get_chained_merkle_root_offset(v)
                    /\ get_chained_merkle_root_offset(v) + SIZE_OF_MERKLE_ROOT = get_proof_offset(v)
                    /\ get_proof_offset(v) <= ProofEnd(v)
                    /\ v.resigned =>
                         /\ get_retransmitter_signature_offset(v) = Ok(ProofEnd(v))
                         /\ ProofEnd(v) + SIZE_OF_SIGNATURE = SIZE_OF_PAYLOAD(v.type)
                    /\ ~v.resigned => ProofEnd(v) = SIZE_OF_PAYLOAD(v.type)
    OBVIOUS
<1>1. SIZE_OF_HEADERS(v.type) \in Nat
    BY DEF SIZE_OF_HEADERS
<1>2. /\ capacity(v) \in Nat \ {0}
      /\ get_chained_merkle_root_offset(v) = SIZE_OF_HEADERS(v.type) + capacity(v)
      /\ get_proof_offset(v) = get_chained_merkle_root_offset(v) + 32
      /\ ProofEnd(v) = get_proof_offset(v) + v.proof_size * 20
      /\ v.proof_size * 20 \in Nat
      /\ SIZE_OF_PAYLOAD(v.type) = ProofEnd(v) + IF v.resigned THEN 64 ELSE 0
    BY Offsets
<1>3. v.resigned => get_retransmitter_signature_offset(v) = Ok(ProofEnd(v))
    BY DEF get_retransmitter_signature_offset
<1> QED
    BY <1>1, <1>2, <1>3 DEF SIZE_OF_MERKLE_ROOT, SIZE_OF_SIGNATURE

(* Data and coding shreds of a set have erasure shards of one length, as   *)
(* reconstruct demands, although a data shred's begins with its headers    *)
(* and a coding shred's behind them; and the chained root lies behind the  *)
(* shard, which is why stubs have to be given it.                          *)
THEOREM ShardsAlign ==
    \A v, w \in ShredVariant :
      v.proof_size = w.proof_size /\ v.resigned = w.resigned =>
        /\ erasure_shard_offsets(v)[2] - erasure_shard_offsets(v)[1]
             = erasure_shard_offsets(w)[2] - erasure_shard_offsets(w)[1]
        /\ erasure_shard_offsets(v)[2] = get_chained_merkle_root_offset(v)
<1> SUFFICES ASSUME NEW v \in ShredVariant, NEW w \in ShredVariant,
                    v.proof_size = w.proof_size, v.resigned = w.resigned
             PROVE  /\ erasure_shard_offsets(v)[2] - erasure_shard_offsets(v)[1]
                         = erasure_shard_offsets(w)[2] - erasure_shard_offsets(w)[1]
                    /\ erasure_shard_offsets(v)[2] = get_chained_merkle_root_offset(v)
    OBVIOUS
<1> DEFINE Behind(x) == 32 + x.proof_size * 20 + IF x.resigned THEN 64 ELSE 0
<1>1. ASSUME NEW x \in ShredVariant
      PROVE  /\ x.proof_size * 20 \in Nat
             /\ erasure_shard_offsets(x)[2] = get_chained_merkle_root_offset(x)
             /\ erasure_shard_offsets(x)[1] = ERASURE_SHARD_START_OFFSET(x.type)
             /\ get_chained_merkle_root_offset(x) = SIZE_OF_PAYLOAD(x.type) - Behind(x)
             /\ SIZE_OF_PAYLOAD(x.type) - ERASURE_SHARD_START_OFFSET(x.type) = 1139
             /\ SIZE_OF_PAYLOAD(x.type) \in Nat /\ ERASURE_SHARD_START_OFFSET(x.type) \in Nat
  <2>1. x.proof_size * 20 \in Nat /\ get_chained_merkle_root_offset(x) = SIZE_OF_PAYLOAD(x.type) - Behind(x)
    <3>1. x.type \in {"code", "data"}
        BY DEF ShredVariant, Type
    <3>2. SIZE_OF_HEADERS(x.type) \in Nat
        BY DEF SIZE_OF_HEADERS
    <3> QED
        BY <3>2, Offsets
  <2>2. x.type \in {"code", "data"}
      BY DEF ShredVariant, Type
  <2>3. /\ SIZE_OF_PAYLOAD(x.type) - ERASURE_SHARD_START_OFFSET(x.type) = 1139
        /\ SIZE_OF_PAYLOAD(x.type) \in Nat /\ ERASURE_SHARD_START_OFFSET(x.type) \in Nat
      BY <2>2 DEF SIZE_OF_PAYLOAD, CodePayload, PACKET_DATA_SIZE, SIZE_OF_NONCE, SIZE_OF_SIGNATURE,
                  SIZE_OF_HEADERS, ERASURE_SHARD_START_OFFSET
  <2> QED
      BY <2>1, <2>3 DEF erasure_shard_offsets
<1>2. Behind(v) = Behind(w) /\ Behind(v) \in Nat
    BY <1>1
<1> HIDE DEF Behind
<1> QED
    BY <1>1, <1>2

(* A variant and its byte determine each other (lib.rs 567-622), so        *)
(* decoding what was encoded gives the same proof size and resigned bit,   *)
(* and no byte of a legacy format is taken for a variant.                  *)
THEOREM VariantRoundTrip ==
    /\ \A v \in ShredVariant : VariantByte(v) \in 0..255 /\ VariantOf(VariantByte(v)) = Ok(v)
    /\ \A byte \in 0..255 : VariantOf(byte).ok =>
         VariantOf(byte).value \in ShredVariant /\ VariantByte(VariantOf(byte).value) = byte
<1>1. ASSUME NEW v \in ShredVariant
      PROVE  VariantByte(v) \in 0..255 /\ VariantOf(VariantByte(v)) = Ok(v)
  <2>1. /\ v.type \in {"code", "data"} /\ v.proof_size \in 0..15 /\ v.resigned \in BOOLEAN
        /\ v = [type |-> v.type, proof_size |-> v.proof_size, resigned |-> v.resigned]
      BY DEF ShredVariant, Type
  <2> DEFINE high == HighNibble(v.type, v.resigned)
  <2>2. high \in {6, 7, 9, 11}
      BY <2>1 DEF HighNibble
  <2>3. (16 * high + v.proof_size) \div 16 = high /\ (16 * high + v.proof_size) % 16 = v.proof_size
      BY <2>1, <2>2
  <2>4. VariantByte(v) \in 0..255 /\ VariantByte(v) \div 16 = high /\ VariantByte(v) % 16 = v.proof_size
      BY <2>1, <2>2, <2>3 DEF VariantByte
  <2>5. VariantByte(v) \notin LegacyBytes
      BY <2>2, <2>4 DEF LegacyBytes
  <2>6. v.type = IF high \in {6, 7} THEN "code" ELSE "data"
      BY <2>1 DEF HighNibble
  <2>7. v.resigned = (high \in {7, 11})
      BY <2>1 DEF HighNibble
  <2> HIDE DEF high
  <2> QED
      BY <2>1, <2>2, <2>4, <2>5, <2>6, <2>7 DEF VariantOf
<1>2. ASSUME NEW byte \in 0..255, VariantOf(byte).ok
      PROVE  VariantOf(byte).value \in ShredVariant /\ VariantByte(VariantOf(byte).value) = byte
  <2> DEFINE high == byte \div 16
  <2> DEFINE v == [type |-> IF high \in {6, 7} THEN "code" ELSE "data",
                   proof_size |-> byte % 16, resigned |-> high \in {7, 11}]
  <2>1. high \in {6, 7, 9, 11} /\ VariantOf(byte) = Ok(v)
      BY <1>2 DEF VariantOf, Ok, Err
  <2>2. byte % 16 \in 0..15 /\ byte = 16 * high + (byte % 16)
      OBVIOUS
  <2>3. v \in ShredVariant
      BY <2>2 DEF ShredVariant, Type
  <2>4. HighNibble(v.type, v.resigned) = high
    <3>1. v.type = (IF high \in {6, 7} THEN "code" ELSE "data") /\ (v.resigned <=> high \in {7, 11})
        OBVIOUS
    <3>2. high = 6 \/ high = 7 \/ high = 9 \/ high = 11
        BY <2>1
    <3> HIDE DEF high, v
    <3>3. CASE high = 6
      <4>1. v.type = "code" /\ ~v.resigned
          BY <3>1, <3>3
      <4> QED
          BY <4>1, <3>3 DEF HighNibble
    <3>4. CASE high = 7
      <4>1. v.type = "code" /\ v.resigned
          BY <3>1, <3>4
      <4> QED
          BY <4>1, <3>4 DEF HighNibble
    <3>5. CASE high = 9
      <4>1. v.type = "data" /\ ~v.resigned
          BY <3>1, <3>5
      <4> QED
          BY <4>1, <3>5 DEF HighNibble
    <3>6. CASE high = 11
      <4>1. v.type = "data" /\ v.resigned
          BY <3>1, <3>6
      <4> QED
          BY <4>1, <3>6 DEF HighNibble
    <3> QED
        BY <3>2, <3>3, <3>4, <3>5, <3>6
  <2>5. VariantByte(v) = byte
      BY <2>2, <2>4 DEF VariantByte
  <2> QED
      BY <2>1, <2>3, <2>5 DEF Ok
<1> QED
    BY <1>1, <1>2

-----------------------------------------------------------------------------
(* Bytes. *)
Holds(buf, from, to, value) == \A i \in from + 1..to : buf[i] = <<from, to, value>>

LEMMA SameBytes ==
    ASSUME NEW a, NEW b, IsSeq(a), IsSeq(b), Len(a) = Len(b), \A i \in 1..Len(a) : a[i] = b[i]
    PROVE  a = b
<1>1. /\ a = [i \in 1..Len(a) |-> a[i]]
      /\ b = [i \in 1..Len(b) |-> b[i]]
    BY DEF IsSeq
<1> QED
    BY <1>1

LEMMA SpanIs ==
    ASSUME NEW from \in Nat, NEW to \in Nat, from <= to, NEW value
    PROVE  /\ IsSeq(Span(from, to, value))
           /\ Len(Span(from, to, value)) = to - from
           /\ \A i \in 1..to - from : Span(from, to, value)[i] = <<from, to, value>>
<1> DEFINE s == Span(from, to, value)
           n == to - from
<1>1. n \in Nat /\ s = [i \in 1..n |-> s[i]] /\ \A i \in 1..n : s[i] = <<from, to, value>>
    BY DEF Span
<1> HIDE DEF s, n
<1>2. IsSeq(s) /\ Len(s) = n
    BY <1>1, FunctionIsSeq
<1> QED
    BY <1>1, <1>2 DEF s, n

LEMMA SliceIs ==
    ASSUME NEW buf, IsSeq(buf), NEW from \in Nat, NEW to \in Nat, from <= to, to <= Len(buf)
    PROVE  /\ IsSeq(Slice(buf, from, to))
           /\ Len(Slice(buf, from, to)) = to - from
           /\ \A i \in 1..to - from : Slice(buf, from, to)[i] = buf[from + i]
<1> DEFINE s == Slice(buf, from, to)
           n == to - from
<1>1. buf \in Seq(Range(buf))
    BY DEF IsSeq
<1>2. s = [i \in 1..n |-> buf[from + i]] /\ n \in Nat
  <2>1. SubSeq(buf, from + 1, to) = [i \in 1..(1 + to - (from + 1)) |-> buf[i + (from + 1) - 1]]
      BY <1>1
  <2>2. 1 + to - (from + 1) = n /\ \A i \in 1..n : i + (from + 1) - 1 = from + i
      OBVIOUS
  <2> QED
      BY <2>1, <2>2 DEF Slice
<1>3. s = [i \in 1..n |-> s[i]] /\ \A i \in 1..n : s[i] = buf[from + i]
    BY <1>2
<1> HIDE DEF s
<1>4. IsSeq(s) /\ Len(s) = n
    BY <1>2, <1>3, FunctionIsSeq
<1> QED
    BY <1>3, <1>4 DEF s

LEMMA ReplaceIs ==
    ASSUME NEW buf, IsSeq(buf), NEW from \in Nat, NEW to \in Nat, from <= to, to <= Len(buf),
           NEW bytes, IsSeq(bytes), Len(bytes) = to - from
    PROVE  /\ IsSeq(Replace(buf, from, to, bytes))
           /\ Len(Replace(buf, from, to, bytes)) = Len(buf)
           /\ \A i \in 1..Len(buf) :
                Replace(buf, from, to, bytes)[i] = IF from < i /\ i <= to THEN bytes[i - from] ELSE buf[i]
<1> DEFINE a == Slice(buf, 0, from)
           c == Slice(buf, to, Len(buf))
           ab == a \o bytes
           q == ab \o c
           n == Len(buf)
<1>0. n \in Nat
    BY DEF IsSeq
<1>1. IsSeq(a) /\ Len(a) = from /\ \A i \in 1..from : a[i] = buf[i]
  <2>0. 0 \in Nat /\ 0 <= from /\ from <= n
      BY <1>0
  <2>1. /\ IsSeq(a) /\ Len(a) = from - 0
        /\ \A i \in 1..from - 0 : a[i] = buf[0 + i]
      BY <2>0, SliceIs, Zenon
  <2> HIDE DEF a
  <2>2. from - 0 = from /\ \A i \in 1..from : 0 + i = i
      OBVIOUS
  <2> QED
      BY <2>1, <2>2
<1>2. IsSeq(c) /\ Len(c) = n - to /\ \A i \in 1..n - to : c[i] = buf[to + i]
  <2>1. n <= n
      BY <1>0
  <2> QED
      BY <1>0, <2>1, SliceIs, Zenon
<1>3. Replace(buf, from, to, bytes) = q
    BY DEF Replace
<1> HIDE DEF a, c
<1>4. /\ IsSeq(ab) /\ Len(ab) = Len(a) + Len(bytes)
      /\ \A i \in 1..Len(a) : ab[i] = a[i]
      /\ \A i \in Len(a) + 1..Len(a) + Len(bytes) : ab[i] = bytes[i - Len(a)]
  <2>1. IsSeq(a)
      BY <1>1
  <2> QED
      BY <2>1, Joined, ZenonT(60)
<1> HIDE DEF ab
<1>5. /\ IsSeq(q) /\ Len(q) = Len(ab) + Len(c)
      /\ \A i \in 1..Len(ab) : q[i] = ab[i]
      /\ \A i \in Len(ab) + 1..Len(ab) + Len(c) : q[i] = c[i - Len(ab)]
  <2>1. IsSeq(ab) /\ IsSeq(c)
      BY <1>2, <1>4
  <2> QED
      BY <2>1, Joined, ZenonT(60)
<1>6. Len(ab) = to /\ Len(q) = n
    BY <1>0, <1>1, <1>2, <1>4, <1>5
<1> HIDE DEF q
<1>7. ASSUME NEW i \in 1..n PROVE q[i] = IF from < i /\ i <= to THEN bytes[i - from] ELSE buf[i]
  <2>1. CASE i <= from
    <3>1. i \in 1..Len(a) /\ i \in 1..Len(ab) /\ i \in 1..from
        BY <1>0, <1>1, <1>6, <2>1
    <3>2. q[i] = buf[i]
        BY <1>1, <1>4, <1>5, <3>1
    <3> QED
        BY <2>1, <3>2
  <2>2. CASE from < i /\ i <= to
    <3>1. i \in Len(a) + 1..Len(a) + Len(bytes) /\ i \in 1..Len(ab)
        BY <1>0, <1>1, <1>6, <2>2
    <3>2. q[i] = bytes[i - from]
        BY <1>1, <1>4, <1>5, <3>1
    <3> QED
        BY <2>2, <3>2
  <2>3. CASE to < i
    <3>1. i \in Len(ab) + 1..Len(ab) + Len(c) /\ i - to \in 1..n - to /\ to + (i - to) = i
        BY <1>0, <1>2, <1>6, <2>3
    <3>2. q[i] = c[i - to]
        BY <1>5, <1>6, <3>1
    <3>3. c[i - to] = buf[to + (i - to)]
        BY <1>2, <3>1
    <3> QED
        BY <2>3, <3>1, <3>2, <3>3
  <2> QED
      BY <2>1, <2>2, <2>3
<1> QED
    BY <1>3, <1>5, <1>6, <1>7

LEMMA WriteIs ==
    ASSUME NEW buf, IsSeq(buf), NEW from \in Nat, NEW to \in Nat, from <= to, to <= Len(buf), NEW value
    PROVE  /\ IsSeq(Write(buf, from, to, value))
           /\ Len(Write(buf, from, to, value)) = Len(buf)
           /\ \A i \in 1..Len(buf) :
                Write(buf, from, to, value)[i] = IF from < i /\ i <= to THEN <<from, to, value>> ELSE buf[i]
<1> DEFINE s == Span(from, to, value)
           w == Replace(buf, from, to, s)
<1>1. IsSeq(s) /\ Len(s) = to - from /\ \A i \in 1..to - from : s[i] = <<from, to, value>>
    BY SpanIs
<1>2. Write(buf, from, to, value) = w
    BY DEF Write
<1> HIDE DEF s
<1>3. /\ IsSeq(w) /\ Len(w) = Len(buf)
      /\ \A i \in 1..Len(buf) : w[i] = IF from < i /\ i <= to THEN s[i - from] ELSE buf[i]
    BY <1>1, ReplaceIs
<1> HIDE DEF w
<1>4. Len(buf) \in Nat
    BY DEF IsSeq
<1>5. ASSUME NEW i \in 1..Len(buf) PROVE w[i] = IF from < i /\ i <= to THEN <<from, to, value>> ELSE buf[i]
  <2>1. CASE from < i /\ i <= to
    <3>1. i - from \in 1..to - from
        BY <1>4, <2>1
    <3> QED
        BY <1>1, <1>3, <2>1, <3>1
  <2>2. CASE ~(from < i /\ i <= to)
      BY <1>3, <2>2
  <2> QED
      BY <2>1, <2>2
<1> QED
    BY <1>2, <1>3, <1>5

(* What a write puts there, and what it leaves alone. *)
LEMMA ReadHeld ==
    ASSUME NEW buf, IsSeq(buf), NEW from \in Nat, NEW to \in Nat, from < to, to <= Len(buf), NEW value,
           Holds(buf, from, to, value)
    PROVE  ReadAt(buf, from, to) = Ok(value)
<1>0. Len(buf) \in Nat
    BY DEF IsSeq
<1>1. Len(buf) \in Nat /\ from + 1 \in from + 1..to
    BY <1>0
<1>2. buf[from + 1][3] = value
    BY <1>1 DEF Holds
<1> DEFINE s == Slice(buf, from, to)
           t == Span(from, to, value)
<1>3. IsSeq(s) /\ Len(s) = to - from /\ \A i \in 1..to - from : s[i] = buf[from + i]
    BY SliceIs
<1>4. IsSeq(t) /\ Len(t) = to - from /\ \A i \in 1..to - from : t[i] = <<from, to, value>>
    BY SpanIs
<1>5. \A i \in 1..to - from : from + i \in from + 1..to
    OBVIOUS
<1> HIDE DEF s, t
<1>6. \A i \in 1..Len(s) : s[i] = t[i]
    BY <1>3, <1>4, <1>5 DEF Holds
<1>7. s = t
    BY <1>3, <1>4, <1>6, SameBytes
<1>8. ~(to > Len(buf))
    BY <1>1
<1> QED
    BY <1>2, <1>7, <1>8 DEF ReadAt, s, t

-----------------------------------------------------------------------------
(* Headers. *)
LEMMA Sizes ==
    /\ SIZE_OF_HEADERS("data") = 88 /\ SIZE_OF_HEADERS("code") = 89
    /\ SIZE_OF_PAYLOAD("data") = 1203 /\ SIZE_OF_PAYLOAD("code") = 1228
    /\ SIZE_OF_SIGNATURE = 64 /\ SIZE_OF_MERKLE_ROOT = 32 /\ SIZE_OF_MERKLE_PROOF_ENTRY = 20
BY DEF SIZE_OF_HEADERS, SIZE_OF_PAYLOAD, CodePayload, PACKET_DATA_SIZE, SIZE_OF_NONCE, SIZE_OF_SIGNATURE,
       SIZE_OF_MERKLE_ROOT, SIZE_OF_MERKLE_PROOF_ENTRY

CommonNames == {"signature", "shred_variant", "slot", "index", "version", "fec_set_index"}
DataNames == {"parent_offset", "flags", "size"}
CodeNames == {"num_data_shreds", "num_coding_shreds", "position"}

(* The fields by number. *)
FieldNumbers(fields) ==
    /\ fields[1] = <<"signature", 64>> /\ fields[2] = <<"shred_variant", 1>> /\ fields[3] = <<"slot", 8>>
    /\ fields[4] = <<"index", 4>> /\ fields[5] = <<"version", 2>> /\ fields[6] = <<"fec_set_index", 4>>
DataFields(fields) ==
    fields[7] = <<"parent_offset", 2>> /\ fields[8] = <<"flags", 1>> /\ fields[9] = <<"size", 2>>
CodeFields(fields) ==
    /\ fields[7] = <<"num_data_shreds", 2>> /\ fields[8] = <<"num_coding_shreds", 2>>
    /\ fields[9] = <<"position", 2>>

LEMMA FieldsJoined ==
    ASSUME NEW t, IsSeq(t), Len(t) = 3, NEW q, q = CommonFields \o t
    PROVE  IsSeq(q) /\ Len(q) = 9 /\ FieldNumbers(q) /\ q[7] = t[1] /\ q[8] = t[2] /\ q[9] = t[3]
<1> DEFINE c == CommonFields
<1>1. IsSeq(c) /\ Len(c) = 6 /\ FieldNumbers(c)
  <2>1. c \in Seq({c[1], c[2], c[3], c[4], c[5], c[6]}) /\ Len(c) = 6
      BY DEF CommonFields
  <2>2. FieldNumbers(c)
      BY DEF CommonFields, FieldNumbers
  <2> QED
      BY <2>1, <2>2, TypedIsSeq
<1>3. q = c \o t
    OBVIOUS
<1> HIDE DEF c
<1>4. /\ IsSeq(c \o t) /\ Len(c \o t) = Len(c) + Len(t)
      /\ \A i \in 1..Len(c) : (c \o t)[i] = c[i]
      /\ \A i \in Len(c) + 1..Len(c) + Len(t) : (c \o t)[i] = t[i - Len(c)]
    BY <1>1, Joined, Zenon
<1>5. /\ IsSeq(q) /\ Len(q) = 9
      /\ \A i \in 1..6 : q[i] = c[i]
      /\ \A i \in 7..9 : q[i] = t[i - 6]
  <2>1. 6 + 1 = 7 /\ 6 + 3 = 9
      OBVIOUS
  <2> QED
      BY <1>1, <1>3, <1>4, <2>1, Zenon
<1>6. q[7] = t[1] /\ q[8] = t[2] /\ q[9] = t[3]
  <2>1. 7 \in 7..9 /\ 8 \in 7..9 /\ 9 \in 7..9 /\ 7 - 6 = 1 /\ 8 - 6 = 2 /\ 9 - 6 = 3
      OBVIOUS
  <2> QED
      BY <1>5, <2>1
<1>7. q[1] = c[1] /\ q[2] = c[2] /\ q[3] = c[3] /\ q[4] = c[4] /\ q[5] = c[5] /\ q[6] = c[6]
    BY <1>5
<1>8. FieldNumbers(q)
    BY <1>1, <1>7 DEF FieldNumbers
<1> QED
    BY <1>5, <1>6, <1>8

LEMMA FieldsAre ==
    ASSUME NEW type \in Type
    PROVE  /\ IsSeq(Fields[type]) /\ Len(Fields[type]) = 9 /\ DOMAIN Fields[type] = 1..9
           /\ FieldNumbers(Fields[type])
           /\ IF type = "data" THEN DataFields(Fields[type]) ELSE CodeFields(Fields[type])
<1>1. CASE type = "data"
  <2> DEFINE t == <<<<"parent_offset", 2>>, <<"flags", 1>>, <<"size", 2>>>>
             q == Fields[type]
  <2>1. q = CommonFields \o t
      BY <1>1 DEF Fields
  <2>2. t \in Seq({t[1], t[2], t[3]}) /\ Len(t) = 3
      OBVIOUS
  <2>3. /\ t[1] = <<"parent_offset", 2>> /\ t[2] = <<"flags", 1>>
        /\ t[3] = <<"size", 2>>
      OBVIOUS
  <2> HIDE DEF t, q
  <2>4. IsSeq(t)
      BY <2>2, TypedIsSeq
  <2>5. IsSeq(q) /\ Len(q) = 9 /\ FieldNumbers(q) /\ q[7] = t[1] /\ q[8] = t[2] /\ q[9] = t[3]
      BY <2>1, <2>2, <2>4, FieldsJoined, Zenon
  <2>6. DOMAIN q = 1..9
      BY <2>5 DEF IsSeq
  <2>7. DataFields(q)
      BY <2>3, <2>5 DEF DataFields
  <2> QED
      BY <1>1, <2>5, <2>6, <2>7 DEF q
<1>2. CASE type = "code"
  <2> DEFINE t == <<<<"num_data_shreds", 2>>, <<"num_coding_shreds", 2>>, <<"position", 2>>>>
             q == Fields[type]
  <2>1. q = CommonFields \o t
      BY <1>2 DEF Fields
  <2>2. t \in Seq({t[1], t[2], t[3]}) /\ Len(t) = 3
      OBVIOUS
  <2>3. /\ t[1] = <<"num_data_shreds", 2>> /\ t[2] = <<"num_coding_shreds", 2>>
        /\ t[3] = <<"position", 2>>
      OBVIOUS
  <2> HIDE DEF t, q
  <2>4. IsSeq(t)
      BY <2>2, TypedIsSeq
  <2>5. IsSeq(q) /\ Len(q) = 9 /\ FieldNumbers(q) /\ q[7] = t[1] /\ q[8] = t[2] /\ q[9] = t[3]
      BY <2>1, <2>2, <2>4, FieldsJoined, Zenon
  <2>6. DOMAIN q = 1..9
      BY <2>5 DEF IsSeq
  <2>7. CodeFields(q)
      BY <2>3, <2>5 DEF CodeFields
  <2> QED
      BY <1>2, <2>5, <2>6, <2>7 DEF q
<1> QED
    BY <1>1, <1>2 DEF Type

LEMMA NamesAre ==
    /\ Names(CommonFields) = CommonNames
    /\ \A type \in Type : Names(Fields[type]) = CommonNames \cup IF type = "data" THEN DataNames ELSE CodeNames
<1>1. Names(CommonFields) = CommonNames
  <2>1. DOMAIN CommonFields = 1..6 /\ FieldNumbers(CommonFields)
      BY DEF CommonFields, FieldNumbers
  <2>2. DOMAIN CommonFields = {1, 2, 3, 4, 5, 6}
      BY <2>1
  <2> QED
      BY <2>1, <2>2 DEF Names, FieldNumbers, CommonNames
<1>2. ASSUME NEW type \in Type
      PROVE  Names(Fields[type]) = CommonNames \cup IF type = "data" THEN DataNames ELSE CodeNames
  <2>1. /\ DOMAIN Fields[type] = 1..9 /\ FieldNumbers(Fields[type])
        /\ IF type = "data" THEN DataFields(Fields[type]) ELSE CodeFields(Fields[type])
      BY FieldsAre
  <2>2. DOMAIN Fields[type] = {1, 2, 3, 4, 5, 6, 7, 8, 9}
      BY <2>1
  <2> QED
      BY <2>1, <2>2 DEF Names, FieldNumbers, DataFields, CodeFields, CommonNames, DataNames, CodeNames
<1> QED
    BY <1>1, <1>2

LEMMA HeaderIs ==
    ASSUME NEW type \in Type, NEW common, NEW special
    PROVE  LET h == Header(type, common, special)
           IN  /\ h = [name \in DOMAIN h |-> h[name]]
               /\ DOMAIN h = CommonNames \cup IF type = "data" THEN DataNames ELSE CodeNames
               /\ \A name \in DOMAIN h : h[name] = IF name \in CommonNames THEN common[name] ELSE special[name]
BY NamesAre DEF Header

(* Where the fields lie.  The byte at place i of the headers. *)
FieldStarts(type, at) ==
    /\ at[1] = 0 /\ at[2] = 64 /\ at[3] = 65 /\ at[4] = 73 /\ at[5] = 77 /\ at[6] = 79 /\ at[7] = 83
    /\ at[8] = 85 /\ IF type = "data" THEN at[9] = 86 /\ at[10] = 88 ELSE at[9] = 87 /\ at[10] = 89

HeaderByte(type, h, i) ==
    IF i <= 64 THEN <<0, 64, h.signature>>
    ELSE IF i <= 65 THEN <<64, 65, h.shred_variant>>
    ELSE IF i <= 73 THEN <<65, 73, h.slot>>
    ELSE IF i <= 77 THEN <<73, 77, h.index>>
    ELSE IF i <= 79 THEN <<77, 79, h.version>>
    ELSE IF i <= 83 THEN <<79, 83, h.fec_set_index>>
    ELSE IF type = "data"
         THEN IF i <= 85 THEN <<83, 85, h.parent_offset>>
              ELSE IF i <= 86 THEN <<85, 86, h.flags>>
              ELSE <<86, 88, h.size>>
         ELSE IF i <= 85 THEN <<83, 85, h.num_data_shreds>>
              ELSE IF i <= 87 THEN <<85, 87, h.num_coding_shreds>>
              ELSE <<87, 89, h.position>>

LEMMA FieldOffsetsAre ==
    ASSUME NEW type \in Type
    PROVE  FieldStarts(type, FieldOffsets[type])
<1> DEFINE width == [i \in 1..9 |-> Fields[type][i][2]]
           at == FieldOffsets[type]
           w == [i \in 1..10 |-> IF i = 1 THEN 0 ELSE IF i = 2 THEN 64 ELSE IF i = 3 THEN 65
                                 ELSE IF i = 4 THEN 73 ELSE IF i = 5 THEN 77 ELSE IF i = 6 THEN 79
                                 ELSE IF i = 7 THEN 83 ELSE IF i = 8 THEN 85
                                 ELSE IF type = "data" THEN (IF i = 9 THEN 86 ELSE 88)
                                 ELSE (IF i = 9 THEN 87 ELSE 89)]
           AddsUp(g) == g = [i \in 1..10 |-> IF i = 1 THEN 0 ELSE g[i - 1] + width[i - 1]]
<1>1. /\ width[1] = 64 /\ width[2] = 1 /\ width[3] = 8 /\ width[4] = 4 /\ width[5] = 2 /\ width[6] = 4
      /\ width[7] = 2 /\ width[9] = 2
      /\ width[8] = IF type = "data" THEN 1 ELSE 2
    BY FieldsAre DEF FieldNumbers, DataFields, CodeFields
<1> DEFINE P(g) == g = [i \in 1..Len(Fields[type]) + 1 |-> IF i = 1 THEN 0 ELSE g[i - 1] + Fields[type][i - 1][2]]
<1>2. at = CHOOSE g : P(g)
    BY DEF FieldOffsets
<1>8. ASSUME NEW g PROVE P(g) <=> AddsUp(g)
  <2>1. Len(Fields[type]) + 1 = 10
    <3>1. Len(Fields[type]) = 9
        BY FieldsAre
    <3> QED
        BY <3>1
  <2>2. ASSUME NEW i \in 1..10, i # 1 PROVE width[i - 1] = Fields[type][i - 1][2]
    <3>1. i - 1 \in 1..9
        BY <2>2
    <3> QED
        BY <3>1
  <2> HIDE DEF width
  <2>3. [i \in 1..10 |-> IF i = 1 THEN 0 ELSE g[i - 1] + width[i - 1]]
          = [i \in 1..10 |-> IF i = 1 THEN 0 ELSE g[i - 1] + Fields[type][i - 1][2]]
      BY <2>2
  <2> QED
      BY <2>1, <2>3
<1> HIDE DEF width, at
<1>3. AddsUp(w)
  <2>1. ASSUME NEW i \in 1..10
        PROVE  w[i] = IF i = 1 THEN 0 ELSE w[i - 1] + width[i - 1]
    <3>1. /\ w[1] = 0 /\ w[2] = 64 /\ w[3] = 65 /\ w[4] = 73 /\ w[5] = 77 /\ w[6] = 79 /\ w[7] = 83
          /\ w[8] = 85 /\ IF type = "data" THEN w[9] = 86 /\ w[10] = 88 ELSE w[9] = 87 /\ w[10] = 89
        OBVIOUS
    <3>2. \/ i = 1 \/ i = 2 \/ i = 3 \/ i = 4 \/ i = 5 \/ i = 6 \/ i = 7 \/ i = 8 \/ i = 9 \/ i = 10
        OBVIOUS
    <3> HIDE DEF w
    <3> QED
        BY <1>1, <3>1, <3>2
  <2>2. w = [i \in 1..10 |-> w[i]]
      OBVIOUS
  <2> HIDE DEF w
  <2> QED
      BY <2>1, <2>2
<1>4. AddsUp(at)
  <2> HIDE DEF AddsUp, P, w
  <2> QED
      BY <1>2, <1>3, <1>8
<1>5. \A i \in 1..10 : at[i] = IF i = 1 THEN 0 ELSE at[i - 1] + width[i - 1]
    BY <1>4
<1>6. /\ at[1] = 0 /\ at[2] = at[1] + width[1] /\ at[3] = at[2] + width[2] /\ at[4] = at[3] + width[3]
      /\ at[5] = at[4] + width[4] /\ at[6] = at[5] + width[5] /\ at[7] = at[6] + width[6]
      /\ at[8] = at[7] + width[7] /\ at[9] = at[8] + width[8] /\ at[10] = at[9] + width[9]
  <2>1. /\ 2 - 1 = 1 /\ 3 - 1 = 2 /\ 4 - 1 = 3 /\ 5 - 1 = 4 /\ 6 - 1 = 5 /\ 7 - 1 = 6 /\ 8 - 1 = 7
        /\ 9 - 1 = 8 /\ 10 - 1 = 9
      OBVIOUS
  <2> QED
      BY <1>5, <2>1
<1>7. FieldStarts(type, at)
    BY <1>1, <1>6 DEF FieldStarts
<1> QED
    BY <1>7 DEF at

(* The field of a place is the one its offsets enclose. *)
LEMMA FieldOfPlace ==
    ASSUME NEW type, NEW at, FieldStarts(type, at), NEW f \in 1..9, NEW g \in 1..9, NEW i \in Nat,
           at[f] <= i, i < at[f + 1], at[g] <= i, i < at[g + 1]
    PROVE  f = g
<1>1. /\ f = 1 \/ f = 2 \/ f = 3 \/ f = 4 \/ f = 5 \/ f = 6 \/ f = 7 \/ f = 8 \/ f = 9
      /\ g = 1 \/ g = 2 \/ g = 3 \/ g = 4 \/ g = 5 \/ g = 6 \/ g = 7 \/ g = 8 \/ g = 9
    OBVIOUS
<1> QED
    BY <1>1 DEF FieldStarts

LEMMA SerializeIs ==
    ASSUME NEW type \in Type, NEW buf, IsSeq(buf), Len(buf) = SIZE_OF_PAYLOAD(type), NEW h
    PROVE  /\ IsSeq(Serialize(buf, type, h))
           /\ Len(Serialize(buf, type, h)) = Len(buf)
           /\ \A i \in 1..Len(buf) :
                Serialize(buf, type, h)[i] =
                  IF i <= SIZE_OF_HEADERS(type) THEN HeaderByte(type, h, i) ELSE buf[i]
<1>f. /\ Len(Fields[type]) = 9 /\ DOMAIN Fields[type] = 1..9 /\ Len(Fields[type]) + 1 = 10
      /\ FieldNumbers(Fields[type])
      /\ IF type = "data" THEN DataFields(Fields[type]) ELSE CodeFields(Fields[type])
  <2>1. /\ Len(Fields[type]) = 9 /\ DOMAIN Fields[type] = 1..9
        /\ FieldNumbers(Fields[type])
        /\ IF type = "data" THEN DataFields(Fields[type]) ELSE CodeFields(Fields[type])
      BY FieldsAre
  <2> QED
      BY <2>1
<1>t. type = "data" \/ type = "code"
    BY DEF Type
<1> DEFINE at == FieldOffsets[type]
           field(i) == CHOOSE f \in DOMAIN Fields[type] : at[f] <= i /\ i < at[f + 1]
           value(f) == <<at[f], at[f + 1], h[Fields[type][f][1]]>>
           end == at[Len(Fields[type]) + 1]
           bytes == [i \in 1..end |-> value(field(i - 1))]
           q == Serialize(buf, type, h)
<1>0. FieldStarts(type, at)
    BY FieldOffsetsAre
<1>1. /\ end = SIZE_OF_HEADERS(type) /\ end \in Nat /\ 0 <= end /\ end <= Len(buf)
      /\ end = IF type = "data" THEN 88 ELSE 89
  <2>1. end = at[10]
      BY <1>f
  <2>2. at[10] = IF type = "data" THEN 88 ELSE 89
      BY <1>0 DEF FieldStarts
  <2> HIDE DEF end
  <2> QED
      BY <1>t, <2>1, <2>2, Sizes
<1>2. ASSUME NEW i \in 1..end PROVE value(field(i - 1)) = HeaderByte(type, h, i)
  <2> DEFINE j == i - 1
  <2>1. \E f \in 1..9 : at[f] <= j /\ j < at[f + 1] /\ value(f) = HeaderByte(type, h, i)
    <3>1. j \in Nat /\ j + 1 = i /\ j < end
        BY <1>1
    <3>3. /\ at[1] = 0 /\ at[1 + 1] = 64 /\ at[2] = 64 /\ at[2 + 1] = 65 /\ at[3] = 65 /\ at[3 + 1] = 73
          /\ at[4] = 73 /\ at[4 + 1] = 77 /\ at[5] = 77 /\ at[5 + 1] = 79 /\ at[6] = 79 /\ at[6 + 1] = 83
          /\ at[7] = 83 /\ at[7 + 1] = 85 /\ at[8] = 85
          /\ type = "data" => at[8 + 1] = 86 /\ at[9] = 86 /\ at[9 + 1] = 88
          /\ type # "data" => at[8 + 1] = 87 /\ at[9] = 87 /\ at[9 + 1] = 89
        BY <1>0 DEF FieldStarts
    <3> HIDE DEF at
    <3>2. ASSUME NEW f \in 1..9, NEW name, NEW width, Fields[type][f] = <<name, width>>
          PROVE  value(f) = <<at[f], at[f + 1], h[name]>>
        BY <3>2
    <3>4. /\ value(1) = <<0, 64, h.signature>> /\ value(2) = <<64, 65, h.shred_variant>>
          /\ value(3) = <<65, 73, h.slot>> /\ value(4) = <<73, 77, h.index>>
          /\ value(5) = <<77, 79, h.version>> /\ value(6) = <<79, 83, h.fec_set_index>>
      <4>1. /\ value(1) = <<at[1], at[1 + 1], h["signature"]>> /\ value(2) = <<at[2], at[2 + 1], h["shred_variant"]>>
            /\ value(3) = <<at[3], at[3 + 1], h["slot"]>> /\ value(4) = <<at[4], at[4 + 1], h["index"]>>
            /\ value(5) = <<at[5], at[5 + 1], h["version"]>> /\ value(6) = <<at[6], at[6 + 1], h["fec_set_index"]>>
          BY <1>f, <3>2 DEF FieldNumbers
      <4> HIDE DEF value
      <4> QED
          BY <3>3, <4>1
    <3>5. type = "data" => /\ value(7) = <<83, 85, h.parent_offset>> /\ value(8) = <<85, 86, h.flags>>
                           /\ value(9) = <<86, 88, h.size>>
      <4>1. type = "data" => /\ value(7) = <<at[7], at[7 + 1], h["parent_offset"]>>
                             /\ value(8) = <<at[8], at[8 + 1], h["flags"]>>
                             /\ value(9) = <<at[9], at[9 + 1], h["size"]>>
          BY <1>f, <3>2 DEF DataFields
      <4> HIDE DEF value
      <4> QED
          BY <3>3, <4>1
    <3>6. type # "data" => /\ value(7) = <<83, 85, h.num_data_shreds>>
                           /\ value(8) = <<85, 87, h.num_coding_shreds>>
                           /\ value(9) = <<87, 89, h.position>>
      <4>1. type # "data" => /\ value(7) = <<at[7], at[7 + 1], h["num_data_shreds"]>>
                             /\ value(8) = <<at[8], at[8 + 1], h["num_coding_shreds"]>>
                             /\ value(9) = <<at[9], at[9 + 1], h["position"]>>
          BY <1>f, <3>2 DEF CodeFields
      <4> HIDE DEF value
      <4> QED
          BY <3>3, <4>1
    <3> HIDE DEF value, at, j, end, bytes
    <3> DEFINE In(f) == at[f] <= j /\ j < at[f + 1] /\ value(f) = HeaderByte(type, h, i)
    <3>7. In(1) \/ In(2) \/ In(3) \/ In(4) \/ In(5) \/ In(6) \/ In(7) \/ In(8) \/ In(9)
      <4>1. CASE i <= 64
        <5>1. value(1) = HeaderByte(type, h, i)
            BY <1>1, <3>1, <3>4, <4>1 DEF HeaderByte
        <5>2. at[1] <= j /\ j < at[1 + 1]
            BY <1>1, <3>1, <3>3, <4>1
        <5> QED
            BY <5>1, <5>2
      <4>2. CASE 64 < i /\ i <= 65
        <5>1. value(2) = HeaderByte(type, h, i)
            BY <1>1, <3>1, <3>4, <4>2 DEF HeaderByte
        <5>2. at[2] <= j /\ j < at[2 + 1]
            BY <1>1, <3>1, <3>3, <4>2
        <5> QED
            BY <5>1, <5>2
      <4>3. CASE 65 < i /\ i <= 73
        <5>1. value(3) = HeaderByte(type, h, i)
            BY <1>1, <3>1, <3>4, <4>3 DEF HeaderByte
        <5>2. at[3] <= j /\ j < at[3 + 1]
            BY <1>1, <3>1, <3>3, <4>3
        <5> QED
            BY <5>1, <5>2
      <4>4. CASE 73 < i /\ i <= 77
        <5>1. value(4) = HeaderByte(type, h, i)
            BY <1>1, <3>1, <3>4, <4>4 DEF HeaderByte
        <5>2. at[4] <= j /\ j < at[4 + 1]
            BY <1>1, <3>1, <3>3, <4>4
        <5> QED
            BY <5>1, <5>2
      <4>5. CASE 77 < i /\ i <= 79
        <5>1. value(5) = HeaderByte(type, h, i)
            BY <1>1, <3>1, <3>4, <4>5 DEF HeaderByte
        <5>2. at[5] <= j /\ j < at[5 + 1]
            BY <1>1, <3>1, <3>3, <4>5
        <5> QED
            BY <5>1, <5>2
      <4>6. CASE 79 < i /\ i <= 83
        <5>1. value(6) = HeaderByte(type, h, i)
            BY <1>1, <3>1, <3>4, <4>6 DEF HeaderByte
        <5>2. at[6] <= j /\ j < at[6 + 1]
            BY <1>1, <3>1, <3>3, <4>6
        <5> QED
            BY <5>1, <5>2
      <4>7. CASE type = "data" /\ 83 < i /\ i <= 85
        <5>1. value(7) = HeaderByte(type, h, i)
            BY <1>1, <3>1, <3>5, <4>7 DEF HeaderByte
        <5>2. at[7] <= j /\ j < at[7 + 1]
            BY <1>1, <3>1, <3>3, <4>7
        <5> QED
            BY <5>1, <5>2
      <4>8. CASE type = "data" /\ 85 < i /\ i <= 86
        <5>1. value(8) = HeaderByte(type, h, i)
            BY <1>1, <3>1, <3>5, <4>8 DEF HeaderByte
        <5>2. at[8] <= j /\ j < at[8 + 1]
            BY <1>1, <3>1, <3>3, <4>8
        <5> QED
            BY <5>1, <5>2
      <4>9. CASE type = "data" /\ 86 < i
        <5>1. value(9) = HeaderByte(type, h, i)
            BY <1>1, <3>1, <3>5, <4>9 DEF HeaderByte
        <5>3. end = 88
            BY <1>1, <4>9
        <5>2. at[9] <= j /\ j < at[9 + 1]
          <6>1. at[9] = 86 /\ at[9 + 1] = 88
              BY <3>3, <4>9
          <6>2. 86 <= j /\ j < 88
              BY <3>1, <4>9, <5>3
          <6> QED
              BY <6>1, <6>2
        <5> QED
            BY <5>1, <5>2
      <4>10. CASE type # "data" /\ 83 < i /\ i <= 85
        <5>1. value(7) = HeaderByte(type, h, i)
            BY <1>1, <3>1, <3>6, <4>10 DEF HeaderByte
        <5>2. at[7] <= j /\ j < at[7 + 1]
            BY <1>1, <3>1, <3>3, <4>10
        <5> QED
            BY <5>1, <5>2
      <4>11. CASE type # "data" /\ 85 < i /\ i <= 87
        <5>1. value(8) = HeaderByte(type, h, i)
            BY <1>1, <3>1, <3>6, <4>11 DEF HeaderByte
        <5>2. at[8] <= j /\ j < at[8 + 1]
            BY <1>1, <3>1, <3>3, <4>11
        <5> QED
            BY <5>1, <5>2
      <4>12. CASE type # "data" /\ 87 < i
        <5>1. value(9) = HeaderByte(type, h, i)
            BY <1>1, <3>1, <3>6, <4>12 DEF HeaderByte
        <5>2. at[9] <= j /\ j < at[9 + 1]
            BY <1>1, <3>1, <3>3, <4>12
        <5> QED
            BY <5>1, <5>2
      <4> HIDE DEF In
      <4> QED
          BY <1>1, <3>1, <4>1, <4>2, <4>3, <4>4, <4>5, <4>6, <4>7, <4>8, <4>9, <4>10, <4>11, <4>12
    <3> QED
        BY <3>7
  <2>2. DOMAIN Fields[type] = 1..9
      BY <1>f
  <2>3. PICK f \in 1..9 : at[f] <= j /\ j < at[f + 1] /\ value(f) = HeaderByte(type, h, i)
      BY <2>1
  <2>4. field(j) \in 1..9 /\ at[field(j)] <= j /\ j < at[field(j) + 1]
    <3> HIDE DEF at, j
    <3> QED
        BY <2>2, <2>3
  <2>5. j \in Nat
      BY <1>1
  <2>6. field(j) = f
    <3> DEFINE g == field(j)
    <3> HIDE DEF at, j, g
    <3>1. g \in 1..9 /\ at[g] <= j /\ j < at[g + 1]
        BY <2>4 DEF g
    <3>2. g = f
        BY <1>0, <2>3, <2>5, <3>1, FieldOfPlace
    <3> QED
        BY <3>2 DEF g
  <2> QED
      BY <2>3, <2>6
<1>3. q = Replace(buf, 0, end, bytes)
    BY DEF Serialize
<1>4. bytes = [i \in 1..end |-> bytes[i]] /\ \A i \in 1..end : bytes[i] = HeaderByte(type, h, i)
    BY <1>2
<1> HIDE DEF bytes, q, end
<1>5. IsSeq(bytes) /\ Len(bytes) = end
    BY <1>1, <1>4, FunctionIsSeq
<1>6. Len(bytes) = end - 0 /\ 0 \in Nat
    BY <1>1, <1>5
<1>7. /\ IsSeq(q) /\ Len(q) = Len(buf)
      /\ \A i \in 1..Len(buf) : q[i] = IF 0 < i /\ i <= end THEN bytes[i - 0] ELSE buf[i]
  <2>3. PICK o \in Nat : o = 0
      OBVIOUS
  <2>4. /\ IsSeq(bytes) /\ Len(bytes) = end - o
        /\ end \in Nat /\ o <= end /\ end <= Len(buf)
      BY <1>1, <1>5, <1>6, <2>3
  <2> DEFINE p == Replace(buf, o, end, bytes)
  <2>1. /\ IsSeq(p) /\ Len(p) = Len(buf)
        /\ \A i \in 1..Len(buf) : p[i] = IF o < i /\ i <= end THEN bytes[i - o] ELSE buf[i]
      BY <2>4, ReplaceIs
  <2> HIDE DEF p
  <2>2. q = p
      BY <1>3, <2>3 DEF p
  <2> QED
      BY <2>1, <2>2, <2>3
<1>8. ASSUME NEW i \in 1..Len(buf)
      PROVE  q[i] = IF i <= end THEN HeaderByte(type, h, i) ELSE buf[i]
  <2>1. i \in Int /\ 0 < i /\ i - 0 = i
      OBVIOUS
  <2>2. CASE i <= end
    <3>1. i \in 1..end
        BY <1>1, <2>1, <2>2
    <3> QED
        BY <1>4, <1>7, <2>1, <2>2, <3>1
  <2>3. CASE ~(i <= end)
      BY <1>7, <2>3
  <2> QED
      BY <2>2, <2>3
<1> QED
    BY <1>1, <1>7, <1>8 DEF q

LEMMA NamesDiffer ==
    ASSUME NEW type \in Type, NEW f \in 1..9, NEW g \in 1..9, Fields[type][f][1] = Fields[type][g][1]
    PROVE  f = g
<1> DEFINE q == Fields[type]
<1>1. /\ q[1][1] = "signature" /\ q[2][1] = "shred_variant" /\ q[3][1] = "slot"
      /\ q[4][1] = "index" /\ q[5][1] = "version" /\ q[6][1] = "fec_set_index"
      /\ type = "data" => q[7][1] = "parent_offset" /\ q[8][1] = "flags" /\ q[9][1] = "size"
      /\ type # "data" => /\ q[7][1] = "num_data_shreds" /\ q[8][1] = "num_coding_shreds"
                          /\ q[9][1] = "position"
    BY FieldsAre DEF FieldNumbers, DataFields, CodeFields
<1>2. /\ f = 1 \/ f = 2 \/ f = 3 \/ f = 4 \/ f = 5 \/ f = 6 \/ f = 7 \/ f = 8 \/ f = 9
      /\ g = 1 \/ g = 2 \/ g = 3 \/ g = 4 \/ g = 5 \/ g = 6 \/ g = 7 \/ g = 8 \/ g = 9
    OBVIOUS
<1>3. q[f][1] = q[g][1]
    OBVIOUS
<1> HIDE DEF q
<1> QED
    BY <1>1, <1>2, <1>3

FieldsRead(fields, type, buf) ==
    /\ fields = [name \in DOMAIN fields |-> fields[name]]
    /\ DOMAIN fields = CommonNames \cup IF type = "data" THEN DataNames ELSE CodeNames
    /\ fields["signature"] = ReadAt(buf, 0, 64) /\ fields["shred_variant"] = ReadAt(buf, 64, 65)
    /\ fields["slot"] = ReadAt(buf, 65, 73) /\ fields["index"] = ReadAt(buf, 73, 77)
    /\ fields["version"] = ReadAt(buf, 77, 79) /\ fields["fec_set_index"] = ReadAt(buf, 79, 83)
    /\ type = "data" =>
         /\ fields["parent_offset"] = ReadAt(buf, 83, 85) /\ fields["flags"] = ReadAt(buf, 85, 86)
         /\ fields["size"] = ReadAt(buf, 86, 88)
    /\ type # "data" =>
         /\ fields["num_data_shreds"] = ReadAt(buf, 83, 85)
         /\ fields["num_coding_shreds"] = ReadAt(buf, 85, 87)
         /\ fields["position"] = ReadAt(buf, 87, 89)

LEMMA DeserializeIs ==
    ASSUME NEW type \in Type, NEW buf
    PROVE  FieldsRead(Deserialize(buf, type), type, buf)
<1> DEFINE fields == Deserialize(buf, type)
           at == FieldOffsets[type]
           q == Fields[type]
<1>1. /\ DOMAIN q = 1..9 /\ FieldNumbers(q)
      /\ IF type = "data" THEN DataFields(q) ELSE CodeFields(q)
    BY FieldsAre
<1>2. FieldStarts(type, at)
    BY FieldOffsetsAre
<1>3. /\ fields = [name \in DOMAIN fields |-> fields[name]]
      /\ DOMAIN fields = CommonNames \cup IF type = "data" THEN DataNames ELSE CodeNames
    BY NamesAre DEF Deserialize
<1>4. ASSUME NEW f \in 1..9 PROVE fields[q[f][1]] = ReadAt(buf, at[f], at[f + 1])
  <2>1. q[f][1] \in Names(q)
      BY <1>1 DEF Names
  <2> DEFINE g == CHOOSE g \in DOMAIN q : q[g][1] = q[f][1]
  <2>2. g \in 1..9 /\ q[g][1] = q[f][1]
      BY <1>1
  <2>3. fields[q[f][1]] = ReadAt(buf, at[g], at[g + 1])
      BY <2>1 DEF Deserialize
  <2> HIDE DEF g
  <2>4. g = f
      BY <2>2, NamesDiffer
  <2> QED
      BY <2>3, <2>4
<1> HIDE DEF fields, at, q
<1>5. /\ fields[q[1][1]] = ReadAt(buf, at[1], at[2]) /\ fields[q[2][1]] = ReadAt(buf, at[2], at[3])
      /\ fields[q[3][1]] = ReadAt(buf, at[3], at[4]) /\ fields[q[4][1]] = ReadAt(buf, at[4], at[5])
      /\ fields[q[5][1]] = ReadAt(buf, at[5], at[6]) /\ fields[q[6][1]] = ReadAt(buf, at[6], at[7])
      /\ fields[q[7][1]] = ReadAt(buf, at[7], at[8]) /\ fields[q[8][1]] = ReadAt(buf, at[8], at[9])
      /\ fields[q[9][1]] = ReadAt(buf, at[9], at[10])
  <2>1. /\ 1 + 1 = 2 /\ 2 + 1 = 3 /\ 3 + 1 = 4 /\ 4 + 1 = 5 /\ 5 + 1 = 6 /\ 6 + 1 = 7 /\ 7 + 1 = 8
        /\ 8 + 1 = 9 /\ 9 + 1 = 10
      OBVIOUS
  <2> QED
      BY <1>4, <2>1
<1>6. /\ fields["signature"] = ReadAt(buf, 0, 64) /\ fields["shred_variant"] = ReadAt(buf, 64, 65)
      /\ fields["slot"] = ReadAt(buf, 65, 73) /\ fields["index"] = ReadAt(buf, 73, 77)
      /\ fields["version"] = ReadAt(buf, 77, 79) /\ fields["fec_set_index"] = ReadAt(buf, 79, 83)
    BY <1>1, <1>2, <1>5 DEF FieldNumbers, FieldStarts
<1>7. type = "data" =>
        /\ fields["parent_offset"] = ReadAt(buf, 83, 85) /\ fields["flags"] = ReadAt(buf, 85, 86)
        /\ fields["size"] = ReadAt(buf, 86, 88)
    BY <1>1, <1>2, <1>5 DEF DataFields, FieldStarts
<1>8. type # "data" =>
        /\ fields["num_data_shreds"] = ReadAt(buf, 83, 85)
        /\ fields["num_coding_shreds"] = ReadAt(buf, 85, 87)
        /\ fields["position"] = ReadAt(buf, 87, 89)
    BY <1>1, <1>2, <1>5 DEF CodeFields, FieldStarts
<1> QED
    BY <1>3, <1>6, <1>7, <1>8 DEF FieldsRead, fields

-----------------------------------------------------------------------------
(* What the payload of shred k of a block holds, byte by byte, when r has  *)
(* signed it last.                                                         *)
TypeOf(b, k) == IF k <= b.num_data THEN "data" ELSE "code"
VariantFor(b, k) == [type |-> TypeOf(b, k), proof_size |-> b.proof_size, resigned |-> b.resigned]

HeaderFor(b, k) ==
    Header(TypeOf(b, k),
      [signature |-> b.signature, shred_variant |-> VariantByte(VariantFor(b, k)), slot |-> Slot,
       index |-> IF k <= b.num_data THEN FecSetIndex + k - 1 ELSE FirstCoding + k - b.num_data - 1,
       version |-> Version, fec_set_index |-> FecSetIndex],
      IF k <= b.num_data THEN [parent_offset |-> 1, flags |-> 69, size |-> SIZE_OF_HEADERS("data") + 1]
      ELSE [num_data_shreds |-> b.num_data, num_coding_shreds |-> b.num_coding, position |-> k - b.num_data - 1])

ShardOf(b, k) == <<b.signature, "shard", k>>
ProofOf(b, k) == <<b.signature, "proof", k>>

ByteOf(b, k, r, i) ==
    LET v == VariantFor(b, k)
        headers == SIZE_OF_HEADERS(TypeOf(b, k))
        chained == get_chained_merkle_root_offset(v)
        proof == get_proof_offset(v)
        end == ProofEnd(v)
    IN  IF i <= headers THEN HeaderByte(TypeOf(b, k), HeaderFor(b, k), i)
        ELSE IF i <= chained THEN <<headers, chained, ShardOf(b, k)>>
        ELSE IF i <= proof THEN <<chained, proof, "parent">>
        ELSE IF i <= end THEN <<proof, end, ProofOf(b, k)>>
        ELSE <<end, end + 64, r>>

Begins(buf, b, k, r) ==
    /\ IsSeq(buf)
    /\ \A i \in 1..Len(buf) : i <= SIZE_OF_PAYLOAD(TypeOf(b, k)) => buf[i] = ByteOf(b, k, r, i)
Carries(buf, b, k, r) == Begins(buf, b, k, r) /\ Len(buf) = SIZE_OF_PAYLOAD(TypeOf(b, k))

(* A place in an erasure set, and its numbers. *)
Place(b, k) == b \in Blocks /\ k \in 1..NumShreds(b)

LEMMA PlaceIs ==
    ASSUME NEW b, NEW k, Place(b, k)
    PROVE  /\ b \in Blocks /\ b.num_data \in Nat \ {0} /\ b.num_coding \in Nat \ {0}
           /\ b.proof_size \in 0..15 /\ b.resigned \in BOOLEAN
           /\ FecSetIndex \in Nat /\ FirstCoding \in Nat
           /\ NumShreds(b) = b.num_data + b.num_coding
           /\ k \in Nat /\ 1 <= k /\ k <= NumShreds(b)
           /\ TypeOf(b, k) \in Type
           /\ (TypeOf(b, k) = "data" <=> k <= b.num_data)
           /\ (TypeOf(b, k) = "code" <=> ~(k <= b.num_data))
<1>1. /\ b.num_data \in Nat \ {0} /\ b.num_coding \in Nat \ {0} /\ b \in Blocks
      /\ b.proof_size \in 0..15 /\ b.resigned \in BOOLEAN /\ FecSetIndex \in Nat /\ FirstCoding \in Nat
    BY BlockAssumption DEF Place
<1>2. k \in 1..NumShreds(b) /\ NumShreds(b) = b.num_data + b.num_coding
    BY DEF Place, NumShreds
<1>3. k \in Nat /\ 1 <= k /\ k <= NumShreds(b)
    BY <1>1, <1>2
<1>4. TypeOf(b, k) \in Type /\ (TypeOf(b, k) = "data" <=> k <= b.num_data)
      /\ (TypeOf(b, k) = "code" <=> ~(k <= b.num_data))
    BY DEF TypeOf, Type
<1> QED
    BY <1>1, <1>2, <1>3, <1>4

LEMMA VariantIs ==
    ASSUME NEW b, NEW k, Place(b, k)
    PROVE  LET v == VariantFor(b, k)
           IN  /\ v \in ShredVariant /\ v.type = TypeOf(b, k) /\ v.proof_size = b.proof_size
               /\ v.resigned = b.resigned /\ VariantOf(VariantByte(v)) = Ok(v)
<1>1. VariantFor(b, k) \in ShredVariant
    BY PlaceIs DEF VariantFor, ShredVariant
<1>2. VariantOf(VariantByte(VariantFor(b, k))) = Ok(VariantFor(b, k))
    BY <1>1, VariantRoundTrip
<1> QED
    BY <1>1, <1>2 DEF VariantFor

LEMMA PlacesOf ==
    ASSUME NEW b, NEW k, Place(b, k)
    PROVE  LET v == VariantFor(b, k)
               headers == SIZE_OF_HEADERS(TypeOf(b, k))
               chained == get_chained_merkle_root_offset(v)
               proof == get_proof_offset(v)
               end == ProofEnd(v)
               size == SIZE_OF_PAYLOAD(TypeOf(b, k))
           IN  /\ headers \in {88, 89} /\ headers = IF TypeOf(b, k) = "data" THEN 88 ELSE 89
               /\ chained \in Nat /\ proof \in Nat /\ end \in Nat /\ size \in Nat
               /\ headers < chained /\ proof = chained + 32 /\ proof <= end /\ end <= size
               /\ b.resigned => size = end + 64
               /\ ~b.resigned => size = end
               /\ get_retransmitter_signature_offset(v)
                    = IF b.resigned THEN Ok(end) ELSE Err("InvalidShredVariant")
<1> DEFINE v == VariantFor(b, k)
           headers == SIZE_OF_HEADERS(TypeOf(b, k))
           chained == get_chained_merkle_root_offset(v)
           proof == get_proof_offset(v)
           end == ProofEnd(v)
           size == SIZE_OF_PAYLOAD(TypeOf(b, k))
<1>1. v \in ShredVariant /\ v.type = TypeOf(b, k) /\ v.proof_size = b.proof_size /\ v.resigned = b.resigned
    BY VariantIs
<1>2. b.resigned \in BOOLEAN /\ TypeOf(b, k) \in {"code", "data"}
    BY PlaceIs DEF Type
<1>3. headers = (IF TypeOf(b, k) = "data" THEN 88 ELSE 89) /\ headers \in {88, 89} /\ size \in Nat
    BY <1>2, Sizes
<1>4. /\ capacity(v) \in Nat \ {0} /\ chained = headers + capacity(v)
      /\ proof = chained + 32 /\ end = proof + v.proof_size * 20 /\ v.proof_size * 20 \in Nat
      /\ size = end + IF v.resigned THEN 64 ELSE 0
    BY <1>1, Offsets
<1>5. get_retransmitter_signature_offset(v) = IF b.resigned THEN Ok(end) ELSE Err("InvalidShredVariant")
    BY <1>1, <1>2 DEF get_retransmitter_signature_offset
<1> HIDE DEF headers, chained, proof, end, size, v
<1>6. chained \in Nat /\ proof \in Nat /\ end \in Nat /\ headers < chained /\ proof <= end
    BY <1>3, <1>4
<1>7. /\ b.resigned => size = end + 64
      /\ ~b.resigned => size = end
    BY <1>1, <1>4, <1>6
<1>8. end <= size
    BY <1>2, <1>6, <1>7
<1> QED
    BY <1>3, <1>4, <1>5, <1>6, <1>7, <1>8 DEF headers, chained, proof, end, size, v

IndexFor(b, k) == IF k <= b.num_data THEN FecSetIndex + k - 1 ELSE FirstCoding + k - b.num_data - 1

IsHeader(h, b, k) ==
    /\ h = [name \in DOMAIN h |-> h[name]]
    /\ DOMAIN h = CommonNames \cup IF TypeOf(b, k) = "data" THEN DataNames ELSE CodeNames
    /\ h.signature = b.signature /\ h.shred_variant = VariantByte(VariantFor(b, k)) /\ h.slot = Slot
    /\ h.index = IndexFor(b, k) /\ h.version = Version /\ h.fec_set_index = FecSetIndex
    /\ TypeOf(b, k) = "data" => h.parent_offset = 1 /\ h.flags = 69 /\ h.size = 89
    /\ TypeOf(b, k) = "code" =>
         /\ h.num_data_shreds = b.num_data /\ h.num_coding_shreds = b.num_coding
         /\ h.position = k - b.num_data - 1

LEMMA HeaderForIs ==
    ASSUME NEW b, NEW k, Place(b, k)
    PROVE  IsHeader(HeaderFor(b, k), b, k)
<1> DEFINE common == [signature |-> b.signature, shred_variant |-> VariantByte(VariantFor(b, k)), slot |-> Slot,
                      index |-> IF k <= b.num_data THEN FecSetIndex + k - 1
                                ELSE FirstCoding + k - b.num_data - 1,
                      version |-> Version, fec_set_index |-> FecSetIndex]
           special == IF k <= b.num_data
                      THEN [parent_offset |-> 1, flags |-> 69, size |-> SIZE_OF_HEADERS("data") + 1]
                      ELSE [num_data_shreds |-> b.num_data, num_coding_shreds |-> b.num_coding,
                            position |-> k - b.num_data - 1]
           h == HeaderFor(b, k)
<1>1. /\ TypeOf(b, k) \in Type /\ (TypeOf(b, k) = "data" <=> k <= b.num_data)
      /\ (TypeOf(b, k) = "code" <=> ~(k <= b.num_data))
    BY PlaceIs
<1>2. /\ common.signature = b.signature /\ common.shred_variant = VariantByte(VariantFor(b, k))
      /\ common.slot = Slot /\ common.index = IndexFor(b, k) /\ common.version = Version
      /\ common.fec_set_index = FecSetIndex
    BY DEF IndexFor
<1>3. /\ TypeOf(b, k) = "data" => special.parent_offset = 1 /\ special.flags = 69 /\ special.size = 89
      /\ TypeOf(b, k) = "code" =>
           /\ special.num_data_shreds = b.num_data /\ special.num_coding_shreds = b.num_coding
           /\ special.position = k - b.num_data - 1
    BY <1>1, Sizes
<1>4. h = Header(TypeOf(b, k), common, special)
    BY DEF HeaderFor
<1> HIDE DEF common, special, h
<1>5. /\ h = [name \in DOMAIN h |-> h[name]]
      /\ DOMAIN h = CommonNames \cup IF TypeOf(b, k) = "data" THEN DataNames ELSE CodeNames
      /\ \A name \in DOMAIN h : h[name] = IF name \in CommonNames THEN common[name] ELSE special[name]
    BY <1>1, <1>4, HeaderIs
<1>6. /\ h.signature = common.signature /\ h.shred_variant = common.shred_variant /\ h.slot = common.slot
      /\ h.index = common.index /\ h.version = common.version /\ h.fec_set_index = common.fec_set_index
    BY <1>5 DEF CommonNames
<1>7. TypeOf(b, k) = "data" =>
        h.parent_offset = special.parent_offset /\ h.flags = special.flags /\ h.size = special.size
    BY <1>5 DEF CommonNames, DataNames
<1>8. TypeOf(b, k) = "code" =>
        /\ h.num_data_shreds = special.num_data_shreds /\ h.num_coding_shreds = special.num_coding_shreds
        /\ h.position = special.position
    BY <1>5 DEF CommonNames, CodeNames
<1>9. IsHeader(h, b, k)
    BY <1>2, <1>3, <1>5, <1>6, <1>7, <1>8 DEF IsHeader
<1> QED
    BY <1>9 DEF h

LEMMA OneHeader ==
    ASSUME NEW b, NEW k, Place(b, k), NEW h, IsHeader(h, b, k)
    PROVE  h = HeaderFor(b, k)
<1> DEFINE g == HeaderFor(b, k)
<1>1. IsHeader(g, b, k)
    BY HeaderForIs
<1>2. TypeOf(b, k) = "data" \/ TypeOf(b, k) = "code"
    BY PlaceIs DEF Type
<1> HIDE DEF g
<1>3. DOMAIN h = DOMAIN g
    BY <1>1 DEF IsHeader
<1>4. \A name \in DOMAIN h : h[name] = g[name]
    BY <1>1, <1>2 DEF IsHeader, CommonNames, DataNames, CodeNames
<1>5. h = [name \in DOMAIN h |-> h[name]] /\ g = [name \in DOMAIN g |-> g[name]]
    BY <1>1 DEF IsHeader
<1>6. h = g
    BY <1>3, <1>4, <1>5
<1> QED
    BY <1>6 DEF g

(* The parts of it that getters read. *)
Part(b, k, r, from, to, value) ==
    /\ from \in Nat /\ to \in Nat /\ from < to /\ to <= SIZE_OF_PAYLOAD(TypeOf(b, k))
    /\ \A i \in from + 1..to : ByteOf(b, k, r, i) = <<from, to, value>>

LEMMA HeaderParts ==
    ASSUME NEW b, NEW k, Place(b, k), NEW r
    PROVE  /\ Part(b, k, r, 0, 64, b.signature)
           /\ Part(b, k, r, 64, 65, VariantByte(VariantFor(b, k)))
           /\ Part(b, k, r, 65, 73, Slot) /\ Part(b, k, r, 73, 77, IndexFor(b, k))
           /\ Part(b, k, r, 77, 79, Version) /\ Part(b, k, r, 79, 83, FecSetIndex)
           /\ TypeOf(b, k) = "data" =>
                Part(b, k, r, 83, 85, 1) /\ Part(b, k, r, 85, 86, 69) /\ Part(b, k, r, 86, 88, 89)
           /\ TypeOf(b, k) = "code" =>
                /\ Part(b, k, r, 83, 85, b.num_data) /\ Part(b, k, r, 85, 87, b.num_coding)
                /\ Part(b, k, r, 87, 89, k - b.num_data - 1)
<1> DEFINE h == HeaderFor(b, k)
           type == TypeOf(b, k)
           size == SIZE_OF_PAYLOAD(type)
           headers == SIZE_OF_HEADERS(type)
<1>1. /\ h.signature = b.signature /\ h.shred_variant = VariantByte(VariantFor(b, k)) /\ h.slot = Slot
      /\ h.index = IndexFor(b, k) /\ h.version = Version /\ h.fec_set_index = FecSetIndex
      /\ type = "data" => h.parent_offset = 1 /\ h.flags = 69 /\ h.size = 89
      /\ type = "code" =>
           /\ h.num_data_shreds = b.num_data /\ h.num_coding_shreds = b.num_coding
           /\ h.position = k - b.num_data - 1
  <2>1. IsHeader(h, b, k)
      BY HeaderForIs
  <2> HIDE DEF h
  <2> QED
      BY <2>1 DEF IsHeader
<1>2. type = "data" \/ type = "code"
    BY PlaceIs DEF Type
<1>3. size \in Nat /\ size > 1000 /\ headers = (IF type = "data" THEN 88 ELSE 89)
    BY <1>2, Sizes
<1>4. \A i : i <= headers => ByteOf(b, k, r, i) = HeaderByte(type, h, i)
    BY DEF ByteOf
<1> HIDE DEF h, type, size, headers
<1>5. ASSUME NEW from \in Nat, NEW to \in Nat, from < to, to <= headers, NEW value,
             \A i \in from + 1..to : HeaderByte(type, h, i) = <<from, to, value>>
      PROVE  Part(b, k, r, from, to, value)
  <2>1. to <= SIZE_OF_PAYLOAD(TypeOf(b, k))
      BY <1>3, <1>5 DEF size, type
  <2>2. ASSUME NEW i \in from + 1..to PROVE i <= headers
      BY <1>3, <1>5
  <2> QED
      BY <1>4, <1>5, <2>1, <2>2 DEF Part
<1>6. Part(b, k, r, 0, 64, b.signature)
  <2>1. ASSUME NEW i \in 0 + 1..64 PROVE HeaderByte(type, h, i) = <<0, 64, h.signature>>
      BY <1>2 DEF HeaderByte
  <2>2. 0 \in Nat /\ 64 \in Nat /\ 0 < 64 /\ 64 <= headers
      BY <1>3
  <2>3. \A i \in 0 + 1..64 : HeaderByte(type, h, i) = <<0, 64, b.signature>>
      BY <1>1, <2>1
  <2> QED
      BY <1>5, <2>2, <2>3
<1>7. Part(b, k, r, 64, 65, VariantByte(VariantFor(b, k)))
  <2>1. ASSUME NEW i \in 64 + 1..65 PROVE HeaderByte(type, h, i) = <<64, 65, h.shred_variant>>
      BY <1>2 DEF HeaderByte
  <2>2. 64 \in Nat /\ 65 \in Nat /\ 64 < 65 /\ 65 <= headers
      BY <1>3
  <2>3. \A i \in 64 + 1..65 : HeaderByte(type, h, i) = <<64, 65, VariantByte(VariantFor(b, k))>>
      BY <1>1, <2>1
  <2> QED
      BY <1>5, <2>2, <2>3
<1>8. Part(b, k, r, 65, 73, Slot)
  <2>1. ASSUME NEW i \in 65 + 1..73 PROVE HeaderByte(type, h, i) = <<65, 73, h.slot>>
      BY <1>2 DEF HeaderByte
  <2>2. 65 \in Nat /\ 73 \in Nat /\ 65 < 73 /\ 73 <= headers
      BY <1>3
  <2>3. \A i \in 65 + 1..73 : HeaderByte(type, h, i) = <<65, 73, Slot>>
      BY <1>1, <2>1
  <2> QED
      BY <1>5, <2>2, <2>3
<1>9. Part(b, k, r, 73, 77, IndexFor(b, k))
  <2>1. ASSUME NEW i \in 73 + 1..77 PROVE HeaderByte(type, h, i) = <<73, 77, h.index>>
      BY <1>2 DEF HeaderByte
  <2>2. 73 \in Nat /\ 77 \in Nat /\ 73 < 77 /\ 77 <= headers
      BY <1>3
  <2>3. \A i \in 73 + 1..77 : HeaderByte(type, h, i) = <<73, 77, IndexFor(b, k)>>
      BY <1>1, <2>1
  <2> QED
      BY <1>5, <2>2, <2>3
<1>10. Part(b, k, r, 77, 79, Version)
  <2>1. ASSUME NEW i \in 77 + 1..79 PROVE HeaderByte(type, h, i) = <<77, 79, h.version>>
      BY <1>2 DEF HeaderByte
  <2>2. 77 \in Nat /\ 79 \in Nat /\ 77 < 79 /\ 79 <= headers
      BY <1>3
  <2>3. \A i \in 77 + 1..79 : HeaderByte(type, h, i) = <<77, 79, Version>>
      BY <1>1, <2>1
  <2> QED
      BY <1>5, <2>2, <2>3
<1>11. Part(b, k, r, 79, 83, FecSetIndex)
  <2>1. ASSUME NEW i \in 79 + 1..83 PROVE HeaderByte(type, h, i) = <<79, 83, h.fec_set_index>>
      BY <1>2 DEF HeaderByte
  <2>2. 79 \in Nat /\ 83 \in Nat /\ 79 < 83 /\ 83 <= headers
      BY <1>3
  <2>3. \A i \in 79 + 1..83 : HeaderByte(type, h, i) = <<79, 83, FecSetIndex>>
      BY <1>1, <2>1
  <2> QED
      BY <1>5, <2>2, <2>3
<1>12. ASSUME type = "data" PROVE Part(b, k, r, 83, 85, 1)
  <2>1. ASSUME NEW i \in 83 + 1..85 PROVE HeaderByte(type, h, i) = <<83, 85, h.parent_offset>>
      BY <1>2, <1>12 DEF HeaderByte
  <2>2. 83 \in Nat /\ 85 \in Nat /\ 83 < 85 /\ 85 <= headers
      BY <1>3, <1>12
  <2>3. \A i \in 83 + 1..85 : HeaderByte(type, h, i) = <<83, 85, 1>>
      BY <1>1, <2>1, <1>12
  <2> QED
      BY <1>5, <2>2, <2>3
<1>13. ASSUME type = "data" PROVE Part(b, k, r, 85, 86, 69)
  <2>1. ASSUME NEW i \in 85 + 1..86 PROVE HeaderByte(type, h, i) = <<85, 86, h.flags>>
      BY <1>2, <1>13 DEF HeaderByte
  <2>2. 85 \in Nat /\ 86 \in Nat /\ 85 < 86 /\ 86 <= headers
      BY <1>3, <1>13
  <2>3. \A i \in 85 + 1..86 : HeaderByte(type, h, i) = <<85, 86, 69>>
      BY <1>1, <2>1, <1>13
  <2> QED
      BY <1>5, <2>2, <2>3
<1>14. ASSUME type = "data" PROVE Part(b, k, r, 86, 88, 89)
  <2>1. ASSUME NEW i \in 86 + 1..88 PROVE HeaderByte(type, h, i) = <<86, 88, h.size>>
      BY <1>2, <1>14 DEF HeaderByte
  <2>2. 86 \in Nat /\ 88 \in Nat /\ 86 < 88 /\ 88 <= headers
      BY <1>3, <1>14
  <2>3. \A i \in 86 + 1..88 : HeaderByte(type, h, i) = <<86, 88, 89>>
      BY <1>1, <2>1, <1>14
  <2> QED
      BY <1>5, <2>2, <2>3
<1>15. ASSUME type = "code" PROVE Part(b, k, r, 83, 85, b.num_data)
  <2>1. ASSUME NEW i \in 83 + 1..85 PROVE HeaderByte(type, h, i) = <<83, 85, h.num_data_shreds>>
      BY <1>2, <1>15 DEF HeaderByte
  <2>2. 83 \in Nat /\ 85 \in Nat /\ 83 < 85 /\ 85 <= headers
      BY <1>3, <1>15
  <2>3. \A i \in 83 + 1..85 : HeaderByte(type, h, i) = <<83, 85, b.num_data>>
      BY <1>1, <2>1, <1>15
  <2> QED
      BY <1>5, <2>2, <2>3
<1>16. ASSUME type = "code" PROVE Part(b, k, r, 85, 87, b.num_coding)
  <2>1. ASSUME NEW i \in 85 + 1..87 PROVE HeaderByte(type, h, i) = <<85, 87, h.num_coding_shreds>>
      BY <1>2, <1>16 DEF HeaderByte
  <2>2. 85 \in Nat /\ 87 \in Nat /\ 85 < 87 /\ 87 <= headers
      BY <1>3, <1>16
  <2>3. \A i \in 85 + 1..87 : HeaderByte(type, h, i) = <<85, 87, b.num_coding>>
      BY <1>1, <2>1, <1>16
  <2> QED
      BY <1>5, <2>2, <2>3
<1>17. ASSUME type = "code" PROVE Part(b, k, r, 87, 89, k - b.num_data - 1)
  <2>1. ASSUME NEW i \in 87 + 1..89 PROVE HeaderByte(type, h, i) = <<87, 89, h.position>>
      BY <1>2, <1>17 DEF HeaderByte
  <2>2. 87 \in Nat /\ 89 \in Nat /\ 87 < 89 /\ 89 <= headers
      BY <1>3, <1>17
  <2>3. \A i \in 87 + 1..89 : HeaderByte(type, h, i) = <<87, 89, k - b.num_data - 1>>
      BY <1>1, <2>1, <1>17
  <2> QED
      BY <1>5, <2>2, <2>3
<1> QED
    BY <1>6, <1>7, <1>8, <1>9, <1>10, <1>11, <1>12, <1>13, <1>14, <1>15, <1>16, <1>17 DEF type

LEMMA OtherParts ==
    ASSUME NEW b, NEW k, Place(b, k), NEW r
    PROVE  LET v == VariantFor(b, k)
           IN  /\ Part(b, k, r, get_chained_merkle_root_offset(v), get_chained_merkle_root_offset(v) + 32, "parent")
               /\ b.resigned => Part(b, k, r, ProofEnd(v), ProofEnd(v) + 64, r)
<1> DEFINE v == VariantFor(b, k)
           headers == SIZE_OF_HEADERS(TypeOf(b, k))
           chained == get_chained_merkle_root_offset(v)
           proof == get_proof_offset(v)
           end == ProofEnd(v)
           size == SIZE_OF_PAYLOAD(TypeOf(b, k))
<1>1. /\ headers \in {88, 89}
      /\ chained \in Nat /\ proof \in Nat /\ end \in Nat /\ size \in Nat
      /\ headers < chained /\ proof = chained + 32 /\ proof <= end /\ end <= size
      /\ b.resigned => size = end + 64
    BY PlacesOf
<1>2. \A i : ~(i <= headers) /\ ~(i <= chained) =>
        ByteOf(b, k, r, i) = IF i <= proof THEN <<chained, proof, "parent">>
                             ELSE IF i <= end THEN <<proof, end, ProofOf(b, k)>>
                             ELSE <<end, end + 64, r>>
    BY DEF ByteOf
<1> HIDE DEF headers, chained, proof, end, size, v
<1>3. ASSUME NEW i \in chained + 1..chained + 32 PROVE ByteOf(b, k, r, i) = <<chained, chained + 32, "parent">>
  <2>1. ~(i <= headers) /\ ~(i <= chained) /\ i <= proof
      BY <1>1
  <2> QED
      BY <1>1, <1>2, <2>1
<1>4. ASSUME NEW i \in end + 1..end + 64 PROVE ByteOf(b, k, r, i) = <<end, end + 64, r>>
  <2>1. ~(i <= headers) /\ ~(i <= chained) /\ ~(i <= proof) /\ ~(i <= end)
      BY <1>1
  <2> QED
      BY <1>2, <2>1
<1>5. chained + 32 \in Nat /\ chained < chained + 32 /\ chained + 32 <= size
    BY <1>1
<1>6. b.resigned => end + 64 \in Nat /\ end < end + 64 /\ end + 64 <= size
    BY <1>1
<1>7. Part(b, k, r, chained, chained + 32, "parent")
    BY <1>1, <1>3, <1>5 DEF Part, size
<1>8. b.resigned => Part(b, k, r, end, end + 64, r)
    BY <1>1, <1>4, <1>6 DEF Part, size
<1> QED
    BY <1>7, <1>8 DEF chained, end, v

LEMMA ReadPart ==
    ASSUME NEW b, NEW k, NEW r, NEW buf, Begins(buf, b, k, r),
           NEW from, NEW to, NEW value, Part(b, k, r, from, to, value)
    PROVE  ReadAt(buf, from, to) = IF to > Len(buf) THEN Err("InvalidPayloadSize") ELSE Ok(value)
<1>1. /\ from \in Nat /\ to \in Nat /\ from < to /\ to <= SIZE_OF_PAYLOAD(TypeOf(b, k))
      /\ \A i \in from + 1..to : ByteOf(b, k, r, i) = <<from, to, value>>
    BY DEF Part
<1>2. IsSeq(buf) /\ Len(buf) \in Nat
    BY DEF Begins, IsSeq
<1>3. CASE to > Len(buf)
    BY <1>3 DEF ReadAt
<1>4. CASE ~(to > Len(buf))
  <2>1. to <= Len(buf)
      BY <1>1, <1>2, <1>4
  <2>2. TypeOf(b, k) = "data" \/ TypeOf(b, k) = "code"
      BY DEF TypeOf
  <2>3. SIZE_OF_PAYLOAD(TypeOf(b, k)) \in Nat
      BY <2>2, Sizes
  <2>4. \A i \in from + 1..to : i \in 1..Len(buf) /\ i <= SIZE_OF_PAYLOAD(TypeOf(b, k))
      BY <1>1, <1>2, <2>1, <2>3
  <2>5. Holds(buf, from, to, value)
      BY <1>1, <2>4 DEF Holds, Begins
  <2>6. ReadAt(buf, from, to) = Ok(value)
      BY <1>1, <1>2, <2>1, <2>5, ReadHeld
  <2> QED
      BY <1>4, <2>6
<1> QED
    BY <1>3, <1>4

LEMMA PrefixIs ==
    ASSUME NEW buf, IsSeq(buf), NEW n \in Nat, n <= Len(buf)
    PROVE  /\ IsSeq(Slice(buf, 0, n)) /\ Len(Slice(buf, 0, n)) = n
           /\ \A i \in 1..n : Slice(buf, 0, n)[i] = buf[i]
<1>1. PICK o \in Nat : o = 0
    OBVIOUS
<1> DEFINE s == Slice(buf, o, n)
<1>2. o <= n
    BY <1>1
<1>3. IsSeq(s) /\ Len(s) = n - o /\ \A i \in 1..n - o : s[i] = buf[o + i]
    BY <1>2, SliceIs
<1>4. s = Slice(buf, 0, n)
    BY <1>1
<1> HIDE DEF s
<1>5. n - o = n /\ \A i \in 1..n : o + i = i
    BY <1>1
<1> QED
    BY <1>3, <1>4, <1>5

LEMMA ReadHere ==
    ASSUME NEW b, NEW k, NEW r, NEW buf, IsSeq(buf),
           NEW from, NEW to, NEW value, Part(b, k, r, from, to, value), to <= Len(buf),
           \A i \in from + 1..to : buf[i] = ByteOf(b, k, r, i)
    PROVE  ReadAt(buf, from, to) = Ok(value)
<1>1. from \in Nat /\ to \in Nat /\ from < to
    BY DEF Part
<1>2. Holds(buf, from, to, value)
    BY DEF Part, Holds
<1> QED
    BY <1>1, <1>2, ReadHeld

(* A buffer that holds the headers of a shred is parsed into these.        *)
ReadsHeader(fields, h) ==
    /\ DOMAIN fields = DOMAIN h
    /\ \A name \in DOMAIN fields : fields[name] = Ok(h[name])
    /\ [name \in DOMAIN fields |-> fields[name].value] = h

LEMMA Deserialized ==
    ASSUME NEW b, NEW k, Place(b, k), NEW r, NEW buf, IsSeq(buf),
           SIZE_OF_HEADERS(TypeOf(b, k)) <= Len(buf),
           \A i \in 1..SIZE_OF_HEADERS(TypeOf(b, k)) : buf[i] = ByteOf(b, k, r, i)
    PROVE  ReadsHeader(Deserialize(buf, TypeOf(b, k)), HeaderFor(b, k))
<1> DEFINE fields == Deserialize(buf, TypeOf(b, k))
           h == HeaderFor(b, k)
           type == TypeOf(b, k)
           headers == SIZE_OF_HEADERS(type)
<1>1. type \in Type /\ (type = "data" \/ type = "code")
    BY PlaceIs DEF Type
<1>2. headers = (IF type = "data" THEN 88 ELSE 89) /\ Len(buf) \in Nat /\ headers <= Len(buf)
    BY <1>1, Sizes DEF IsSeq
<1>3. ASSUME NEW from, NEW to, to <= headers, NEW value, Part(b, k, r, from, to, value)
      PROVE  ReadAt(buf, from, to) = Ok(value)
  <2>1. from \in Nat /\ to \in Nat
      BY <1>3 DEF Part
  <2>2. to <= Len(buf) /\ \A i \in from + 1..to : i \in 1..headers
      BY <1>2, <1>3, <2>1
  <2>3. \A i \in from + 1..to : buf[i] = ByteOf(b, k, r, i)
      BY <2>2
  <2> QED
      BY <1>3, <2>2, <2>3, ReadHere
<1>4. FieldsRead(fields, type, buf)
    BY <1>1, DeserializeIs
<1>5. /\ Part(b, k, r, 0, 64, b.signature)
      /\ Part(b, k, r, 64, 65, VariantByte(VariantFor(b, k)))
      /\ Part(b, k, r, 65, 73, Slot) /\ Part(b, k, r, 73, 77, IndexFor(b, k))
      /\ Part(b, k, r, 77, 79, Version) /\ Part(b, k, r, 79, 83, FecSetIndex)
      /\ type = "data" => Part(b, k, r, 83, 85, 1) /\ Part(b, k, r, 85, 86, 69) /\ Part(b, k, r, 86, 88, 89)
      /\ type = "code" =>
           /\ Part(b, k, r, 83, 85, b.num_data) /\ Part(b, k, r, 85, 87, b.num_coding)
           /\ Part(b, k, r, 87, 89, k - b.num_data - 1)
    BY HeaderParts
<1>6. IsHeader(h, b, k)
    BY HeaderForIs
<1> HIDE DEF fields, h, type, headers
<1>7. /\ 64 <= headers /\ 65 <= headers /\ 73 <= headers /\ 77 <= headers /\ 79 <= headers /\ 83 <= headers
      /\ 85 <= headers /\ 86 <= headers /\ 87 <= headers /\ 88 <= headers
      /\ type = "code" => 89 <= headers
    BY <1>1, <1>2
<1>8. /\ fields["signature"] = Ok(b.signature) /\ fields["shred_variant"] = Ok(VariantByte(VariantFor(b, k)))
      /\ fields["slot"] = Ok(Slot) /\ fields["index"] = Ok(IndexFor(b, k))
      /\ fields["version"] = Ok(Version) /\ fields["fec_set_index"] = Ok(FecSetIndex)
    BY <1>3, <1>4, <1>5, <1>7 DEF FieldsRead
<1>9. type = "data" => /\ fields["parent_offset"] = Ok(1) /\ fields["flags"] = Ok(69) /\ fields["size"] = Ok(89)
    BY <1>3, <1>4, <1>5, <1>7 DEF FieldsRead
<1>10. type = "code" => /\ fields["num_data_shreds"] = Ok(b.num_data)
                        /\ fields["num_coding_shreds"] = Ok(b.num_coding)
                        /\ fields["position"] = Ok(k - b.num_data - 1)
    BY <1>1, <1>3, <1>4, <1>5, <1>7 DEF FieldsRead
<1>11. DOMAIN fields = DOMAIN h /\ h = [name \in DOMAIN h |-> h[name]]
    BY <1>4, <1>6 DEF IsHeader, FieldsRead, type
<1>12. ASSUME NEW name \in DOMAIN fields PROVE fields[name] = Ok(h[name])
  <2>1. /\ Ok(h.signature) = Ok(b.signature) /\ Ok(h.shred_variant) = Ok(VariantByte(VariantFor(b, k)))
        /\ Ok(h.slot) = Ok(Slot) /\ Ok(h.index) = Ok(IndexFor(b, k)) /\ Ok(h.version) = Ok(Version)
        /\ Ok(h.fec_set_index) = Ok(FecSetIndex)
        /\ type = "data" => /\ Ok(h.parent_offset) = Ok(1) /\ Ok(h.flags) = Ok(69) /\ Ok(h.size) = Ok(89)
        /\ type = "code" =>
             /\ Ok(h.num_data_shreds) = Ok(b.num_data) /\ Ok(h.num_coding_shreds) = Ok(b.num_coding)
             /\ Ok(h.position) = Ok(k - b.num_data - 1)
      BY <1>6 DEF IsHeader, type
  <2>2. name \in CommonNames \/ (type = "data" /\ name \in DataNames) \/ (type = "code" /\ name \in CodeNames)
      BY <1>1, <1>4 DEF FieldsRead
  <2> QED
      BY <1>8, <1>9, <1>10, <2>1, <2>2 DEF CommonNames, DataNames, CodeNames
<1>13. [name \in DOMAIN fields |-> fields[name].value] = h
  <2>1. \A name \in DOMAIN fields : fields[name].value = h[name]
      BY <1>12 DEF Ok
  <2>2. [name \in DOMAIN fields |-> fields[name].value] = [name \in DOMAIN fields |-> h[name]]
      BY <2>1
  <2> QED
      BY <1>11, <2>2
<1>14. ReadsHeader(fields, h)
    BY <1>11, <1>12, <1>13 DEF ReadsHeader
<1> QED
    BY <1>14 DEF fields, h, type

(* Only what is behind the proof depends on who signed it last.            *)
LEMMA SameBytesOf ==
    ASSUME NEW b, NEW k, NEW r, NEW q, NEW i, i <= ProofEnd(VariantFor(b, k))
    PROVE  ByteOf(b, k, r, i) = ByteOf(b, k, q, i)
BY DEF ByteOf

LEMMA LastBytesOf ==
    ASSUME NEW b, NEW k, Place(b, k), NEW r, NEW i \in Nat, ~(i <= ProofEnd(VariantFor(b, k)))
    PROVE  ByteOf(b, k, r, i) = <<ProofEnd(VariantFor(b, k)), ProofEnd(VariantFor(b, k)) + 64, r>>
<1>1. LET v == VariantFor(b, k)
      IN  /\ SIZE_OF_HEADERS(TypeOf(b, k)) \in {88, 89}
          /\ get_chained_merkle_root_offset(v) \in Nat /\ get_proof_offset(v) \in Nat /\ ProofEnd(v) \in Nat
          /\ SIZE_OF_HEADERS(TypeOf(b, k)) < get_chained_merkle_root_offset(v)
          /\ get_proof_offset(v) = get_chained_merkle_root_offset(v) + 32 /\ get_proof_offset(v) <= ProofEnd(v)
    BY PlacesOf
<1>2. LET v == VariantFor(b, k)
      IN  /\ ~(i <= SIZE_OF_HEADERS(TypeOf(b, k))) /\ ~(i <= get_chained_merkle_root_offset(v))
          /\ ~(i <= get_proof_offset(v))
    BY <1>1
<1> QED
    BY <1>2 DEF ByteOf

LEMMA VariantRead ==
    ASSUME NEW b, NEW k, Place(b, k), NEW r, NEW buf, Begins(buf, b, k, r)
    PROVE  get_shred_variant(buf)
             = IF 65 > Len(buf) THEN Err("InvalidPayloadSize") ELSE Ok(VariantFor(b, k))
<1>1. Part(b, k, r, 64, 65, VariantByte(VariantFor(b, k)))
    BY HeaderParts
<1>2. ReadAt(buf, 64, 65) = IF 65 > Len(buf) THEN Err("InvalidPayloadSize") ELSE Ok(VariantByte(VariantFor(b, k)))
    BY <1>1, ReadPart
<1>3. VariantOf(VariantByte(VariantFor(b, k))) = Ok(VariantFor(b, k))
    BY VariantIs
<1>4. CASE 65 > Len(buf)
  <2>1. ReadAt(buf, 64, 65) = Err("InvalidPayloadSize")
      BY <1>2, <1>4
  <2>2. get_shred_variant(buf) = ReadAt(buf, 64, 65)
      BY <2>1 DEF get_shred_variant, Err
  <2> QED
      BY <1>4, <2>1, <2>2
<1>5. CASE ~(65 > Len(buf))
  <2>1. ReadAt(buf, 64, 65) = Ok(VariantByte(VariantFor(b, k)))
      BY <1>2, <1>5
  <2>2. get_shred_variant(buf) = VariantOf(VariantByte(VariantFor(b, k)))
      BY <2>1 DEF get_shred_variant, Ok
  <2> QED
      BY <1>3, <1>5, <2>2
<1> QED
    BY <1>4, <1>5

(* Signing keeps all but the last signature.                               *)
LEMMA SignedBytes ==
    ASSUME NEW b, NEW k, Place(b, k), b.resigned, NEW r, NEW buf, Begins(buf, b, k, r), NEW q,
           ProofEnd(VariantFor(b, k)) + 64 <= Len(buf)
    PROVE  LET end == ProofEnd(VariantFor(b, k))
           IN  Begins(Write(buf, end, end + 64, q), b, k, q) /\ Len(Write(buf, end, end + 64, q)) = Len(buf)
<1> DEFINE end == ProofEnd(VariantFor(b, k))
           size == SIZE_OF_PAYLOAD(TypeOf(b, k))
           w == Write(buf, end, end + 64, q)
<1>1. end \in Nat /\ size = end + 64
    BY PlacesOf
<1>2. IsSeq(buf) /\ Len(buf) \in Nat /\ \A i \in 1..Len(buf) : i <= size => buf[i] = ByteOf(b, k, r, i)
    BY DEF Begins, IsSeq
<1>3. end + 64 \in Nat /\ end <= end + 64 /\ end + 64 <= Len(buf)
    BY <1>1
<1>4. /\ IsSeq(w) /\ Len(w) = Len(buf)
      /\ \A i \in 1..Len(buf) : w[i] = IF end < i /\ i <= end + 64 THEN <<end, end + 64, q>> ELSE buf[i]
    BY <1>1, <1>2, <1>3, WriteIs
<1>5. ASSUME NEW i \in Nat, ~(i <= end) PROVE ByteOf(b, k, q, i) = <<end, end + 64, q>>
    BY <1>5, LastBytesOf
<1>6. ASSUME NEW i \in Nat, i <= end PROVE ByteOf(b, k, q, i) = ByteOf(b, k, r, i)
    BY <1>6, SameBytesOf
<1> HIDE DEF w, end
<1>7. ASSUME NEW i \in 1..Len(w), i <= size PROVE w[i] = ByteOf(b, k, q, i)
  <2>1. i \in Nat /\ i \in 1..Len(buf)
      BY <1>4
  <2>2. CASE i <= end
    <3>1. ~(end < i)
        BY <1>1, <2>1, <2>2
    <3> QED
        BY <1>2, <1>4, <1>6, <1>7, <2>1, <2>2, <3>1
  <2>3. CASE ~(i <= end)
    <3>1. end < i /\ i <= end + 64
        BY <1>1, <1>7, <2>1, <2>3
    <3> QED
        BY <1>4, <1>5, <2>1, <2>3, <3>1
  <2> QED
      BY <2>2, <2>3
<1>8. Begins(w, b, k, q)
    BY <1>4, <1>7 DEF Begins, size
<1> QED
    BY <1>4, <1>8 DEF w, end

LEMMA ResignKeeps ==
    ASSUME NEW b, NEW k, Place(b, k), NEW r, NEW buf, Begins(buf, b, k, r), NEW signature
    PROVE  \E q \in {r, signature} : Begins(set_retransmitter_signature(buf, signature), b, k, q)
<1> DEFINE v == VariantFor(b, k)
           end == ProofEnd(v)
           w == set_retransmitter_signature(buf, signature)
<1>1. b.resigned \in BOOLEAN
    BY PlaceIs
<1>2. get_retransmitter_signature_offset(v) = IF b.resigned THEN Ok(end) ELSE Err("InvalidShredVariant")
    BY PlacesOf
<1>3. get_shred_variant(buf) = IF 65 > Len(buf) THEN Err("InvalidPayloadSize") ELSE Ok(v)
    BY VariantRead
<1>4. CASE ~(65 > Len(buf)) /\ b.resigned /\ ~(end + 64 > Len(buf))
  <2>1. w = Write(buf, end, end + 64, signature)
      BY <1>2, <1>3, <1>4 DEF set_retransmitter_signature, Ok, SIZE_OF_SIGNATURE
  <2>2. end \in Nat /\ Len(buf) \in Nat
      BY PlacesOf DEF Begins, IsSeq
  <2>3. end + 64 <= Len(buf)
      BY <1>4, <2>2
  <2>4. Begins(Write(buf, end, end + 64, signature), b, k, signature)
      BY <1>4, <2>3, SignedBytes
  <2> QED
      BY <2>1, <2>4
<1>5. CASE 65 > Len(buf) \/ ~b.resigned \/ end + 64 > Len(buf)
  <2>1. w = buf
      BY <1>2, <1>3, <1>5 DEF set_retransmitter_signature, Ok, Err, SIZE_OF_SIGNATURE
  <2> QED
      BY <2>1
<1> QED
    BY <1>1, <1>4, <1>5

-----------------------------------------------------------------------------
(* Shreds. *)
IsShred(s, b, k, r) ==
    s.type = TypeOf(b, k) /\ s.header = HeaderFor(b, k) /\ Carries(s.payload, b, k, r)

(* Whatever follows a shred in the buffer, it is the shred that is parsed. *)
LEMMA ParsedIs ==
    ASSUME NEW b, NEW k, Place(b, k), NEW r, NEW buf, Begins(buf, b, k, r), HasShred(buf)
    PROVE  /\ get_shred_variant(buf) = Ok(VariantFor(b, k))
           /\ Carries(Slice(buf, 0, SIZE_OF_PAYLOAD(TypeOf(b, k))), b, k, r)
           /\ IsShred(Parsed(buf), b, k, r)
<1> DEFINE v == VariantFor(b, k)
           type == TypeOf(b, k)
           size == SIZE_OF_PAYLOAD(type)
           payload == Slice(buf, 0, size)
           fields == Deserialize(payload, type)
<1>1. get_shred_variant(buf) = Ok(v)
  <2>1. get_shred_variant(buf) = IF 65 > Len(buf) THEN Err("InvalidPayloadSize") ELSE Ok(v)
      BY VariantRead
  <2>2. get_shred_variant(buf).ok
      BY DEF HasShred
  <2>3. ~Err("InvalidPayloadSize").ok
      BY DEF Err
  <2> QED
      BY <2>1, <2>2, <2>3
<1>2. get_shred_variant(buf).value.type = type
    BY <1>1, VariantIs DEF Ok
<1>3. size \in Nat /\ size <= Len(buf)
    BY <1>2, PlacesOf DEF HasShred
<1>4. IsSeq(payload) /\ Len(payload) = size /\ \A i \in 1..size : payload[i] = buf[i]
    BY <1>3, PrefixIs DEF Begins
<1>5. Carries(payload, b, k, r)
  <2>1. \A i \in 1..size : i \in 1..Len(buf) /\ i <= size
      BY <1>3 DEF Begins, IsSeq
  <2>2. \A i \in 1..size : payload[i] = ByteOf(b, k, r, i)
      BY <1>4, <2>1 DEF Begins
  <2> HIDE DEF payload
  <2> QED
      BY <1>4, <2>2 DEF Begins, Carries, size
<1>6. SIZE_OF_HEADERS(type) \in Nat /\ SIZE_OF_HEADERS(type) <= size
    BY PlacesOf
<1>7. Parsed(buf) = [type |-> type, payload |-> payload,
                     header |-> [name \in DOMAIN fields |-> fields[name].value]]
    BY <1>2 DEF Parsed
<1> HIDE DEF payload
<1>8. [name \in DOMAIN fields |-> fields[name].value] = HeaderFor(b, k)
  <2>1. /\ IsSeq(payload) /\ SIZE_OF_HEADERS(TypeOf(b, k)) <= Len(payload)
        /\ \A i \in 1..SIZE_OF_HEADERS(TypeOf(b, k)) : payload[i] = ByteOf(b, k, r, i)
    <3>1. \A i \in 1..SIZE_OF_HEADERS(TypeOf(b, k)) : i \in 1..Len(payload) /\ i <= size
        BY <1>3, <1>4, <1>6
    <3> QED
        BY <1>4, <1>5, <1>6, <3>1 DEF Carries, Begins
  <2>2. ReadsHeader(fields, HeaderFor(b, k))
      BY <2>1, Deserialized
  <2> HIDE DEF fields
  <2> QED
      BY <2>2 DEF ReadsHeader
<1> HIDE DEF fields
<1>9. IsShred(Parsed(buf), b, k, r)
    BY <1>5, <1>7, <1>8 DEF IsShred
<1> QED
    BY <1>1, <1>5, <1>9 DEF payload, v, size

LEMMA ReceivedIs ==
    ASSUME NEW b, NEW k, Place(b, k), NEW r, NEW buf, Begins(buf, b, k, r), HasShred(buf),
           NEW given \in {buf, get_shred_from_buf(buf)}
    PROVE  IsShred(Parsed(given), b, k, r)
<1> DEFINE size == SIZE_OF_PAYLOAD(TypeOf(b, k))
           payload == Slice(buf, 0, size)
<1>1. /\ get_shred_variant(buf) = Ok(VariantFor(b, k))
      /\ Carries(payload, b, k, r)
      /\ IsShred(Parsed(buf), b, k, r)
    BY ParsedIs
<1>2. get_shred_from_buf(buf) = payload
    BY <1>1, VariantIs DEF get_shred_from_buf, Ok
<1>3. Begins(payload, b, k, r) /\ Len(payload) = size
    BY <1>1 DEF Carries
<1>4. TypeOf(b, k) = "data" \/ TypeOf(b, k) = "code"
    BY DEF TypeOf
<1>5. size \in Nat /\ size <= size /\ ~(65 > size)
    BY <1>4, Sizes
<1> HIDE DEF payload, size
<1>6. get_shred_variant(payload) = Ok(VariantFor(b, k))
    BY <1>3, <1>5, VariantRead
<1>7. HasShred(payload)
    BY <1>3, <1>5, <1>6, VariantIs DEF HasShred, Ok, size
<1>8. IsShred(Parsed(payload), b, k, r)
    BY <1>3, <1>7, ParsedIs
<1> QED
    BY <1>1, <1>2, <1>8

(* The setters. *)
IsRecord(s) == DOMAIN s = {"type", "header", "payload"} /\ s = [f \in DOMAIN s |-> s[f]]

LEMMA PutIs ==
    ASSUME NEW s, IsRecord(s), NEW from, NEW to, NEW value
    PROVE  LET t == Put(s, from, to, value)
           IN  /\ IsRecord(t) /\ t.type = s.type /\ t.header = s.header
               /\ t.payload = Write(s.payload, from, to, value)
BY DEF Put, IsRecord

LEMMA ZerosAre ==
    ASSUME NEW n \in Nat
    PROVE  IsSeq(Zeros(n)) /\ Len(Zeros(n)) = n
<1>1. PICK o \in Nat : o = 0
    OBVIOUS
<1>2. IsSeq(Span(o, n, "zero")) /\ Len(Span(o, n, "zero")) = n - o
    BY <1>1, SpanIs
<1>3. Zeros(n) = Span(o, n, "zero") /\ n - o = n
    BY <1>1 DEF Zeros
<1> QED
    BY <1>2, <1>3

(* The shreds as their leader makes them. *)
LEMMA LaterBytes ==
    ASSUME NEW type \in Type, NEW h, NEW g, NEW i \in Nat, ~(i <= 64),
           \A name \in CommonNames \cup IF type = "data" THEN DataNames ELSE CodeNames :
             name # "signature" => h[name] = g[name]
    PROVE  HeaderByte(type, h, i) = HeaderByte(type, g, i)
<1>1. /\ h.shred_variant = g.shred_variant /\ h.slot = g.slot /\ h.index = g.index /\ h.version = g.version
      /\ h.fec_set_index = g.fec_set_index
    BY DEF CommonNames
<1>2. type = "data" => h.parent_offset = g.parent_offset /\ h.flags = g.flags /\ h.size = g.size
    BY DEF DataNames
<1>3. type # "data" => /\ h.num_data_shreds = g.num_data_shreds /\ h.num_coding_shreds = g.num_coding_shreds
                       /\ h.position = g.position
    BY DEF CodeNames
<1> QED
    BY <1>1, <1>2, <1>3 DEF HeaderByte

(* The header before it is signed. *)
LEMMA UnsignedHeader ==
    ASSUME NEW type \in Type, NEW common, NEW signed, NEW special,
           \A name \in CommonNames : name # "signature" => common[name] = signed[name]
    PROVE  LET h == Header(type, common, special)
               g == Header(type, signed, special)
           IN  /\ DOMAIN h = DOMAIN g
               /\ \A name \in DOMAIN h : name # "signature" => h[name] = g[name]
               /\ [h EXCEPT !.signature = signed["signature"]] = g
<1> DEFINE h == Header(type, common, special)
           g == Header(type, signed, special)
           names == CommonNames \cup IF type = "data" THEN DataNames ELSE CodeNames
<1>1. /\ h = [name \in DOMAIN h |-> h[name]] /\ DOMAIN h = names
      /\ \A name \in DOMAIN h : h[name] = IF name \in CommonNames THEN common[name] ELSE special[name]
    BY HeaderIs
<1>2. /\ g = [name \in DOMAIN g |-> g[name]] /\ DOMAIN g = names
      /\ \A name \in DOMAIN g : g[name] = IF name \in CommonNames THEN signed[name] ELSE special[name]
    BY HeaderIs
<1> HIDE DEF h, g
<1>3. \A name \in DOMAIN h : name # "signature" => h[name] = g[name]
    BY <1>1, <1>2
<1>4. "signature" \in CommonNames /\ "signature" \in DOMAIN h
    BY <1>1 DEF CommonNames
<1>5. g["signature"] = signed["signature"]
    BY <1>1, <1>2, <1>4
<1>6. [h EXCEPT !.signature = signed["signature"]]
        = [name \in DOMAIN h |-> IF name = "signature" THEN signed["signature"] ELSE h[name]]
    BY <1>1
<1>7. [name \in DOMAIN h |-> IF name = "signature" THEN signed["signature"] ELSE h[name]]
        = [name \in DOMAIN g |-> g[name]]
    BY <1>1, <1>2, <1>3, <1>5
<1> QED
    BY <1>1, <1>2, <1>3, <1>6, <1>7 DEF h, g

LEMMA OriginalIs ==
    ASSUME NEW b, NEW k, Place(b, k)
    PROVE  IsShred(Original(b, k), b, k, "unsigned")
<1> DEFINE type == TypeOf(b, k)
           v == VariantFor(b, k)
           index == IF k <= b.num_data THEN FecSetIndex + k - 1 ELSE FirstCoding + k - b.num_data - 1
           unsigned == [signature |-> "none", shred_variant |-> VariantByte(v), slot |-> Slot, index |-> index,
                        version |-> Version, fec_set_index |-> FecSetIndex]
           common == [signature |-> b.signature, shred_variant |-> VariantByte(v), slot |-> Slot,
                      index |-> index, version |-> Version, fec_set_index |-> FecSetIndex]
           special == IF k <= b.num_data
                      THEN [parent_offset |-> 1, flags |-> 69, size |-> SIZE_OF_HEADERS("data") + 1]
                      ELSE [num_data_shreds |-> b.num_data, num_coding_shreds |-> b.num_coding,
                            position |-> k - b.num_data - 1]
           header == Header(type, unsigned, special)
           size == SIZE_OF_PAYLOAD(type)
           headers == SIZE_OF_HEADERS(type)
           chained == get_chained_merkle_root_offset(v)
           proof == get_proof_offset(v)
           end == ProofEnd(v)
           p0 == Serialize(Zeros(size), type, header)
           s0 == [type |-> type, header |-> header, payload |-> p0]
           s1 == Put(s0, headers, chained, ShardOf(b, k))
           s2 == set_chained_merkle_root(s1, "parent")
           s3 == set_merkle_proof(s2, ProofOf(b, k))
           s4 == set_signature(s3, b.signature)
           s5 == SetRetransmitterSignature(s4, "unsigned")
<1>1. /\ type \in Type /\ (type = "data" <=> k <= b.num_data) /\ b.resigned \in BOOLEAN
    BY PlaceIs
<1>2. Original(b, k) = s5
  <2>1. Original(b, k) = LeadersShred(b, k)
      BY DEF Original, Originals, Place
  <2>2. (IF type = "data" THEN [parent_offset |-> 1, flags |-> 69, size |-> SIZE_OF_HEADERS("data") + 1]
         ELSE [num_data_shreds |-> b.num_data, num_coding_shreds |-> b.num_coding,
               position |-> k - b.num_data - 1]) = special
      BY <1>1
  <2> HIDE DEF special
  <2>3. LeadersShred(b, k) = s5
      BY <2>2 DEF LeadersShred, TypeOf, VariantFor, ShardOf, ProofOf
  <2> QED
      BY <2>1, <2>3
<1>3. /\ headers \in {88, 89}
      /\ chained \in Nat /\ proof \in Nat /\ end \in Nat /\ size \in Nat
      /\ headers < chained /\ proof = chained + 32 /\ proof <= end /\ end <= size
      /\ b.resigned => size = end + 64
      /\ ~b.resigned => size = end
      /\ get_retransmitter_signature_offset(v) = IF b.resigned THEN Ok(end) ELSE Err("InvalidShredVariant")
    BY PlacesOf
<1>4. VariantOf(VariantByte(v)) = Ok(v)
    BY VariantIs
<1>5. HeaderFor(b, k) = Header(type, common, special)
    BY DEF HeaderFor
<1>6. /\ DOMAIN header = DOMAIN HeaderFor(b, k)
      /\ \A name \in DOMAIN header : name # "signature" => header[name] = HeaderFor(b, k)[name]
      /\ [header EXCEPT !.signature = b.signature] = HeaderFor(b, k)
  <2>1. \A name \in CommonNames : name # "signature" => unsigned[name] = common[name]
      BY DEF CommonNames
  <2>2. common["signature"] = b.signature
      OBVIOUS
  <2> HIDE DEF unsigned, common, special
  <2> DEFINE g == Header(type, common, special)
  <2>3. /\ DOMAIN header = DOMAIN g
        /\ \A name \in DOMAIN header : name # "signature" => header[name] = g[name]
        /\ [header EXCEPT !.signature = common["signature"]] = g
      BY <1>1, <2>1, UnsignedHeader
  <2> QED
      BY <1>5, <2>2, <2>3
<1>7. /\ DOMAIN header = CommonNames \cup IF type = "data" THEN DataNames ELSE CodeNames
      /\ header.shred_variant = VariantByte(v)
  <2>1. IsHeader(HeaderFor(b, k), b, k)
      BY HeaderForIs
  <2>2. "shred_variant" \in DOMAIN header
      BY <1>6, <2>1 DEF IsHeader, CommonNames
  <2> HIDE DEF header
  <2> QED
      BY <1>6, <2>1, <2>2 DEF IsHeader
<1>8. IsSeq(Zeros(size)) /\ Len(Zeros(size)) = size
    BY <1>3, ZerosAre
<1> HIDE DEF header, special, common, unsigned, index
<1>9. /\ IsSeq(p0) /\ Len(p0) = size
      /\ \A i \in 1..size : i <= headers => p0[i] = HeaderByte(type, header, i)
    BY <1>1, <1>8, SerializeIs
<1> HIDE DEF p0
<1>10. IsRecord(s0) /\ s0.type = type /\ s0.header = header /\ s0.payload = p0
    BY DEF IsRecord
<1> HIDE DEF s0
<1>11. ASSUME NEW s, s.header = header PROVE Variant(s) = v
    BY <1>4, <1>7, <1>11 DEF Variant, Ok
<1>12. IsRecord(s1) /\ s1.type = type /\ s1.header = header /\ s1.payload = Write(p0, headers, chained, ShardOf(b, k))
    BY <1>10, PutIs
<1> HIDE DEF s1
<1>13. IsRecord(s2) /\ s2.type = type /\ s2.header = header /\ s2.payload = Write(s1.payload, chained, proof, "parent")
  <2>1. s2 = Put(s1, chained, proof, "parent")
      BY <1>11, <1>12 DEF set_chained_merkle_root
  <2> QED
      BY <1>12, <2>1, PutIs
<1> HIDE DEF s2
<1>14. IsRecord(s3) /\ s3.type = type /\ s3.header = header /\ s3.payload = Write(s2.payload, proof, end, ProofOf(b, k))
  <2>1. s3 = Put(s2, proof, end, ProofOf(b, k))
      BY <1>11, <1>13 DEF set_merkle_proof
  <2> QED
      BY <1>13, <2>1, PutIs
<1> HIDE DEF s3
<1>15. IsRecord(s4) /\ s4.type = type /\ s4.header = HeaderFor(b, k) /\ s4.payload = Write(s3.payload, 0, 64, b.signature)
  <2> DEFINE t == Put(s3, 0, SIZE_OF_SIGNATURE, b.signature)
  <2>1. IsRecord(t) /\ t.type = type /\ t.header = header /\ t.payload = Write(s3.payload, 0, 64, b.signature)
      BY <1>14, PutIs DEF SIZE_OF_SIGNATURE
  <2>2. s4 = [t EXCEPT !.header.signature = b.signature]
      BY DEF set_signature
  <2> HIDE DEF t
  <2>3. IsRecord(s4) /\ s4.type = t.type /\ s4.payload = t.payload
        /\ s4.header = [t.header EXCEPT !.signature = b.signature]
      BY <2>1, <2>2 DEF IsRecord
  <2> QED
      BY <1>6, <2>1, <2>3
<1> HIDE DEF s4
<1>16. Variant(s4) = v
  <2>1. IsHeader(HeaderFor(b, k), b, k)
      BY HeaderForIs
  <2> QED
      BY <1>4, <1>15, <2>1 DEF IsHeader, Variant, Ok
<1>17. /\ s5.type = type /\ s5.header = HeaderFor(b, k)
       /\ s5.payload = IF b.resigned THEN Write(s4.payload, end, end + 64, "unsigned") ELSE s4.payload
  <2>1. CASE b.resigned
    <3>1. s5 = Put(s4, end, end + 64, "unsigned")
        BY <1>3, <1>16, <2>1 DEF SetRetransmitterSignature, Ok, SIZE_OF_SIGNATURE
    <3> QED
        BY <1>15, <2>1, <3>1, PutIs
  <2>2. CASE ~b.resigned
    <3>1. s5 = s4
        BY <1>3, <1>16, <2>2 DEF SetRetransmitterSignature, Err
    <3> QED
        BY <1>15, <2>2, <3>1
  <2> QED
      BY <2>1, <2>2
<1> HIDE DEF s5, headers, chained, proof, end, size
<1> DEFINE p1 == s1.payload
           p2 == s2.payload
           p3 == s3.payload
           p4 == s4.payload
           p5 == s5.payload
<1>18. /\ IsSeq(p1) /\ Len(p1) = size
       /\ \A i \in 1..size : p1[i] = IF headers < i /\ i <= chained THEN <<headers, chained, ShardOf(b, k)>> ELSE p0[i]
  <2>1. headers \in Nat /\ headers <= chained /\ chained <= Len(p0)
      BY <1>3, <1>9
  <2> QED
      BY <1>3, <1>9, <1>12, <2>1, WriteIs
<1> HIDE DEF p1
<1>19. /\ IsSeq(p2) /\ Len(p2) = size
       /\ \A i \in 1..size : p2[i] = IF chained < i /\ i <= proof THEN <<chained, proof, "parent">> ELSE p1[i]
  <2>1. chained <= proof /\ proof <= Len(p1)
      BY <1>3, <1>18
  <2>2. p2 = Write(p1, chained, proof, "parent")
      BY <1>13 DEF p1
  <2> HIDE DEF p2
  <2> QED
      BY <1>3, <1>18, <2>1, <2>2, WriteIs
<1> HIDE DEF p2
<1>20. /\ IsSeq(p3) /\ Len(p3) = size
       /\ \A i \in 1..size : p3[i] = IF proof < i /\ i <= end THEN <<proof, end, ProofOf(b, k)>> ELSE p2[i]
  <2>1. proof <= end /\ end <= Len(p2)
      BY <1>3, <1>19
  <2>2. p3 = Write(p2, proof, end, ProofOf(b, k))
      BY <1>14 DEF p2
  <2> HIDE DEF p3
  <2> QED
      BY <1>3, <1>19, <2>1, <2>2, WriteIs
<1> HIDE DEF p3
<1>21. /\ IsSeq(p4) /\ Len(p4) = size
       /\ \A i \in 1..size : p4[i] = IF i <= 64 THEN <<0, 64, b.signature>> ELSE p3[i]
  <2>1. PICK o \in Nat : o = 0
      OBVIOUS
  <2>2. 64 \in Nat /\ o <= 64 /\ 64 <= Len(p3)
      BY <1>3, <1>20, <2>1
  <2>3. p4 = Write(p3, o, 64, b.signature)
      BY <1>15, <2>1 DEF p3
  <2> HIDE DEF p4
  <2>4. /\ IsSeq(p4) /\ Len(p4) = size
        /\ \A i \in 1..size : p4[i] = IF o < i /\ i <= 64 THEN <<o, 64, b.signature>> ELSE p3[i]
      BY <1>20, <2>2, <2>3, WriteIs
  <2>5. \A i \in 1..size : o < i
      BY <2>1
  <2> QED
      BY <2>1, <2>4, <2>5
<1> HIDE DEF p4
<1>22. /\ IsSeq(p5) /\ Len(p5) = size
       /\ \A i \in 1..size : p5[i] = IF end < i THEN <<end, end + 64, "unsigned">> ELSE p4[i]
  <2>1. CASE b.resigned
    <3>1. end + 64 \in Nat /\ end <= end + 64 /\ end + 64 <= Len(p4) /\ size = end + 64
        BY <1>3, <1>21, <2>1
    <3>2. p5 = Write(p4, end, end + 64, "unsigned")
        BY <1>17, <2>1 DEF p4
    <3> HIDE DEF p5
    <3>3. /\ IsSeq(p5) /\ Len(p5) = size
          /\ \A i \in 1..size : p5[i] = IF end < i /\ i <= end + 64 THEN <<end, end + 64, "unsigned">> ELSE p4[i]
        BY <1>3, <1>21, <3>1, <3>2, WriteIs
    <3> QED
        BY <3>1, <3>3
  <2>2. CASE ~b.resigned
    <3>1. p5 = p4 /\ size = end
        BY <1>3, <1>17, <2>2 DEF p4
    <3>2. \A i \in 1..size : ~(end < i)
        BY <1>3, <3>1
    <3> QED
        BY <1>21, <3>1, <3>2
  <2> QED
      BY <2>1, <2>2
<1> HIDE DEF p5
<1>23. ASSUME NEW i \in 1..size PROVE p5[i] = ByteOf(b, k, "unsigned", i)
  <2>1. CASE i <= 64
    <3>1. p5[i] = <<0, 64, b.signature>>
        BY <1>3, <1>21, <1>22, <2>1
    <3>2. IsHeader(HeaderFor(b, k), b, k)
        BY HeaderForIs
    <3>3. i <= headers
        BY <1>3, <2>1
    <3>4. ByteOf(b, k, "unsigned", i) = HeaderByte(type, HeaderFor(b, k), i)
        BY <3>3 DEF ByteOf, headers
    <3> QED
        BY <2>1, <3>1, <3>2, <3>4 DEF IsHeader, HeaderByte
  <2>2. CASE 64 < i /\ i <= headers
    <3>1. p5[i] = HeaderByte(type, header, i)
        BY <1>3, <1>9, <1>18, <1>19, <1>20, <1>21, <1>22, <2>2
    <3>2. HeaderByte(type, header, i) = HeaderByte(type, HeaderFor(b, k), i)
      <4>1. i \in Nat /\ ~(i <= 64)
          BY <2>2
      <4> QED
          BY <1>1, <1>6, <1>7, <4>1, LaterBytes
    <3> QED
        BY <2>2, <3>1, <3>2 DEF ByteOf, headers
  <2>3. CASE headers < i /\ i <= chained
    <3>2. /\ ~(i <= headers) /\ ~(chained < i) /\ ~(proof < i) /\ ~(i <= 64) /\ ~(end < i)
        BY <1>3, <2>3
    <3>3. p1[i] = <<headers, chained, ShardOf(b, k)>>
        BY <1>18, <2>3
    <3>4. p2[i] = p1[i] /\ p3[i] = p2[i] /\ p4[i] = p3[i] /\ p5[i] = p4[i]
        BY <1>19, <1>20, <1>21, <1>22, <3>2
    <3>1. p5[i] = <<headers, chained, ShardOf(b, k)>> /\ ~(i <= headers)
        BY <3>2, <3>3, <3>4
    <3> QED
        BY <2>3, <3>1 DEF ByteOf, headers, chained
  <2>4. CASE chained < i /\ i <= proof
    <3>1. p5[i] = <<chained, proof, "parent">> /\ ~(i <= headers) /\ ~(i <= chained)
        BY <1>3, <1>18, <1>19, <1>20, <1>21, <1>22, <2>4
    <3> QED
        BY <2>4, <3>1 DEF ByteOf, headers, chained, proof
  <2>5. CASE proof < i /\ i <= end
    <3>1. p5[i] = <<proof, end, ProofOf(b, k)>> /\ ~(i <= headers) /\ ~(i <= chained) /\ ~(i <= proof)
        BY <1>3, <1>18, <1>19, <1>20, <1>21, <1>22, <2>5
    <3> QED
        BY <2>5, <3>1 DEF ByteOf, headers, chained, proof, end
  <2>6. CASE end < i
    <3>1. p5[i] = <<end, end + 64, "unsigned">> /\ ~(i <= end) /\ i \in Nat
        BY <1>3, <1>22, <2>6
    <3> QED
        BY <3>1, LastBytesOf DEF end
  <2> QED
      BY <1>3, <2>1, <2>2, <2>3, <2>4, <2>5, <2>6
<1>24. Carries(p5, b, k, "unsigned")
    BY <1>22, <1>23 DEF Carries, Begins, size
<1> QED
    BY <1>2, <1>17, <1>24 DEF IsShred, p5

-----------------------------------------------------------------------------
(* Recovery. *)
LEMMA ShredVariantIs ==
    ASSUME NEW b, NEW k, Place(b, k), NEW s, s.header.shred_variant = VariantByte(VariantFor(b, k))
    PROVE  Variant(s) = VariantFor(b, k)
BY VariantIs DEF Variant, Ok

LEMMA HeaderOfShred ==
    ASSUME NEW b, NEW k, Place(b, k), NEW s, s.header = HeaderFor(b, k)
    PROVE  IsHeader(s.header, b, k) /\ Variant(s) = VariantFor(b, k)
<1>1. IsHeader(s.header, b, k)
    BY HeaderForIs
<1>2. s.header.shred_variant = VariantByte(VariantFor(b, k))
    BY <1>1 DEF IsHeader
<1> QED
    BY <1>1, <1>2, ShredVariantIs

LEMMA RootAndSignatureRead ==
    ASSUME NEW b, NEW k, Place(b, k), NEW r, NEW s, IsShred(s, b, k, r)
    PROVE  /\ chained_merkle_root(s) = Ok("parent")
           /\ retransmitter_signature(s) = IF b.resigned THEN Ok(r) ELSE Err("InvalidShredVariant")
<1> DEFINE v == VariantFor(b, k)
           chained == get_chained_merkle_root_offset(v)
           end == ProofEnd(v)
           size == SIZE_OF_PAYLOAD(TypeOf(b, k))
<1>1. Variant(s) = v
    BY HeaderOfShred DEF IsShred
<1>2. /\ chained \in Nat /\ end \in Nat /\ size \in Nat /\ chained + 32 <= end /\ end <= size
      /\ b.resigned => size = end + 64
      /\ get_retransmitter_signature_offset(v) = IF b.resigned THEN Ok(end) ELSE Err("InvalidShredVariant")
  <2>1. /\ chained \in Nat /\ end \in Nat /\ size \in Nat /\ get_proof_offset(v) = chained + 32
        /\ get_proof_offset(v) <= end /\ end <= size
        /\ b.resigned => size = end + 64
        /\ get_retransmitter_signature_offset(v) = IF b.resigned THEN Ok(end) ELSE Err("InvalidShredVariant")
      BY PlacesOf
  <2> QED
      BY <2>1
<1>3. Begins(s.payload, b, k, r) /\ Len(s.payload) = size
    BY DEF IsShred, Carries
<1>4. /\ Part(b, k, r, chained, chained + 32, "parent")
      /\ b.resigned => Part(b, k, r, end, end + 64, r)
    BY OtherParts
<1> HIDE DEF chained, end, size, v
<1>5. ReadAt(s.payload, chained, chained + 32) = Ok("parent")
  <2>1. ~(chained + 32 > Len(s.payload))
      BY <1>2, <1>3
  <2>2. ReadAt(s.payload, chained, chained + 32)
          = IF chained + 32 > Len(s.payload) THEN Err("InvalidPayloadSize") ELSE Ok("parent")
      BY <1>3, <1>4, ReadPart
  <2> QED
      BY <2>1, <2>2
<1>6. b.resigned => ReadAt(s.payload, end, end + 64) = Ok(r)
  <2> SUFFICES ASSUME b.resigned PROVE ReadAt(s.payload, end, end + 64) = Ok(r)
      OBVIOUS
  <2>1. ~(end + 64 > Len(s.payload))
      BY <1>2, <1>3
  <2>2. ReadAt(s.payload, end, end + 64)
          = IF end + 64 > Len(s.payload) THEN Err("InvalidPayloadSize") ELSE Ok(r)
      BY <1>3, <1>4, ReadPart
  <2> QED
      BY <2>1, <2>2
<1>7. chained_merkle_root(s) = Ok("parent")
    BY <1>1, <1>5 DEF chained_merkle_root, SIZE_OF_MERKLE_ROOT, chained
<1>8. retransmitter_signature(s) = IF b.resigned THEN Ok(r) ELSE Err("InvalidShredVariant")
  <2>1. CASE b.resigned
      BY <1>1, <1>2, <1>6, <2>1 DEF retransmitter_signature, Ok, SIZE_OF_SIGNATURE
  <2>2. CASE ~b.resigned
      BY <1>1, <1>2, <2>2 DEF retransmitter_signature, Err
  <2> QED
      BY <2>1, <2>2
<1> QED
    BY <1>7, <1>8

LEMMA StubVariantIs ==
    ASSUME NEW b, NEW k, Place(b, k), NEW l, Place(b, l), TypeOf(b, l) = "code",
           NEW r, NEW last, IsShred(last, b, l, r)
    PROVE  StubVariant(last, k) = VariantFor(b, k)
<1>1. /\ Variant(last) = VariantFor(b, l) /\ IsHeader(last.header, b, l)
    BY HeaderOfShred DEF IsShred
<1>2. last.header.num_data_shreds = b.num_data
    BY <1>1 DEF IsHeader
<1>3. b.resigned \in BOOLEAN
    BY PlaceIs
<1>4. retransmitter_signature(last).ok = b.resigned
  <2>1. retransmitter_signature(last) = IF b.resigned THEN Ok(r) ELSE Err("InvalidShredVariant")
      BY RootAndSignatureRead
  <2>2. Ok(r).ok = TRUE /\ Err("InvalidShredVariant").ok = FALSE
      BY DEF Ok, Err
  <2> QED
      BY <1>3, <2>1, <2>2
<1>5. /\ b.num_data \in Nat /\ k \in Nat
      /\ (TypeOf(b, k) = "data" <=> k <= b.num_data) /\ (TypeOf(b, k) = "code" <=> ~(k <= b.num_data))
    BY PlaceIs
<1>6. CASE k > b.num_data
  <2>1. TypeOf(b, k) = "code"
      BY <1>5, <1>6
  <2> QED
      BY <1>1, <1>2, <1>6, <2>1 DEF StubVariant, VariantFor
<1>7. CASE ~(k > b.num_data)
  <2>1. TypeOf(b, k) = "data"
      BY <1>5, <1>7
  <2>2. StubVariant(last, k) = [VariantFor(b, l) EXCEPT !.type = "data", !.resigned = b.resigned]
      BY <1>1, <1>2, <1>4, <1>7 DEF StubVariant
  <2> QED
      BY <2>1, <2>2 DEF VariantFor
<1> QED
    BY <1>6, <1>7

LEMMA DataHeader ==
    ASSUME NEW common, NEW special
    PROVE  LET h == Header("data", common, special)
           IN  /\ DOMAIN h = CommonNames \cup DataNames
               /\ \A name \in DOMAIN h : h[name] = IF name \in CommonNames THEN common[name] ELSE special[name]
<1>1. PICK type \in Type : type = "data"
    BY DEF Type
<1> DEFINE t == Header(type, common, special)
<1>2. /\ DOMAIN t = CommonNames \cup IF type = "data" THEN DataNames ELSE CodeNames
      /\ \A name \in DOMAIN t : t[name] = IF name \in CommonNames THEN common[name] ELSE special[name]
    BY HeaderIs
<1> HIDE DEF t
<1>3. t = Header("data", common, special)
    BY <1>1 DEF t
<1> QED
    BY <1>1, <1>2, <1>3

LEMMA StubHeaderIs ==
    ASSUME NEW b, NEW k, Place(b, k), NEW l, Place(b, l), TypeOf(b, l) = "code",
           NEW r, NEW last, IsShred(last, b, l, r)
    PROVE  LET h == StubHeader(last, k)
           IN  /\ DOMAIN h = DOMAIN HeaderFor(b, k)
               /\ \A name \in CommonNames : h[name] = HeaderFor(b, k)[name]
               /\ TypeOf(b, k) = "code" => h = HeaderFor(b, k)
<1> DEFINE g == last.header
           f == HeaderFor(b, k)
<1>1. IsHeader(g, b, l)
    BY HeaderOfShred DEF IsShred
<1>2. IsHeader(f, b, k)
    BY HeaderForIs
<1>3. /\ b.num_data \in Nat /\ k \in Nat /\ l \in Nat /\ FecSetIndex \in Nat /\ FirstCoding \in Nat
      /\ TypeOf(b, k) \in Type
      /\ (TypeOf(b, k) = "data" <=> k <= b.num_data) /\ (TypeOf(b, k) = "code" <=> ~(k <= b.num_data))
      /\ ~(l <= b.num_data)
    BY PlaceIs
<1>4. /\ g.num_data_shreds = b.num_data /\ g.index = FirstCoding + l - b.num_data - 1
      /\ g.position = l - b.num_data - 1 /\ g.fec_set_index = FecSetIndex
    BY <1>1, <1>3 DEF IsHeader, IndexFor
<1>5. StubVariant(last, k) = VariantFor(b, k)
    BY StubVariantIs
<1> HIDE DEF f
<1>6. CASE k > b.num_data
  <2> DEFINE position == k - b.num_data - 1
             h == [g EXCEPT !.index = FirstCoding + position, !.position = position]
  <2>1. first_coding_index(last) = FirstCoding
      BY <1>3, <1>4 DEF first_coding_index
  <2>2. StubHeader(last, k) = h
      BY <1>4, <1>6, <2>1 DEF StubHeader
  <2>3. TypeOf(b, k) = "code"
      BY <1>3, <1>6
  <2>4. VariantFor(b, l) = VariantFor(b, k)
      BY <2>3 DEF VariantFor
  <2>5. FirstCoding + position = IndexFor(b, k)
      BY <1>3, <1>6 DEF IndexFor
  <2>6. /\ h = [name \in DOMAIN h |-> h[name]] /\ DOMAIN h = DOMAIN g
        /\ \A name \in DOMAIN g :
             h[name] = IF name = "position" THEN position
                       ELSE IF name = "index" THEN FirstCoding + position ELSE g[name]
      BY <1>1 DEF IsHeader
  <2>7. DOMAIN g = CommonNames \cup CodeNames
      BY <1>1 DEF IsHeader
  <2> HIDE DEF h
  <2>8. IsHeader(h, b, k)
    <3>1. /\ h.signature = g.signature /\ h.shred_variant = g.shred_variant /\ h.slot = g.slot
          /\ h.index = FirstCoding + position /\ h.version = g.version /\ h.fec_set_index = g.fec_set_index
          /\ h.num_data_shreds = g.num_data_shreds /\ h.num_coding_shreds = g.num_coding_shreds
          /\ h.position = position
        BY <2>6, <2>7 DEF CommonNames, CodeNames
    <3>2. /\ h = [name \in DOMAIN h |-> h[name]]
          /\ DOMAIN h = CommonNames \cup IF TypeOf(b, k) = "data" THEN DataNames ELSE CodeNames
        BY <2>3, <2>6, <2>7
    <3> QED
        BY <1>1, <2>3, <2>4, <2>5, <3>1, <3>2 DEF IsHeader
  <2>9. h = f
      BY <2>8, OneHeader DEF f
  <2> QED
      BY <2>2, <2>9 DEF f
<1>7. CASE ~(k > b.num_data)
  <2> DEFINE common == [g EXCEPT !.index = g.fec_set_index + k - 1, !.shred_variant = VariantByte(VariantFor(b, k))]
             special == [parent_offset |-> 0, flags |-> 0, size |-> 0]
             h == Header("data", common, special)
  <2>1. StubHeader(last, k) = h
      BY <1>4, <1>5, <1>7 DEF StubHeader
  <2>2. TypeOf(b, k) = "data"
      BY <1>3, <1>7
  <2>3. /\ common["signature"] = g.signature /\ common["shred_variant"] = VariantByte(VariantFor(b, k))
        /\ common["slot"] = g.slot /\ common["index"] = g.fec_set_index + k - 1
        /\ common["version"] = g.version /\ common["fec_set_index"] = g.fec_set_index
    <3>1. DOMAIN g = CommonNames \cup CodeNames
        BY <1>1 DEF IsHeader
    <3> QED
        BY <3>1 DEF CommonNames
  <2>4. g.fec_set_index + k - 1 = IndexFor(b, k)
      BY <1>3, <1>4, <2>2 DEF IndexFor
  <2> HIDE DEF common
  <2>5. \A name \in CommonNames : common[name] = f[name]
      BY <1>1, <1>2, <2>3, <2>4 DEF IsHeader, CommonNames
  <2>6. /\ DOMAIN h = CommonNames \cup DataNames
        /\ \A name \in DOMAIN h : h[name] = IF name \in CommonNames THEN common[name] ELSE special[name]
    <3> HIDE DEF special
    <3> QED
        BY DataHeader
  <2> HIDE DEF h
  <2>7. DOMAIN f = CommonNames \cup DataNames
      BY <1>2, <2>2 DEF IsHeader
  <2> QED
      BY <2>1, <2>2, <2>5, <2>6, <2>7 DEF f
<1> QED
    BY <1>6, <1>7

(* A stub is what the shred is, up to its shard and its proof.             *)
IsStub(t, b, k, r) ==
    /\ IsRecord(t) /\ t.type = TypeOf(b, k)
    /\ DOMAIN t.header = DOMAIN HeaderFor(b, k)
    /\ \A name \in CommonNames : t.header[name] = HeaderFor(b, k)[name]
    /\ TypeOf(b, k) = "code" => t.header = HeaderFor(b, k)
    /\ IsSeq(t.payload) /\ Len(t.payload) = SIZE_OF_PAYLOAD(TypeOf(b, k))
    /\ LET v == VariantFor(b, k)
       IN  \A i \in 1..SIZE_OF_PAYLOAD(TypeOf(b, k)) :
             \/ i <= ERASURE_SHARD_START_OFFSET(TypeOf(b, k))
             \/ get_chained_merkle_root_offset(v) < i /\ i <= get_proof_offset(v)
             \/ ProofEnd(v) < i
             => t.payload[i] = ByteOf(b, k, r, i)

LEMMA StubHolds ==
    ASSUME NEW b, NEW k, Place(b, k), NEW r, NEW h, NEW q, NEW i \in 1..SIZE_OF_PAYLOAD(TypeOf(b, k)),
           IF TypeOf(b, k) = "code"
           THEN i <= SIZE_OF_HEADERS("code") => q = HeaderByte("code", HeaderFor(b, k), i)
           ELSE i <= 64 => q = <<0, 64, b.signature>>,
           i <= ERASURE_SHARD_START_OFFSET(TypeOf(b, k))
    PROVE  q = ByteOf(b, k, r, i)
<1>1. TypeOf(b, k) = "data" \/ TypeOf(b, k) = "code"
    BY DEF TypeOf
<1>2. CASE TypeOf(b, k) = "code"
    BY <1>2, Sizes DEF ByteOf, ERASURE_SHARD_START_OFFSET
<1>3. CASE TypeOf(b, k) = "data"
  <2>1. i <= 64 /\ i <= SIZE_OF_HEADERS("data")
      BY <1>3, Sizes DEF ERASURE_SHARD_START_OFFSET
  <2>2. IsHeader(HeaderFor(b, k), b, k)
      BY HeaderForIs
  <2>3. ByteOf(b, k, r, i) = HeaderByte("data", HeaderFor(b, k), i)
      BY <1>3, <2>1 DEF ByteOf
  <2> QED
      BY <1>3, <2>1, <2>2, <2>3 DEF IsHeader, HeaderByte
<1> QED
    BY <1>1, <1>2, <1>3

LEMMA StubIs ==
    ASSUME NEW b, NEW k, Place(b, k), NEW l, Place(b, l), TypeOf(b, l) = "code",
           NEW r, NEW last, IsShred(last, b, l, r)
    PROVE  IsStub(make_stub_shred(last, k), b, k, r)
<1> DEFINE type == TypeOf(b, k)
           v == VariantFor(b, k)
           size == SIZE_OF_PAYLOAD(type)
           headers == SIZE_OF_HEADERS(type)
           chained == get_chained_merkle_root_offset(v)
           proof == get_proof_offset(v)
           end == ProofEnd(v)
           header == StubHeader(last, k)
           p0 == IF type = "code" THEN Serialize(Zeros(size), type, header)
                 ELSE Write(Zeros(size), 0, SIZE_OF_SIGNATURE, header.signature)
           s0 == [type |-> type, header |-> header, payload |-> p0]
           s1 == set_chained_merkle_root(s0, "parent")
           s2 == IF b.resigned THEN SetRetransmitterSignature(s1, r) ELSE s1
<1>1. type \in Type /\ b.resigned \in BOOLEAN /\ (type = "data" \/ type = "code")
    BY PlaceIs DEF Type
<1>2. make_stub_shred(last, k) = s2
  <2>1. StubVariant(last, k).type = type
      BY StubVariantIs, VariantIs
  <2>2. chained_merkle_root(last).value = "parent"
      BY RootAndSignatureRead DEF Ok
  <2>3. retransmitter_signature(last) = IF b.resigned THEN Ok(r) ELSE Err("InvalidShredVariant")
      BY RootAndSignatureRead
  <2> HIDE DEF p0, header, type, size
  <2>4. make_stub_shred(last, k)
          = IF retransmitter_signature(last).ok
            THEN SetRetransmitterSignature(s1, retransmitter_signature(last).value) ELSE s1
      BY <2>1, <2>2 DEF make_stub_shred, p0, header, size
  <2> HIDE DEF s1
  <2> QED
      BY <1>1, <2>3, <2>4 DEF Ok, Err
<1>3. /\ DOMAIN header = DOMAIN HeaderFor(b, k)
      /\ \A name \in CommonNames : header[name] = HeaderFor(b, k)[name]
      /\ type = "code" => header = HeaderFor(b, k)
    BY StubHeaderIs
<1>4. /\ headers \in {88, 89}
      /\ chained \in Nat /\ proof \in Nat /\ end \in Nat /\ size \in Nat
      /\ headers < chained /\ proof = chained + 32 /\ proof <= end /\ end <= size
      /\ b.resigned => size = end + 64
      /\ ~b.resigned => size = end
      /\ get_retransmitter_signature_offset(v) = IF b.resigned THEN Ok(end) ELSE Err("InvalidShredVariant")
    BY PlacesOf
<1>5. IsHeader(HeaderFor(b, k), b, k)
    BY HeaderForIs
<1> HIDE DEF header
<1>6. header.signature = b.signature /\ header.shred_variant = VariantByte(v)
    BY <1>3, <1>5 DEF IsHeader, CommonNames
<1>7. IsSeq(Zeros(size)) /\ Len(Zeros(size)) = size
    BY <1>4, ZerosAre
<1>8. /\ IsSeq(p0) /\ Len(p0) = size
      /\ \A i \in 1..size :
           IF type = "code"
           THEN i <= SIZE_OF_HEADERS("code") => p0[i] = HeaderByte("code", HeaderFor(b, k), i)
           ELSE i <= 64 => p0[i] = <<0, 64, b.signature>>
  <2>1. CASE type = "code"
    <3> DEFINE w == Serialize(Zeros(size), type, header)
    <3>1. /\ IsSeq(w) /\ Len(w) = size
          /\ \A i \in 1..size : i <= SIZE_OF_HEADERS(type) => w[i] = HeaderByte(type, header, i)
        BY <1>1, <1>7, SerializeIs
    <3>2. p0 = w
        BY <2>1
    <3> HIDE DEF w, p0
    <3> QED
        BY <1>3, <2>1, <3>1, <3>2
  <2>2. CASE type # "code"
    <3>1. PICK o \in Nat : o = 0
        OBVIOUS
    <3> DEFINE w == Write(Zeros(size), o, 64, b.signature)
    <3>2. 64 \in Nat /\ o <= 64 /\ 64 <= Len(Zeros(size))
        BY <1>4, <1>7, <3>1
    <3>3. /\ IsSeq(w) /\ Len(w) = size
          /\ \A i \in 1..size : w[i] = IF o < i /\ i <= 64 THEN <<o, 64, b.signature>> ELSE Zeros(size)[i]
        BY <1>7, <3>2, WriteIs
    <3>4. p0 = w
        BY <1>6, <2>2, <3>1 DEF SIZE_OF_SIGNATURE
    <3> HIDE DEF w, p0
    <3>5. \A i \in 1..size : o < i
        BY <3>1
    <3> QED
        BY <2>2, <3>1, <3>3, <3>4, <3>5
  <2> QED
      BY <2>1, <2>2
<1> HIDE DEF p0
<1>9. IsRecord(s0) /\ s0.type = type /\ s0.header = header /\ s0.payload = p0
    BY DEF IsRecord
<1> HIDE DEF s0
<1>10. ASSUME NEW s, s.header = header PROVE Variant(s) = v
    BY <1>6, <1>10, ShredVariantIs
<1>11. IsRecord(s1) /\ s1.type = type /\ s1.header = header /\ s1.payload = Write(p0, chained, proof, "parent")
  <2>1. s1 = Put(s0, chained, proof, "parent")
      BY <1>9, <1>10 DEF set_chained_merkle_root
  <2> QED
      BY <1>9, <2>1, PutIs
<1> HIDE DEF s1
<1>12. /\ IsRecord(s2) /\ s2.type = type /\ s2.header = header
       /\ s2.payload = IF b.resigned THEN Write(s1.payload, end, end + 64, r) ELSE s1.payload
  <2>1. CASE b.resigned
    <3>1. s2 = Put(s1, end, end + 64, r)
        BY <1>4, <1>10, <1>11, <2>1 DEF SetRetransmitterSignature, Ok, SIZE_OF_SIGNATURE
    <3> HIDE DEF s2
    <3> QED
        BY <1>11, <2>1, <3>1, PutIs
  <2>2. CASE ~b.resigned
      BY <1>11, <2>2
  <2> QED
      BY <2>1, <2>2
<1> HIDE DEF s2, headers, chained, proof, end, size
<1> DEFINE p1 == s1.payload
           p2 == s2.payload
<1>13. /\ IsSeq(p1) /\ Len(p1) = size
       /\ \A i \in 1..size : p1[i] = IF chained < i /\ i <= proof THEN <<chained, proof, "parent">> ELSE p0[i]
  <2>1. chained <= proof /\ proof <= Len(p0)
      BY <1>4, <1>8
  <2> QED
      BY <1>4, <1>8, <1>11, <2>1, WriteIs
<1> HIDE DEF p1
<1>14. /\ IsSeq(p2) /\ Len(p2) = size
       /\ \A i \in 1..size : p2[i] = IF end < i THEN <<end, end + 64, r>> ELSE p1[i]
  <2>1. CASE b.resigned
    <3>1. end + 64 \in Nat /\ end <= end + 64 /\ end + 64 <= Len(p1) /\ size = end + 64
        BY <1>4, <1>13, <2>1
    <3>2. p2 = Write(p1, end, end + 64, r)
        BY <1>12, <2>1 DEF p1
    <3> HIDE DEF p2
    <3>3. /\ IsSeq(p2) /\ Len(p2) = size
          /\ \A i \in 1..size : p2[i] = IF end < i /\ i <= end + 64 THEN <<end, end + 64, r>> ELSE p1[i]
        BY <1>4, <1>13, <3>1, <3>2, WriteIs
    <3> QED
        BY <3>1, <3>3
  <2>2. CASE ~b.resigned
    <3>1. p2 = p1 /\ size = end
        BY <1>4, <1>12, <2>2 DEF p1
    <3>2. \A i \in 1..size : ~(end < i)
        BY <1>4, <3>1
    <3> QED
        BY <1>13, <3>1, <3>2
  <2> QED
      BY <2>1, <2>2
<1> HIDE DEF p2
<1>15. ASSUME NEW i \in 1..size, i <= ERASURE_SHARD_START_OFFSET(type) PROVE p2[i] = ByteOf(b, k, r, i)
  <2>1. ERASURE_SHARD_START_OFFSET(type) = (IF type = "code" THEN 89 ELSE 64)
        /\ (type = "code" => headers = 89)
      BY Sizes DEF ERASURE_SHARD_START_OFFSET, headers
  <2>2. ~(end < i) /\ ~(chained < i)
      BY <1>4, <1>15, <2>1
  <2>3. p2[i] = p0[i]
      BY <1>13, <1>14, <2>2
  <2>4. IF TypeOf(b, k) = "code"
        THEN i <= SIZE_OF_HEADERS("code") => p2[i] = HeaderByte("code", HeaderFor(b, k), i)
        ELSE i <= 64 => p2[i] = <<0, 64, b.signature>>
      BY <1>8, <2>3
  <2> QED
      BY <1>15, <2>4, StubHolds DEF size
<1>16. ASSUME NEW i \in 1..size, chained < i, i <= proof PROVE p2[i] = ByteOf(b, k, r, i)
  <2>1. ~(end < i) /\ ~(i <= headers) /\ ~(i <= chained)
      BY <1>4, <1>16
  <2>2. p2[i] = <<chained, proof, "parent">>
      BY <1>13, <1>14, <1>16, <2>1
  <2> QED
      BY <1>16, <2>1, <2>2 DEF ByteOf, headers, chained, proof
<1>17. ASSUME NEW i \in 1..size, end < i PROVE p2[i] = ByteOf(b, k, r, i)
  <2>1. p2[i] = <<end, end + 64, r>> /\ ~(i <= end) /\ i \in Nat
      BY <1>4, <1>14, <1>17
  <2> QED
      BY <2>1, LastBytesOf DEF end
<1>18. \A i \in 1..size :
         \/ i <= ERASURE_SHARD_START_OFFSET(type)
         \/ chained < i /\ i <= proof
         \/ end < i
         => p2[i] = ByteOf(b, k, r, i)
    BY <1>15, <1>16, <1>17
<1>19. IsStub(s2, b, k, r)
    BY <1>3, <1>12, <1>14, <1>18 DEF IsStub, p2, size, chained, proof, end
<1> QED
    BY <1>2, <1>19

(* What the codec puts into a stub's shard makes it the shred again.       *)
LEMMA RebuiltIs ==
    ASSUME NEW b, NEW k, Place(b, k), NEW r, NEW t, IsStub(t, b, k, r)
    PROVE  IsShred(Rebuilt(t, b, k), b, k, r) /\ HeaderFits(t, b, k)
<1> DEFINE type == TypeOf(b, k)
           v == VariantFor(b, k)
           size == SIZE_OF_PAYLOAD(type)
           headers == SIZE_OF_HEADERS(type)
           start == ERASURE_SHARD_START_OFFSET(type)
           chained == get_chained_merkle_root_offset(v)
           proof == get_proof_offset(v)
           end == ProofEnd(v)
           x == Original(b, k).payload
           shard == Slice(x, start, chained)
           p1 == WithShard(t, b, k)
           fields == Deserialize(p1, type)
           header == IF type = "code" THEN t.header ELSE [name \in DOMAIN fields |-> fields[name].value]
           s1 == [t EXCEPT !.payload = p1, !.header = header]
           s2 == set_merkle_proof(s1, ProofOf(b, k))
<1>1. type \in Type /\ (type = "data" \/ type = "code")
    BY PlaceIs DEF Type
<1>2. /\ headers \in {88, 89}
      /\ chained \in Nat /\ proof \in Nat /\ end \in Nat /\ size \in Nat
      /\ headers < chained /\ proof = chained + 32 /\ proof <= end /\ end <= size
    BY PlacesOf
<1>3. start \in Nat /\ start <= headers
    BY <1>1, Sizes DEF ERASURE_SHARD_START_OFFSET
<1>4. /\ IsRecord(t) /\ t.type = type
      /\ DOMAIN t.header = DOMAIN HeaderFor(b, k)
      /\ \A name \in CommonNames : t.header[name] = HeaderFor(b, k)[name]
      /\ type = "code" => t.header = HeaderFor(b, k)
      /\ IsSeq(t.payload) /\ Len(t.payload) = size
      /\ \A i \in 1..size :
           \/ i <= start
           \/ chained < i /\ i <= proof
           \/ end < i
           => t.payload[i] = ByteOf(b, k, r, i)
    BY DEF IsStub
<1>5. IsHeader(HeaderFor(b, k), b, k)
    BY HeaderForIs
<1>6. Variant(t) = v /\ Variant(t).type = type
  <2>1. t.header.shred_variant = VariantByte(v)
      BY <1>4, <1>5 DEF IsHeader, CommonNames
  <2> QED
      BY <2>1, ShredVariantIs, VariantIs
<1>7. IsSeq(x) /\ Len(x) = size /\ \A i \in 1..size : x[i] = ByteOf(b, k, "unsigned", i)
  <2>1. Carries(x, b, k, "unsigned")
      BY OriginalIs DEF IsShred
  <2> HIDE DEF x
  <2> QED
      BY <1>2, <2>1 DEF Carries, Begins
<1>8. p1 = Replace(t.payload, start, chained, shard)
    BY <1>6 DEF WithShard, erasure_shard_offsets
<1>9. Rebuilt(t, b, k) = s2
    BY <1>4 DEF Rebuilt, ProofOf
<1> HIDE DEF x
<1> HIDE DEF shard, p1, headers, start, chained, proof, end, size, v, fields, header, s1, s2
<1>10. /\ IsSeq(shard) /\ Len(shard) = chained - start
       /\ \A i \in 1..chained - start : shard[i] = x[start + i]
  <2>1. start <= chained /\ chained <= Len(x)
      BY <1>2, <1>3, <1>7
  <2> QED
      BY <1>2, <1>3, <1>7, <2>1, SliceIs DEF shard
<1>11. /\ IsSeq(p1) /\ Len(p1) = size
       /\ \A i \in 1..size : p1[i] = IF start < i /\ i <= chained THEN shard[i - start] ELSE t.payload[i]
  <2>1. start <= chained /\ chained <= Len(t.payload)
      BY <1>2, <1>3, <1>4
  <2> QED
      BY <1>2, <1>3, <1>4, <1>8, <1>10, <2>1, ReplaceIs
<1>12. ASSUME NEW i \in 1..size, i <= proof \/ end < i PROVE p1[i] = ByteOf(b, k, r, i)
  <2>1. CASE start < i /\ i <= chained
    <3>1. i - start \in 1..chained - start /\ start + (i - start) = i /\ i <= end
        BY <1>2, <1>3, <2>1
    <3>2. p1[i] = x[i]
        BY <1>10, <1>11, <2>1, <3>1
    <3> QED
        BY <1>7, <3>1, <3>2, SameBytesOf DEF end, v
  <2>2. CASE ~(start < i /\ i <= chained)
    <3>1. i <= start \/ (chained < i /\ i <= proof) \/ end < i
        BY <1>2, <1>3, <1>12, <2>2
    <3> QED
        BY <1>4, <1>11, <2>2, <3>1
  <2> QED
      BY <2>1, <2>2
<1>13. ReadsHeader(fields, HeaderFor(b, k))
  <2>1. /\ SIZE_OF_HEADERS(TypeOf(b, k)) <= Len(p1)
        /\ \A i \in 1..SIZE_OF_HEADERS(TypeOf(b, k)) : p1[i] = ByteOf(b, k, r, i)
    <3>1. headers <= size /\ \A i \in 1..headers : i \in 1..size /\ i <= proof
        BY <1>2
    <3>2. \A i \in 1..headers : p1[i] = ByteOf(b, k, r, i)
        BY <1>12, <3>1
    <3> QED
        BY <1>11, <3>1, <3>2 DEF headers
  <2> QED
      BY <1>11, <2>1, Deserialized DEF fields
<1>14. HeaderFits(t, b, k)
  <2> SUFFICES ASSUME t.type = "data" PROVE \A name \in Names(CommonFields) : fields[name] = Ok(t.header[name])
      BY <1>4 DEF HeaderFits, p1, fields
  <2>1. Names(CommonFields) = CommonNames
      BY NamesAre
  <2>2. CommonNames \subseteq DOMAIN HeaderFor(b, k)
      BY <1>5 DEF IsHeader
  <2> QED
      BY <1>4, <1>13, <2>1, <2>2 DEF ReadsHeader
<1>15. header = HeaderFor(b, k)
    BY <1>1, <1>4, <1>13 DEF ReadsHeader, header
<1>16. IsRecord(s1) /\ s1.type = type /\ s1.header = header /\ s1.payload = p1
    BY <1>4 DEF IsRecord, s1
<1>17. s2.type = type /\ s2.header = HeaderFor(b, k) /\ s2.payload = Write(p1, proof, end, ProofOf(b, k))
  <2>1. Variant(s1) = v
      BY <1>15, <1>16, HeaderOfShred DEF v
  <2>2. s2 = Put(s1, proof, end, ProofOf(b, k))
      BY <2>1 DEF set_merkle_proof, proof, end, s2
  <2> QED
      BY <1>15, <1>16, <2>2, PutIs
<1> DEFINE p2 == s2.payload
<1>18. /\ IsSeq(p2) /\ Len(p2) = size
       /\ \A i \in 1..size : p2[i] = IF proof < i /\ i <= end THEN <<proof, end, ProofOf(b, k)>> ELSE p1[i]
  <2>1. proof <= end /\ end <= Len(p1)
      BY <1>2, <1>11
  <2> QED
      BY <1>2, <1>11, <1>17, <2>1, WriteIs
<1> HIDE DEF p2
<1>19. ASSUME NEW i \in 1..size PROVE p2[i] = ByteOf(b, k, r, i)
  <2>1. CASE proof < i /\ i <= end
    <3>1. ~(i <= headers) /\ ~(i <= chained) /\ ~(i <= proof)
        BY <1>2, <2>1
    <3>2. p2[i] = <<proof, end, ProofOf(b, k)>>
        BY <1>18, <2>1
    <3> QED
        BY <2>1, <3>1, <3>2 DEF ByteOf, headers, chained, proof, end, v
  <2>2. CASE ~(proof < i /\ i <= end)
    <3>1. i <= proof \/ end < i
        BY <1>2, <2>2
    <3> QED
        BY <1>12, <1>18, <2>2, <3>1
  <2> QED
      BY <2>1, <2>2
<1>20. Carries(p2, b, k, r)
    BY <1>18, <1>19 DEF Carries, Begins, size
<1>21. IsShred(s2, b, k, r)
    BY <1>17, <1>20 DEF IsShred, p2
<1> QED
    BY <1>9, <1>14, <1>21

-----------------------------------------------------------------------------
(* The inductive invariant: what is stored is a shred of some block,       *)
(* signed last by a relay or by none, and what is in flight begins like    *)
(* one.                                                                    *)
Signers == Relays \cup {"unsigned"}

ShredOf(s) ==
    \E b \in Blocks : \E k \in 1..NumShreds(b), r \in Signers : IsShred(s, b, k, r)
PacketOf(buf) ==
    \E b \in Blocks : \E k \in 1..NumShreds(b), r \in Signers : Begins(buf, b, k, r)

WireInv == (\A s \in store : ShredOf(s)) /\ (packet = NoPacket \/ PacketOf(packet))

LEMMA ShredOfPlace ==
    ASSUME NEW s, ShredOf(s)
    PROVE  \E b \in Blocks : \E k, r : Place(b, k) /\ r \in Signers /\ IsShred(s, b, k, r)
BY DEF ShredOf, Place

LEMMA SignatureOf ==
    ASSUME NEW b, NEW k, Place(b, k), NEW r, NEW s, IsShred(s, b, k, r)
    PROVE  s.header.signature = b.signature
<1>1. IsHeader(s.header, b, k)
    BY HeaderOfShred DEF IsShred
<1> QED
    BY <1>1 DEF IsHeader

LEMMA ShredOfBlock ==
    ASSUME NEW b \in Blocks, NEW s, ShredOf(s), s.header.signature = b.signature
    PROVE  \E k, r : Place(b, k) /\ r \in Signers /\ IsShred(s, b, k, r)
<1>1. PICK c, k, r : c \in Blocks /\ Place(c, k) /\ r \in Signers /\ IsShred(s, c, k, r)
    BY ShredOfPlace
<1>2. s.header.signature = c.signature
    BY <1>1, SignatureOf
<1>3. c = b
    BY <1>1, <1>2, BlockAssumption
<1> QED
    BY <1>1, <1>3

LEMMA SentIs ==
    ASSUME NEW b, NEW k, Place(b, k), NEW len \in Nat
    PROVE  LET x == Original(b, k).payload
           IN  Begins(Slice(x \o Span(Len(x), len, "nonce"), 0, len), b, k, "unsigned")
<1> DEFINE x == Original(b, k).payload
           size == SIZE_OF_PAYLOAD(TypeOf(b, k))
           pad == Span(size, len, "nonce")
           y == x \o pad
           p == Slice(y, 0, len)
<1>1. Carries(x, b, k, "unsigned")
    BY OriginalIs DEF IsShred
<1>2. size \in Nat
    BY PlacesOf
<1> HIDE DEF x
<1>3. IsSeq(x) /\ Len(x) = size /\ \A i \in 1..size : x[i] = ByteOf(b, k, "unsigned", i)
    BY <1>1, <1>2 DEF Carries, Begins
<1>4. IsSeq(pad) /\ Len(pad) \in Nat /\ len <= size + Len(pad)
  <2>1. CASE size <= len
    <3>1. IsSeq(pad) /\ Len(pad) = len - size
        BY <1>2, <2>1, SpanIs
    <3> HIDE DEF pad, size
    <3> QED
        BY <1>2, <2>1, <3>1
  <2>2. CASE ~(size <= len)
    <3> DEFINE n == len - size
               byte == <<size, len, "nonce">>
    <3>1. 1..n = 1..0
        BY <1>2, <2>2
    <3>2. pad = [i \in 1..n |-> byte]
        BY DEF Span
    <3> HIDE DEF n, byte
    <3>3. pad = [i \in 1..0 |-> byte]
        BY <3>1, <3>2
    <3>4. pad = [i \in 1..0 |-> pad[i]]
        BY <3>3
    <3>5. IsSeq(pad) /\ Len(pad) = 0
      <4> HIDE DEF pad
      <4>1. PICK o \in Nat : o = 0
          OBVIOUS
      <4> QED
          BY <3>4, <4>1, FunctionIsSeq
    <3> HIDE DEF pad, size
    <3> QED
        BY <1>2, <2>2, <3>5
  <2> QED
      BY <2>1, <2>2
<1> HIDE DEF pad, size
<1>5. /\ IsSeq(y) /\ Len(y) = Len(x) + Len(pad)
      /\ \A i \in 1..Len(x) : y[i] = x[i]
    BY <1>3, <1>4, Joined, Zenon
<1> HIDE DEF y
<1>6. IsSeq(p) /\ Len(p) = len /\ \A i \in 1..len : p[i] = y[i]
  <2>1. len <= Len(y)
      BY <1>3, <1>4, <1>5
  <2> QED
      BY <1>5, <2>1, PrefixIs
<1> HIDE DEF p
<1>7. ASSUME NEW i \in 1..Len(p), i <= size PROVE p[i] = ByteOf(b, k, "unsigned", i)
  <2>1. i \in 1..size /\ i \in 1..len
      BY <1>2, <1>6, <1>7
  <2> QED
      BY <1>3, <1>5, <1>6, <2>1
<1>8. Begins(p, b, k, "unsigned")
    BY <1>6, <1>7 DEF Begins, size
<1> QED
    BY <1>3, <1>8 DEF p, y, pad, x

(* recover's last coding shred is one of the block's. *)
LastCode(shreds) ==
    CHOOSE s \in {x \in shreds : x.type = "code"} :
      \A t \in {x \in shreds : x.type = "code"} : t.header.index <= s.header.index

LEMMA CodeIndex ==
    ASSUME NEW b, NEW k, Place(b, k), NEW r, NEW s, IsShred(s, b, k, r), s.type = "code"
    PROVE  /\ TypeOf(b, k) = "code"
           /\ s.header.index \in Nat /\ s.header.index - FirstCoding + 1 \in 1..b.num_coding
<1>1. TypeOf(b, k) = "code"
    BY DEF IsShred
<1>2. IsHeader(s.header, b, k)
    BY HeaderOfShred DEF IsShred
<1>3. /\ b.num_data \in Nat /\ b.num_coding \in Nat /\ k \in Nat /\ k <= b.num_data + b.num_coding
      /\ ~(k <= b.num_data) /\ FirstCoding \in Nat
  <2>1. /\ b.num_data \in Nat \ {0} /\ b.num_coding \in Nat \ {0} /\ k \in Nat /\ k <= NumShreds(b)
        /\ NumShreds(b) = b.num_data + b.num_coding /\ FirstCoding \in Nat
        /\ (TypeOf(b, k) = "code" <=> ~(k <= b.num_data))
      BY PlaceIs
  <2> QED
      BY <1>1, <2>1
<1>4. s.header.index = FirstCoding + k - b.num_data - 1
    BY <1>2, <1>3 DEF IsHeader, IndexFor
<1> QED
    BY <1>1, <1>3, <1>4

LEMMA LastCodeIs ==
    ASSUME NEW b \in Blocks, NEW shreds, \A s \in shreds : ShredOf(s), Enough(b, shreds)
    PROVE  /\ LastCode(shreds) \in shreds
           /\ \E l, r : /\ Place(b, l) /\ TypeOf(b, l) = "code" /\ r \in Signers
                        /\ IsShred(LastCode(shreds), b, l, r)
<1> DEFINE codes == {x \in shreds : x.type = "code"}
           I == {s.header.index - FirstCoding + 1 : s \in codes}
<1>1. codes # {} /\ \A s \in shreds : s.header.signature = b.signature
    BY DEF Enough
<1>2. ASSUME NEW s \in codes
      PROVE  /\ s.header.index \in Nat /\ s.header.index - FirstCoding + 1 \in 1..b.num_coding
             /\ \E l, r : Place(b, l) /\ TypeOf(b, l) = "code" /\ r \in Signers /\ IsShred(s, b, l, r)
  <2>1. PICK l, r : Place(b, l) /\ r \in Signers /\ IsShred(s, b, l, r)
      BY <1>1, ShredOfBlock
  <2> QED
      BY <2>1, CodeIndex
<1>3. b.num_coding \in Nat /\ FirstCoding \in Nat
    BY BlockAssumption
<1>4. I \in SUBSET (1..b.num_coding) /\ I # {}
    BY <1>1, <1>2
<1>5. Max(I) \in I /\ \A i \in I : i <= Max(I)
    BY <1>3, <1>4, MaxOf
<1>6. PICK s \in codes : Max(I) = s.header.index - FirstCoding + 1
    BY <1>5
<1>7. ASSUME NEW t \in codes PROVE t.header.index <= s.header.index
  <2>1. t.header.index - FirstCoding + 1 <= s.header.index - FirstCoding + 1
      BY <1>5, <1>6
  <2> QED
      BY <1>2, <1>3, <2>1
<1>8. LastCode(shreds) \in codes
  <2>1. \E u \in codes : \A t \in codes : t.header.index <= u.header.index
      BY <1>7
  <2>2. LastCode(shreds) = CHOOSE u \in codes : \A t \in codes : t.header.index <= u.header.index
      BY DEF LastCode
  <2> HIDE DEF codes
  <2> QED
      BY <2>1, <2>2
<1> QED
    BY <1>2, <1>8

LEMMA StubsAre ==
    ASSUME NEW b \in Blocks, NEW shreds, \A s \in shreds : ShredOf(s), Enough(b, shreds)
    PROVE  \E r \in Signers :
             /\ DOMAIN Stubs(b, shreds) = Missing(b, shreds)
             /\ \A k \in Missing(b, shreds) : Place(b, k) /\ IsStub(Stubs(b, shreds)[k], b, k, r)
<1> DEFINE last == LastCode(shreds)
<1>1. PICK l, r : Place(b, l) /\ TypeOf(b, l) = "code" /\ r \in Signers /\ IsShred(last, b, l, r)
    BY LastCodeIs
<1>2. Stubs(b, shreds) = [k \in Missing(b, shreds) |-> make_stub_shred(last, k)]
    BY DEF Stubs, LastCode
<1> HIDE DEF last
<1>3. ASSUME NEW k \in Missing(b, shreds) PROVE Place(b, k) /\ IsStub(make_stub_shred(last, k), b, k, r)
  <2>1. Place(b, k)
      BY DEF Missing, Place
  <2> QED
      BY <1>1, <2>1, StubIs
<1> QED
    BY <1>1, <1>2, <1>3

WireInit == Init => WireInv
WireNext == WireInv /\ [Next]_vars => WireInv'

LEMMA WireStarts == WireInit
BY DEF WireInit, Init, WireInv

LEMMA PacketIs ==
    ASSUME NEW b, NEW k, Place(b, k), NEW r \in Signers, NEW buf, Begins(buf, b, k, r)
    PROVE  PacketOf(buf)
BY DEF Place, PacketOf

LEMMA PlaceOfPacket ==
    ASSUME NEW buf, PacketOf(buf)
    PROVE  \E b, k, r : Place(b, k) /\ r \in Signers /\ Begins(buf, b, k, r)
BY DEF PacketOf, Place

LEMMA StoredIs ==
    ASSUME NEW b, NEW k, Place(b, k), NEW r \in Signers, NEW s, IsShred(s, b, k, r)
    PROVE  ShredOf(s)
BY DEF Place, ShredOf

LEMMA SendStep ==
    ASSUME WireInv, NEW b \in Blocks, NEW len \in BufferSizes, NEW k \in 1..NumShreds(b), Send(b, k, len)
    PROVE  WireInv'
<1>1. Place(b, k)
    BY DEF Place
<1>2. len \in Nat
    BY BlockAssumption
<1>3. Begins(packet', b, k, "unsigned")
    BY <1>1, <1>2, SentIs DEF Send
<1>4. PacketOf(packet')
  <2>1. "unsigned" \in Signers
      BY DEF Signers
  <2> QED
      BY <1>1, <1>3, <2>1, PacketIs
<1> QED
    BY <1>4 DEF WireInv, Send

LEMMA ResignStep ==
    ASSUME WireInv, NEW signature \in Relays, Resign(signature)
    PROVE  WireInv'
<1>1. PacketOf(packet)
    BY DEF WireInv, Resign
<1>2. PICK b, k, r : Place(b, k) /\ r \in Signers /\ Begins(packet, b, k, r)
    BY <1>1, PlaceOfPacket
<1>3. Place(b, k)
    BY <1>2
<1>4. \E q \in {r, signature} : Begins(packet', b, k, q)
    BY <1>2, <1>3, ResignKeeps DEF Resign
<1>5. PacketOf(packet')
  <2>1. r \in Signers /\ signature \in Signers
      BY <1>2 DEF Signers
  <2> QED
      BY <1>3, <1>4, <2>1, PacketIs
<1> QED
    BY <1>5 DEF WireInv, Resign

LEMMA ReceiveStep ==
    ASSUME WireInv, Receive
    PROVE  WireInv'
<1>1. packet' = NoPacket
    BY DEF Receive
<1>2. ASSUME Parses(packet), NEW given \in {packet, get_shred_from_buf(packet)}, store' = store \cup {Parsed(given)}
      PROVE  \A s \in store' : ShredOf(s)
  <2>1. PacketOf(packet)
      BY DEF WireInv, Receive
  <2>2. PICK b, k, r : Place(b, k) /\ r \in Signers /\ Begins(packet, b, k, r)
      BY <2>1, PlaceOfPacket
  <2>3. Place(b, k) /\ r \in Signers
      BY <2>2
  <2>4. HasShred(packet)
      BY <1>2 DEF Parses
  <2>5. IsShred(Parsed(given), b, k, r)
      BY <1>2, <2>2, <2>3, <2>4, ReceivedIs
  <2>6. ShredOf(Parsed(given))
      BY <2>3, <2>5, StoredIs
  <2> QED
      BY <1>2, <2>6 DEF WireInv
<1>3. \A s \in store' : ShredOf(s)
    BY <1>2 DEF Receive, WireInv
<1> QED
    BY <1>1, <1>3 DEF WireInv

LEMMA RecoverStep ==
    ASSUME WireInv, NEW b \in Blocks, NEW shreds \in SUBSET store, Recover(b, shreds)
    PROVE  WireInv'
<1> DEFINE stubs == Stubs(b, shreds)
<1>1. \A s \in shreds : ShredOf(s)
    BY DEF WireInv
<1>2. Enough(b, shreds) /\ store' = store \cup {Rebuilt(stubs[k], b, k) : k \in DOMAIN stubs}
    BY DEF Recover
<1>3. PICK r \in Signers :
        /\ DOMAIN stubs = Missing(b, shreds)
        /\ \A k \in Missing(b, shreds) : Place(b, k) /\ IsStub(stubs[k], b, k, r)
    BY <1>1, <1>2, StubsAre
<1> HIDE DEF stubs
<1>4. ASSUME NEW k \in DOMAIN stubs PROVE ShredOf(Rebuilt(stubs[k], b, k))
  <2>1. Place(b, k) /\ IsStub(stubs[k], b, k, r)
      BY <1>3
  <2>2. IsShred(Rebuilt(stubs[k], b, k), b, k, r)
      BY <2>1, RebuiltIs
  <2> QED
      BY <2>1, <2>2, StoredIs
<1>5. \A s \in store' : ShredOf(s)
    BY <1>2, <1>4 DEF WireInv
<1> QED
    BY <1>5 DEF WireInv, Recover

LEMMA WireStep == WireNext
<1> SUFFICES ASSUME WireInv, [Next]_vars PROVE WireInv'
    BY DEF WireNext
<1>1. ASSUME NEW b \in Blocks, NEW len \in BufferSizes, NEW k \in 1..NumShreds(b), Send(b, k, len) PROVE WireInv'
    BY <1>1, SendStep
<1>2. ASSUME NEW r \in Relays, Resign(r) PROVE WireInv'
    BY <1>2, ResignStep
<1>3. CASE Receive
    BY <1>3, ReceiveStep
<1>4. ASSUME NEW b \in Blocks, NEW shreds \in SUBSET store, Recover(b, shreds) PROVE WireInv'
    BY <1>4, RecoverStep
<1>5. CASE Discard
    BY <1>5 DEF Discard, WireInv
<1>6. CASE UNCHANGED vars
    BY <1>6 DEF vars, WireInv
<1> QED
    BY <1>1, <1>2, <1>3, <1>4, <1>5, <1>6 DEF Next

(* Whatever relays, buffers and recovery do, what is stored is a shred as  *)
(* its leader sent it, byte by byte, but for the signature of a relay.     *)
THEOREM StoredAreShreds == Spec => []WireInv
<1>1. Init => WireInv
    BY WireStarts DEF WireInit
<1>2. WireInv /\ [Next]_vars => WireInv'
    BY WireStep DEF WireNext
<1> QED
    BY <1>1, <1>2, PTL DEF Spec

-----------------------------------------------------------------------------
(* What the getters read from the payload of a shred.                      *)
LEMMA ReadOf ==
    ASSUME NEW b, NEW k, Place(b, k), NEW r, NEW s, IsShred(s, b, k, r),
           NEW from, NEW to, NEW value, Part(b, k, r, from, to, value)
    PROVE  ReadAt(s.payload, from, to) = Ok(value)
<1> DEFINE size == SIZE_OF_PAYLOAD(TypeOf(b, k))
<1>1. Begins(s.payload, b, k, r) /\ Len(s.payload) = size
    BY DEF IsShred, Carries
<1>2. to \in Nat /\ to <= size
    BY DEF Part
<1>3. size \in Nat
    BY PlacesOf
<1> HIDE DEF size
<1>4. ~(to > Len(s.payload))
    BY <1>1, <1>2, <1>3
<1>5. ReadAt(s.payload, from, to) = IF to > Len(s.payload) THEN Err("InvalidPayloadSize") ELSE Ok(value)
    BY <1>1, ReadPart
<1> QED
    BY <1>4, <1>5

LEMMA VariantOfShred ==
    ASSUME NEW b, NEW k, Place(b, k), NEW r, NEW s, IsShred(s, b, k, r)
    PROVE  get_shred_variant(s.payload) = Ok(VariantFor(b, k)) /\ Variant(s) = VariantFor(b, k)
<1>1. Part(b, k, r, 64, 65, VariantByte(VariantFor(b, k)))
    BY HeaderParts
<1>2. ReadAt(s.payload, 64, 65) = Ok(VariantByte(VariantFor(b, k)))
    BY <1>1, ReadOf
<1>3. VariantOf(VariantByte(VariantFor(b, k))) = Ok(VariantFor(b, k))
    BY VariantIs
<1>4. get_shred_variant(s.payload) = Ok(VariantFor(b, k))
  <2> DEFINE byte == VariantByte(VariantFor(b, k))
  <2> HIDE DEF byte
  <2>1. Ok(byte).ok /\ Ok(byte).value = byte
      BY DEF Ok
  <2>2. get_shred_variant(s.payload) = IF Ok(byte).ok THEN VariantOf(Ok(byte).value) ELSE Ok(byte)
      BY <1>2 DEF get_shred_variant, byte
  <2> QED
      BY <1>3, <2>1, <2>2 DEF byte
<1>5. Variant(s) = VariantFor(b, k)
    BY HeaderOfShred DEF IsShred
<1> QED
    BY <1>4, <1>5

LEMMA OnlyOfIs ==
    ASSUME NEW b, NEW k, Place(b, k), NEW r, NEW s, IsShred(s, b, k, r), NEW result
    PROVE  OnlyOf(TypeOf(b, k), s.payload, result) = result
<1>1. get_shred_variant(s.payload) = Ok(VariantFor(b, k)) /\ VariantFor(b, k).type = TypeOf(b, k)
    BY VariantOfShred, VariantIs
<1> QED
    BY <1>1 DEF OnlyOf, Ok

CommonRead(s) ==
    /\ get_shred_id(s.payload) = Ok(id(s))
    /\ get_signature(s.payload) = Ok(s.header.signature)
    /\ get_version(s.payload) = Ok(s.header.version)
    /\ get_fec_set_index(s.payload) = Ok(s.header.fec_set_index)
    /\ get_chained_merkle_root(s.payload) = chained_merkle_root(s)
    /\ get_retransmitter_signature(s.payload) = retransmitter_signature(s)

DataRead(s) ==
    /\ get_parent_offset(s.payload) = Ok(s.header.parent_offset)
    /\ get_flags(s.payload) = Ok(s.header.flags)
    /\ get_data_size(s.payload) = Ok(s.header.size)
    /\ get_reference_tick(s.payload) = Ok(reference_tick(s))
    /\ get_data(s.payload) = data(s)

CodeRead(s) ==
    get_erasure_config(s.payload) = Ok(<<s.header.num_data_shreds, s.header.num_coding_shreds>>)

LEMMA CommonGetters ==
    ASSUME NEW b, NEW k, Place(b, k), NEW r, NEW s, IsShred(s, b, k, r)
    PROVE  CommonRead(s)
<1> DEFINE p == s.payload
           v == VariantFor(b, k)
<1>1. IsHeader(s.header, b, k) /\ s.type = TypeOf(b, k) /\ v.type = TypeOf(b, k)
    BY HeaderOfShred, VariantIs DEF IsShred
<1>2. get_shred_variant(p) = Ok(v) /\ Variant(s) = v
    BY VariantOfShred
<1>3. /\ ReadAt(p, 0, 64) = Ok(b.signature) /\ ReadAt(p, 65, 73) = Ok(Slot)
      /\ ReadAt(p, 73, 77) = Ok(IndexFor(b, k)) /\ ReadAt(p, 77, 79) = Ok(Version)
      /\ ReadAt(p, 79, 83) = Ok(FecSetIndex)
  <2>1. /\ Part(b, k, r, 0, 64, b.signature) /\ Part(b, k, r, 65, 73, Slot)
        /\ Part(b, k, r, 73, 77, IndexFor(b, k)) /\ Part(b, k, r, 77, 79, Version)
        /\ Part(b, k, r, 79, 83, FecSetIndex)
      BY HeaderParts
  <2> QED
      BY <2>1, ReadOf
<1>4. 65 + 8 = 73 /\ 73 + 4 = 77 /\ 77 + 2 = 79 /\ 79 + 4 = 83
    OBVIOUS
<1> HIDE DEF p, v
<1>5. /\ get_slot(p) = Ok(Slot) /\ get_index(p) = Ok(IndexFor(b, k)) /\ get_version(p) = Ok(Version)
      /\ get_fec_set_index(p) = Ok(FecSetIndex) /\ get_signature(p) = Ok(b.signature)
    BY <1>3, <1>4 DEF get_slot, get_index, get_version, get_fec_set_index, get_signature
<1>6. get_shred_id(p) = Ok(id(s))
  <2>1. id(s) = <<Slot, IndexFor(b, k), TypeOf(b, k)>>
      BY <1>1 DEF id, IsHeader
  <2>2. \A x : Ok(x).ok /\ Ok(x).value = x
      BY DEF Ok
  <2> QED
      BY <1>1, <1>2, <1>5, <2>1, <2>2 DEF get_shred_id
<1>7. get_chained_merkle_root(p) = chained_merkle_root(s)
    BY <1>2 DEF get_chained_merkle_root, chained_merkle_root, Ok, p
<1>8. get_retransmitter_signature(p) = retransmitter_signature(s)
    BY <1>2 DEF get_retransmitter_signature, retransmitter_signature, Ok, p,
                get_retransmitter_signature_offset, Err
<1>9. /\ get_signature(p) = Ok(s.header.signature) /\ get_version(p) = Ok(s.header.version)
      /\ get_fec_set_index(p) = Ok(s.header.fec_set_index)
    BY <1>1, <1>5 DEF IsHeader
<1> QED
    BY <1>6, <1>7, <1>8, <1>9 DEF CommonRead, p

LEMMA DataGetters ==
    ASSUME NEW b, NEW k, Place(b, k), NEW r, NEW s, IsShred(s, b, k, r), s.type = "data"
    PROVE  DataRead(s)
<1> DEFINE p == s.payload
           v == VariantFor(b, k)
<1>1. IsHeader(s.header, b, k) /\ TypeOf(b, k) = "data"
    BY HeaderOfShred DEF IsShred
<1>2. get_shred_variant(p) = Ok(v) /\ Variant(s) = v
    BY VariantOfShred
<1>3. /\ ReadAt(p, 83, 85) = Ok(1) /\ ReadAt(p, 85, 86) = Ok(69) /\ ReadAt(p, 86, 88) = Ok(89)
  <2>1. Part(b, k, r, 83, 85, 1) /\ Part(b, k, r, 85, 86, 69) /\ Part(b, k, r, 86, 88, 89)
      BY <1>1, HeaderParts
  <2> QED
      BY <2>1, ReadOf
<1>4. \A result : OnlyOf("data", p, result) = result
    BY <1>1, OnlyOfIs
<1>5. s.header.parent_offset = 1 /\ s.header.flags = 69 /\ s.header.size = 89
    BY <1>1 DEF IsHeader
<1>6. 83 + 2 = 85 /\ 85 + 1 = 86 /\ 86 + 2 = 88
    OBVIOUS
<1> HIDE DEF p, v
<1>7. /\ get_parent_offset(p) = Ok(1) /\ get_data_size(p) = Ok(89)
    BY <1>3, <1>6 DEF get_parent_offset, get_data_size
<1>8. get_flags(p) = Ok(69)
    BY <1>3, <1>4, <1>6 DEF get_flags
<1>9. get_reference_tick(p) = Ok(reference_tick(s))
  <2>1. get_reference_tick(p) = IF Ok(69).ok THEN Ok(Ok(69).value % 64) ELSE Ok(69)
      BY <1>3, <1>4 DEF get_reference_tick
  <2>2. get_reference_tick(p) = Ok(69 % 64)
      BY <2>1 DEF Ok
  <2>3. reference_tick(s) = 69 % 64
      BY <1>5 DEF reference_tick
  <2> QED
      BY <2>2, <2>3
<1>10. get_data(p) = data(s)
  <2>1. get_data(p) = IF Ok(89).ok THEN DataUpTo(p, Ok(v).value, Ok(89).value) ELSE Ok(89)
      BY <1>2, <1>4, <1>7 DEF get_data
  <2>2. get_data(p) = DataUpTo(p, v, 89)
      BY <2>1 DEF Ok
  <2> QED
      BY <1>2, <1>5, <2>2 DEF data, p
<1> QED
    BY <1>5, <1>7, <1>8, <1>9, <1>10 DEF DataRead, p

LEMMA CodeGetters ==
    ASSUME NEW b, NEW k, Place(b, k), NEW r, NEW s, IsShred(s, b, k, r), s.type = "code"
    PROVE  CodeRead(s)
<1> DEFINE p == s.payload
<1>1. IsHeader(s.header, b, k) /\ TypeOf(b, k) = "code"
    BY HeaderOfShred DEF IsShred
<1>2. ReadAt(p, 83, 85) = Ok(b.num_data) /\ ReadAt(p, 85, 87) = Ok(b.num_coding)
  <2>1. Part(b, k, r, 83, 85, b.num_data) /\ Part(b, k, r, 85, 87, b.num_coding)
      BY <1>1, HeaderParts
  <2> QED
      BY <2>1, ReadOf
<1>3. \A result : OnlyOf("code", p, result) = result
    BY <1>1, OnlyOfIs
<1>4. s.header.num_data_shreds = b.num_data /\ s.header.num_coding_shreds = b.num_coding
    BY <1>1 DEF IsHeader
<1>5. 83 + 2 = 85 /\ 85 + 2 = 87
    OBVIOUS
<1>7. get_shred_variant(p).ok
  <2>1. get_shred_variant(p) = Ok(VariantFor(b, k))
      BY VariantOfShred
  <2>2. \A x : Ok(x).ok
      BY DEF Ok
  <2> QED
      BY <2>1, <2>2
<1> HIDE DEF p
<1>6. get_erasure_config(p) = Ok(<<b.num_data, b.num_coding>>)
  <2>1. \A x : Ok(x).ok /\ Ok(x).value = x
      BY DEF Ok
  <2> QED
      BY <1>2, <1>3, <1>5, <1>7, <2>1 DEF get_erasure_config
<1> QED
    BY <1>4, <1>6 DEF CodeRead, p

(* From every state on, the getters of wire.rs read from the bytes of a    *)
(* shred what the parser and recover keep in its headers.                  *)
THEOREM GettersAgree == Spec => []GettersAgreeWithHeaders
<1>1. WireInv => GettersAgreeWithHeaders
  <2> SUFFICES ASSUME WireInv, NEW s \in store
               PROVE  CommonRead(s) /\ (s.type = "data" => DataRead(s)) /\ (s.type = "code" => CodeRead(s))
      BY DEF GettersAgreeWithHeaders, CommonRead, DataRead, CodeRead
  <2>1. PICK b, k, r : Place(b, k) /\ IsShred(s, b, k, r)
      BY ShredOfPlace DEF WireInv
  <2> QED
      BY <2>1, CommonGetters, DataGetters, CodeGetters
<1> QED
    BY <1>1, StoredAreShreds, PTL

(* Enough shreds of a block always recover the others: reconstruct gets    *)
(* shards of one length, and recover the headers it has put into the stubs.*)
THEOREM EnoughRecover == Spec => []EnoughShredsRecover
<1>1. ASSUME WireInv, NEW b \in Blocks, NEW shreds \in SUBSET store, Enough(b, shreds)
      PROVE  Reconstructs(b, shreds, Stubs(b, shreds))
  <2> DEFINE stubs == Stubs(b, shreds)
  <2>1. \A s \in shreds : ShredOf(s)
      BY <1>1 DEF WireInv
  <2>2. PICK r \in Signers :
          /\ DOMAIN stubs = Missing(b, shreds)
          /\ \A k \in Missing(b, shreds) : Place(b, k) /\ IsStub(stubs[k], b, k, r)
      BY <1>1, <2>1, StubsAre
  <2> HIDE DEF stubs
  <2>3. ASSUME NEW s \in shreds, NEW k \in DOMAIN stubs PROVE ShardLength(s) = ShardLength(stubs[k])
    <3>1. PICK l, q : Place(b, l) /\ IsShred(s, b, l, q)
      <4>1. s.header.signature = b.signature
          BY <1>1 DEF Enough
      <4> QED
          BY <2>1, <4>1, ShredOfBlock
    <3>2. Variant(s) = VariantFor(b, l)
        BY <3>1, VariantOfShred
    <3>3. Place(b, k) /\ IsStub(stubs[k], b, k, r)
        BY <2>2
    <3>4. Variant(stubs[k]) = VariantFor(b, k)
      <4>1. stubs[k].header["shred_variant"] = HeaderFor(b, k)["shred_variant"]
          BY <3>3 DEF IsStub, CommonNames
      <4>2. IsHeader(HeaderFor(b, k), b, k)
          BY <3>3, HeaderForIs
      <4>3. stubs[k].header.shred_variant = VariantByte(VariantFor(b, k))
          BY <4>1, <4>2 DEF IsHeader
      <4> QED
          BY <3>3, <4>3, ShredVariantIs
    <3>5. /\ VariantFor(b, l) \in ShredVariant /\ VariantFor(b, k) \in ShredVariant
          /\ VariantFor(b, l).proof_size = VariantFor(b, k).proof_size
          /\ VariantFor(b, l).resigned = VariantFor(b, k).resigned
        BY <3>1, <3>3, VariantIs
    <3>6. erasure_shard_offsets(VariantFor(b, l))[2] - erasure_shard_offsets(VariantFor(b, l))[1]
            = erasure_shard_offsets(VariantFor(b, k))[2] - erasure_shard_offsets(VariantFor(b, k))[1]
        BY <3>5, ShardsAlign
    <3> QED
        BY <3>2, <3>4, <3>6 DEF ShardLength
  <2>4. ASSUME NEW k \in DOMAIN stubs PROVE HeaderFits(stubs[k], b, k)
      BY <2>2, RebuiltIs
  <2> QED
      BY <2>3, <2>4 DEF Reconstructs, stubs
<1>2. WireInv => EnoughShredsRecover
    BY <1>1 DEF EnoughShredsRecover
<1> QED
    BY <1>2, StoredAreShreds, PTL

LEMMA FirstCodingIs ==
    ASSUME NEW b, NEW k, Place(b, k), NEW r, NEW s, IsShred(s, b, k, r), s.type = "code"
    PROVE  /\ s.header.num_data_shreds = b.num_data /\ s.header.num_coding_shreds = b.num_coding
           /\ first_coding_index(s) = FirstCoding
<1>1. IsHeader(s.header, b, k) /\ TypeOf(b, k) = "code"
    BY HeaderOfShred DEF IsShred
<1>2. /\ b.num_data \in Nat /\ k \in Nat /\ FirstCoding \in Nat
      /\ (TypeOf(b, k) = "code" <=> ~(k <= b.num_data))
    BY PlaceIs
<1>3. s.header.index = FirstCoding + k - b.num_data - 1 /\ s.header.position = k - b.num_data - 1
    BY <1>1, <1>2 DEF IsHeader, IndexFor
<1>4. first_coding_index(s) = FirstCoding
    BY <1>2, <1>3 DEF first_coding_index
<1> QED
    BY <1>1, <1>4 DEF IsHeader

(* Coding shreds of an erasure set never mismatch but for a fork.          *)
THEOREM MismatchIsFork == Spec => []MismatchesAreForks
<1>1. ASSUME WireInv, NEW s \in store, s.type = "code", NEW t \in store, t.type = "code"
      PROVE  erasure_mismatch(s, t) <=> s.header.signature # t.header.signature
  <2>1. CASE s.header.signature # t.header.signature
      BY <2>1 DEF erasure_mismatch
  <2>2. CASE s.header.signature = t.header.signature
    <3>1. PICK b, k, r : b \in Blocks /\ Place(b, k) /\ IsShred(s, b, k, r)
        BY <1>1, ShredOfPlace DEF WireInv
    <3>2. s.header.signature = b.signature
        BY <3>1, SignatureOf
    <3>3. PICK l, q : Place(b, l) /\ IsShred(t, b, l, q)
        BY <1>1, <2>2, <3>1, <3>2, ShredOfBlock DEF WireInv
    <3>4. /\ s.header.num_data_shreds = b.num_data /\ s.header.num_coding_shreds = b.num_coding
          /\ first_coding_index(s) = FirstCoding
        BY <1>1, <3>1, FirstCodingIs
    <3>5. /\ t.header.num_data_shreds = b.num_data /\ t.header.num_coding_shreds = b.num_coding
          /\ first_coding_index(t) = FirstCoding
        BY <1>1, <3>3, FirstCodingIs
    <3> QED
        BY <2>2, <3>4, <3>5 DEF erasure_mismatch
  <2> QED
      BY <2>1, <2>2
<1>2. WireInv => MismatchesAreForks
    BY <1>1 DEF MismatchesAreForks
<1> QED
    BY <1>2, StoredAreShreds, PTL

-----------------------------------------------------------------------------
(* Merkle roots. *)
LEMMA SameSlices ==
    ASSUME NEW b, NEW k, Place(b, k), NEW r, NEW q, NEW x, NEW y, Carries(x, b, k, r), Carries(y, b, k, q),
           NEW from \in Nat, NEW to \in Nat, from <= to, to <= ProofEnd(VariantFor(b, k))
    PROVE  Slice(x, from, to) = Slice(y, from, to)
<1> DEFINE size == SIZE_OF_PAYLOAD(TypeOf(b, k))
           end == ProofEnd(VariantFor(b, k))
           a == Slice(x, from, to)
           c == Slice(y, from, to)
<1>1. end \in Nat /\ size \in Nat /\ end <= size /\ to <= end
    BY PlacesOf
<1>2. /\ IsSeq(x) /\ Len(x) = size /\ \A i \in 1..size : x[i] = ByteOf(b, k, r, i)
      /\ IsSeq(y) /\ Len(y) = size /\ \A i \in 1..size : y[i] = ByteOf(b, k, q, i)
    BY <1>1 DEF Carries, Begins
<1>3. to <= size /\ to <= Len(x) /\ to <= Len(y)
    BY <1>1, <1>2
<1>4. IsSeq(a) /\ Len(a) = to - from /\ \A i \in 1..to - from : a[i] = x[from + i]
    BY <1>2, <1>3, SliceIs
<1>5. IsSeq(c) /\ Len(c) = to - from /\ \A i \in 1..to - from : c[i] = y[from + i]
    BY <1>2, <1>3, SliceIs
<1> HIDE DEF a, c, end
<1>6. ASSUME NEW i \in 1..to - from PROVE a[i] = c[i]
  <2>1. from + i \in 1..size /\ from + i <= end
      BY <1>1, <1>3
  <2>2. x[from + i] = y[from + i]
      BY <1>2, <2>1, SameBytesOf DEF end
  <2> QED
      BY <1>4, <1>5, <2>2
<1>7. a = c
    BY <1>4, <1>5, <1>6, SameBytes
<1> QED
    BY <1>7 DEF a, c

LEMMA PlaceOfShred ==
    ASSUME NEW b, NEW k, Place(b, k), NEW r, NEW s, IsShred(s, b, k, r)
    PROVE  erasure_shard_index(s) = k - 1 /\ k - 1 \in 0..NumShreds(b) - 1
<1>1. IsHeader(s.header, b, k) /\ s.type = TypeOf(b, k)
    BY HeaderOfShred DEF IsShred
<1>2. /\ b.num_data \in Nat /\ b.num_coding \in Nat /\ k \in Nat /\ FecSetIndex \in Nat /\ 1 <= k
      /\ k <= NumShreds(b) /\ NumShreds(b) = b.num_data + b.num_coding
      /\ (TypeOf(b, k) = "data" <=> k <= b.num_data)
      /\ (TypeOf(b, k) = "code" <=> ~(k <= b.num_data))
    BY PlaceIs
<1>3. CASE k <= b.num_data
  <2>1. s.header.index = FecSetIndex + k - 1 /\ s.header.fec_set_index = FecSetIndex /\ s.type = "data"
      BY <1>1, <1>2, <1>3 DEF IsHeader, IndexFor
  <2> QED
      BY <1>2, <2>1 DEF erasure_shard_index
<1>4. CASE ~(k <= b.num_data)
  <2>1. /\ s.header.num_data_shreds = b.num_data /\ s.header.position = k - b.num_data - 1
        /\ s.type = "code"
      BY <1>1, <1>2, <1>4 DEF IsHeader
  <2> QED
      BY <1>2, <2>1 DEF erasure_shard_index
<1> QED
    BY <1>3, <1>4

(* The root is the leader's, whoever signed the shred last.                *)
LEMMA RootIs ==
    ASSUME NEW b, NEW k, Place(b, k), NEW r, NEW s, IsShred(s, b, k, r)
    PROVE  /\ merkle_root(s) = merkle_root(Original(b, k))
           /\ merkle_root(s) = RootFrom(s.payload, VariantFor(b, k), k - 1)
<1> DEFINE v == VariantFor(b, k)
           o == Original(b, k)
           proof == get_proof_offset(v)
           end == ProofEnd(v)
           size == SIZE_OF_PAYLOAD(TypeOf(b, k))
<1>1. IsShred(o, b, k, "unsigned")
    BY OriginalIs
<1>2. /\ proof \in Nat /\ end \in Nat /\ size \in Nat /\ 64 <= proof /\ proof <= end /\ end <= size
  <2>1. /\ SIZE_OF_HEADERS(TypeOf(b, k)) \in {88, 89}
        /\ get_chained_merkle_root_offset(v) \in Nat /\ proof \in Nat /\ end \in Nat /\ size \in Nat
        /\ SIZE_OF_HEADERS(TypeOf(b, k)) < get_chained_merkle_root_offset(v)
        /\ proof = get_chained_merkle_root_offset(v) + 32 /\ proof <= end /\ end <= size
      BY PlacesOf
  <2> QED
      BY <2>1
<1>3. SignedRange(v)[1] = 64 /\ SignedRange(v)[2] = proof
    BY DEF SignedRange, SIZE_OF_SIGNATURE
<1> HIDE DEF o, proof, end
<1>4. /\ Carries(s.payload, b, k, r) /\ Carries(o.payload, b, k, "unsigned")
      /\ Len(s.payload) = size /\ Len(o.payload) = size
    BY <1>1 DEF IsShred, Carries
<1>5. Slice(s.payload, 64, proof) = Slice(o.payload, 64, proof)
    BY <1>2, <1>4, SameSlices DEF end
<1>6. Slice(s.payload, proof, end) = Slice(o.payload, proof, end)
    BY <1>2, <1>4, SameSlices DEF end
<1>7. RootFrom(s.payload, v, k - 1) = RootFrom(o.payload, v, k - 1)
    BY <1>3, <1>4, <1>5, <1>6 DEF RootFrom, proof, end
<1>8. merkle_root(s) = RootFrom(s.payload, v, k - 1)
    BY VariantOfShred, PlaceOfShred DEF merkle_root
<1>9. merkle_root(o) = RootFrom(o.payload, v, k - 1)
    BY <1>1, VariantOfShred, PlaceOfShred DEF merkle_root
<1> QED
    BY <1>7, <1>8, <1>9 DEF o

LEMMA RootOfBytes ==
    ASSUME NEW b, NEW k, Place(b, k), NEW r, NEW s, IsShred(s, b, k, r)
    PROVE  get_merkle_root(s.payload) = RootFrom(s.payload, VariantFor(b, k), k - 1)
<1> DEFINE p == s.payload
           v == VariantFor(b, k)
<1>1. get_shred_variant(p) = Ok(v) /\ v.type = TypeOf(b, k)
    BY VariantOfShred, VariantIs
<1>2. \A x : Ok(x).ok /\ Ok(x).value = x
    BY DEF Ok
<1>3. /\ b.num_data \in Nat /\ k \in Nat /\ FecSetIndex \in Nat /\ 1 <= k
      /\ (TypeOf(b, k) = "data" <=> k <= b.num_data)
      /\ (TypeOf(b, k) = "code" <=> ~(k <= b.num_data))
    BY PlaceIs
<1> HIDE DEF p, v
<1>4. CASE k <= b.num_data
  <2>1. Part(b, k, r, 73, 77, IndexFor(b, k)) /\ Part(b, k, r, 79, 83, FecSetIndex)
      BY HeaderParts
  <2>2. ReadAt(p, 73, 77) = Ok(IndexFor(b, k)) /\ ReadAt(p, 79, 83) = Ok(FecSetIndex)
      BY <2>1, ReadOf DEF p
  <2>3. 73 + 4 = 77 /\ 79 + 4 = 83
      OBVIOUS
  <2>4. get_index(p) = Ok(IndexFor(b, k)) /\ get_fec_set_index(p) = Ok(FecSetIndex)
      BY <2>2, <2>3 DEF get_index, get_fec_set_index
  <2>5. IndexFor(b, k) >= FecSetIndex /\ IndexFor(b, k) - FecSetIndex = k - 1
      BY <1>3, <1>4 DEF IndexFor
  <2>6. v.type # "code"
      BY <1>1, <1>3, <1>4
  <2>7. get_merkle_root(p) = RootFrom(p, v, IndexFor(b, k) - FecSetIndex)
      BY <1>1, <1>2, <2>4, <2>5, <2>6 DEF get_merkle_root
  <2> QED
      BY <2>5, <2>7 DEF p, v
<1>5. CASE ~(k <= b.num_data)
  <2>1. Part(b, k, r, 83, 85, b.num_data) /\ Part(b, k, r, 87, 89, k - b.num_data - 1)
      BY <1>3, <1>5, HeaderParts
  <2>2. ReadAt(p, 83, 85) = Ok(b.num_data) /\ ReadAt(p, 87, 89) = Ok(k - b.num_data - 1)
      BY <2>1, ReadOf DEF p
  <2>3. b.num_data + (k - b.num_data - 1) = k - 1
      BY <1>3, <1>5
  <2>4. v.type = "code"
      BY <1>1, <1>3, <1>5
  <2>5. get_merkle_root(p) = RootFrom(p, v, b.num_data + (k - b.num_data - 1))
      BY <1>1, <1>2, <2>2, <2>4 DEF get_merkle_root
  <2> QED
      BY <2>3, <2>5 DEF p, v
<1> QED
    BY <1>4, <1>5

(* Every shred that is kept verifies, whoever signed it last and whatever  *)
(* buffer it came in, and has one root by its bytes and by its headers.    *)
THEOREM RootSurvives == Spec => []RootSurvivesTransit
<1>1. ASSUME WireInv, NEW s \in store
      PROVE  /\ verify(s) /\ get_merkle_root(s.payload) = merkle_root(s)
             /\ erasure_shard_index(s) \in 0..NumShreds(BlockOf(s)) - 1
  <2>1. PICK b, k, r : b \in Blocks /\ Place(b, k) /\ IsShred(s, b, k, r)
      BY <1>1, ShredOfPlace DEF WireInv
  <2>2. s.header.signature = b.signature
      BY <2>1, SignatureOf
  <2>3. verify(s)
    <3>1. k \in 1..NumShreds(b)
        BY <2>1 DEF Place
    <3>2. merkle_root(s) = merkle_root(Original(b, k))
        BY <2>1, RootIs
    <3>3. merkle_root(s) \in SignedRoots[b]
        BY <2>1, <3>1, <3>2 DEF SignedRoots
    <3> QED
        BY <2>1, <2>2, <3>3 DEF verify, LeaderSigned
  <2>4. get_merkle_root(s.payload) = merkle_root(s)
      BY <2>1, RootIs, RootOfBytes
  <2>5. BlockOf(s) = b
      BY <2>1, <2>2, BlockAssumption DEF BlockOf
  <2>6. erasure_shard_index(s) \in 0..NumShreds(b) - 1
      BY <2>1, PlaceOfShred
  <2> QED
      BY <2>3, <2>4, <2>5, <2>6
<1>2. WireInv => RootSurvivesTransit
    BY <1>1 DEF RootSurvivesTransit
<1> QED
    BY <1>2, StoredAreShreds, PTL

-----------------------------------------------------------------------------
(* Duplicates. *)
LEMMA ComparedIs ==
    ASSUME NEW b, NEW k, Place(b, k), NEW r, NEW s, IsShred(s, b, k, r)
    PROVE  ComparedPayload(s) = Slice(s.payload, 0, ProofEnd(VariantFor(b, k)))
<1> DEFINE v == VariantFor(b, k)
           end == ProofEnd(v)
           size == SIZE_OF_PAYLOAD(TypeOf(b, k))
           a == Slice(s.payload, 0, end)
<1>1. /\ end \in Nat /\ size \in Nat /\ end <= size
      /\ ~b.resigned => size = end
      /\ get_retransmitter_signature_offset(v) = IF b.resigned THEN Ok(end) ELSE Err("InvalidShredVariant")
    BY PlacesOf
<1>2. Variant(s) = v
    BY VariantOfShred
<1>3. IsSeq(s.payload) /\ Len(s.payload) = size
    BY DEF IsShred, Carries, Begins
<1> HIDE DEF end, size, v
<1>4. CASE b.resigned
  <2>1. \A x : Ok(x).ok /\ Ok(x).value = x
      BY DEF Ok
  <2>2. get_retransmitter_signature_offset(v) = Ok(end)
      BY <1>1, <1>4
  <2>3. end <= Len(s.payload)
      BY <1>1, <1>3
  <2> QED
      BY <1>2, <2>1, <2>2, <2>3 DEF ComparedPayload, end, v
<1>5. CASE ~b.resigned
  <2>1. ~Err("InvalidShredVariant").ok
      BY DEF Err
  <2>2. ComparedPayload(s) = s.payload
      BY <1>1, <1>2, <1>5, <2>1 DEF ComparedPayload
  <2>3. IsSeq(a) /\ Len(a) = end /\ \A i \in 1..end : a[i] = s.payload[i]
      BY <1>1, <1>3, PrefixIs
  <2>4. Len(s.payload) = end
      BY <1>1, <1>3, <1>5
  <2> HIDE DEF a
  <2>5. a = s.payload
      BY <1>3, <2>3, <2>4, SameBytes
  <2> QED
      BY <2>2, <2>5 DEF a, end, v
<1>6. b.resigned \in BOOLEAN
    BY PlaceIs
<1> QED
    BY <1>4, <1>5, <1>6

LEMMA ComparedBegins ==
    ASSUME NEW b, NEW k, Place(b, k), NEW r, NEW s, IsShred(s, b, k, r)
    PROVE  ComparedPayload(s)[1] = <<0, 64, b.signature>>
<1> DEFINE end == ProofEnd(VariantFor(b, k))
           size == SIZE_OF_PAYLOAD(TypeOf(b, k))
<1>1. end \in Nat /\ size \in Nat /\ 64 <= end /\ end <= size
  <2> DEFINE v == VariantFor(b, k)
  <2>1. /\ SIZE_OF_HEADERS(TypeOf(b, k)) \in {88, 89}
        /\ get_chained_merkle_root_offset(v) \in Nat /\ get_proof_offset(v) \in Nat /\ end \in Nat /\ size \in Nat
        /\ SIZE_OF_HEADERS(TypeOf(b, k)) < get_chained_merkle_root_offset(v)
        /\ get_proof_offset(v) = get_chained_merkle_root_offset(v) + 32 /\ get_proof_offset(v) <= end
        /\ end <= size
      BY PlacesOf
  <2> QED
      BY <2>1
<1>2. IsSeq(s.payload) /\ Len(s.payload) = size /\ \A i \in 1..size : s.payload[i] = ByteOf(b, k, r, i)
    BY <1>1 DEF IsShred, Carries, Begins
<1>3. \A i \in 0 + 1..64 : ByteOf(b, k, r, i) = <<0, 64, b.signature>>
    BY HeaderParts DEF Part
<1> HIDE DEF end, size
<1>4. 1 \in 1..size /\ 1 \in 1..end /\ 1 \in 0 + 1..64 /\ end <= Len(s.payload)
    BY <1>1, <1>2
<1>5. Slice(s.payload, 0, end)[1] = s.payload[1]
    BY <1>1, <1>2, <1>4, PrefixIs
<1>6. s.payload[1] = <<0, 64, b.signature>>
    BY <1>2, <1>3, <1>4
<1>7. ComparedPayload(s) = Slice(s.payload, 0, end)
    BY ComparedIs DEF end
<1> QED
    BY <1>5, <1>6, <1>7

LEMMA OnePlace ==
    ASSUME NEW b, NEW k, Place(b, k), NEW l, Place(b, l),
           TypeOf(b, k) = TypeOf(b, l), IndexFor(b, k) = IndexFor(b, l)
    PROVE  k = l
<1>1. /\ b.num_data \in Nat /\ FecSetIndex \in Nat /\ FirstCoding \in Nat /\ k \in Nat /\ l \in Nat
      /\ (TypeOf(b, k) = "data" <=> k <= b.num_data) /\ (TypeOf(b, l) = "data" <=> l <= b.num_data)
    BY PlaceIs
<1>2. CASE k <= b.num_data
  <2>1. l <= b.num_data
      BY <1>1, <1>2
  <2>2. FecSetIndex + k - 1 = FecSetIndex + l - 1
      BY <1>2, <2>1 DEF IndexFor
  <2> QED
      BY <1>1, <2>2
<1>3. CASE ~(k <= b.num_data)
  <2>1. ~(l <= b.num_data)
      BY <1>1, <1>3
  <2>2. FirstCoding + k - b.num_data - 1 = FirstCoding + l - b.num_data - 1
      BY <1>3, <2>1 DEF IndexFor
  <2> QED
      BY <1>1, <2>2
<1> QED
    BY <1>2, <1>3

(* Two shreds with one id are duplicates exactly if leaders signed         *)
(* different ones, whatever relays signed them and whether they came or    *)
(* were rebuilt.                                                           *)
THEOREM DuplicateIsFork == Spec => []DuplicatesAreForks
<1>1. ASSUME WireInv, NEW s \in store, NEW t \in store, id(s) = id(t)
      PROVE  is_shred_duplicate(s, t) <=> s.header.signature # t.header.signature
  <2>1. PICK b, k, r : b \in Blocks /\ Place(b, k) /\ IsShred(s, b, k, r)
      BY <1>1, ShredOfPlace DEF WireInv
  <2>2. s.header.signature = b.signature
      BY <2>1, SignatureOf
  <2>3. CASE s.header.signature # t.header.signature
    <3>1. PICK c, l, q : c \in Blocks /\ Place(c, l) /\ IsShred(t, c, l, q)
        BY <1>1, ShredOfPlace DEF WireInv
    <3>2. t.header.signature = c.signature
        BY <3>1, SignatureOf
    <3>3. ComparedPayload(s)[1] = <<0, 64, b.signature>>
        BY <2>1, ComparedBegins
    <3>4. ComparedPayload(t)[1] = <<0, 64, c.signature>>
        BY <3>1, ComparedBegins
    <3>5. ComparedPayload(s) # ComparedPayload(t)
        BY <2>2, <2>3, <3>2, <3>3, <3>4
    <3> QED
        BY <1>1, <2>3, <3>5 DEF is_shred_duplicate
  <2>4. CASE s.header.signature = t.header.signature
    <3>1. PICK l, q : Place(b, l) /\ IsShred(t, b, l, q)
        BY <1>1, <2>1, <2>2, <2>4, ShredOfBlock DEF WireInv
    <3>2. s.type = TypeOf(b, k) /\ IsHeader(s.header, b, k)
        BY <2>1, HeaderOfShred DEF IsShred
    <3>3. t.type = TypeOf(b, l) /\ IsHeader(t.header, b, l)
        BY <3>1, HeaderOfShred DEF IsShred
    <3>4. TypeOf(b, k) = TypeOf(b, l) /\ IndexFor(b, k) = IndexFor(b, l)
        BY <1>1, <3>2, <3>3 DEF id, IsHeader
    <3>5. k = l
        BY <2>1, <3>1, <3>4, OnePlace
    <3> DEFINE end == ProofEnd(VariantFor(b, k))
    <3>6. ComparedPayload(s) = Slice(s.payload, 0, end)
        BY <2>1, ComparedIs
    <3>7. ComparedPayload(t) = Slice(t.payload, 0, end)
        BY <3>1, <3>5, ComparedIs
    <3>8. Slice(s.payload, 0, end) = Slice(t.payload, 0, end)
      <4>1. Carries(s.payload, b, k, r) /\ Carries(t.payload, b, k, q)
          BY <2>1, <3>1, <3>5 DEF IsShred
      <4>2. end \in Nat
          BY <2>1, PlacesOf
      <4>3. PICK o \in Nat : o = 0
          OBVIOUS
      <4>4. o <= end /\ end <= end
          BY <4>2, <4>3
      <4>5. Slice(s.payload, o, end) = Slice(t.payload, o, end)
          BY <2>1, <4>1, <4>2, <4>4, SameSlices
      <4> QED
          BY <4>3, <4>5
    <3> QED
        BY <2>4, <3>6, <3>7, <3>8 DEF is_shred_duplicate
  <2> QED
      BY <2>3, <2>4
<1>2. WireInv => DuplicatesAreForks
    BY <1>1 DEF DuplicatesAreForks
<1> QED
    BY <1>2, StoredAreShreds, PTL
==============================================================================
