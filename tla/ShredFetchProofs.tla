-------------------------- MODULE ShredFetchProofs --------------------------
(***************************************************************************)
(* Proofs about filter and parser for every set size, slot size and        *)
(* integer width, every set of packets, and a root that moves at any time, *)
(* and about the statistics: of the filter, for every cadence and clock,   *)
(* and of any number of workers (ProcessStats, with variables of its own). *)
(***************************************************************************)
EXTENDS FetchStats, ProcessStats, DataInduction, FiniteSetTheorems, TLAPS

(* What passing the filter says of a packet for good: the checks that the  *)
(* root takes no part in, and what remains of those it does.               *)
Passed(p) ==
    /\ Readable(p)
    /\ p.index < MaxShreds
    /\ check_fixed_fec_set(p.index, p.fec_set_index)
    /\ p.variant = "code" => is_fixed(p)
    /\ p.variant = "data" =>
         /\ p.parent_offset <= p.slot
         /\ p.parent_offset = 0 => p.slot = 0
         /\ last_in_slot(p) => check_last_data_shred_index(p.index)

FInv ==
    /\ root \in Nat
    /\ \A p \in buffer : p \in Packets /\ Passed(p)
    /\ \A p \in shreds : p \in Packets /\ Passed(p) /\ Parses(p)
    /\ \A p \in refused : p \in Packets /\ Passed(p) /\ ~Parses(p)

-----------------------------------------------------------------------------
(* Of two multiples of N, the larger one is larger by at least N. *)
LEMMA NextMultiple ==
    ASSUME NEW N \in Nat \ {0}, NEW a \in Nat, NEW b \in Nat,
           a % N = 0, b % N = 0, a < b
    PROVE  a + N <= b
  <1> DEFINE i == a \div N
             j == b \div N
  <1>1. i \in Nat /\ j \in Nat
    BY SMT
  <1>2. a = N * i /\ b = N * j
    BY SMT
  <1> HIDE DEF i, j
  <1>3. i < j
    BY <1>1, <1>2, SMT
  <1>4. N * (i + 1) <= N * j
    BY <1>1, <1>3, SMT
  <1> QED
    BY <1>1, <1>2, <1>4, SMT

LEMMA SmallRemainder ==
    ASSUME NEW N \in Nat \ {0}, NEW a \in Nat, a < N
    PROVE  a % N = a
  BY SMT

(* The set of a packet that passed lies within the slot as a whole. *)
LEMMA SetWithinSlot ==
    ASSUME NEW p \in Packets, Passed(p)
    PROVE  p.fec_set_index + Fec <= MaxShreds
  <1>1. /\ p.index \in Nat /\ p.fec_set_index \in Nat
        /\ p.index < MaxShreds /\ p.fec_set_index <= p.index
        /\ p.fec_set_index % Fec = 0
    BY PacketAssumption DEF Passed, check_fixed_fec_set
  <1>2. p.fec_set_index < MaxShreds
    BY <1>1, FetchAssumption, SMT
  <1> QED
    BY <1>1, <1>2, NextMultiple, FetchAssumption

(* A last shred that passed is the last of its set. *)
LEMMA LastOfSet ==
    ASSUME NEW p \in Packets, Passed(p), last_in_slot(p)
    PROVE  p.index = p.fec_set_index + Fec - 1
  <1>1. /\ p.index \in Nat /\ p.fec_set_index \in Nat
        /\ p.index < MaxShreds /\ p.fec_set_index <= p.index
        /\ p.index < p.fec_set_index + Fec
        /\ p.fec_set_index % Fec = 0
    BY PacketAssumption DEF Passed, check_fixed_fec_set
  <1>2. ((p.index + 1) % (MaxU32 + 1)) % Fec = 0
    BY DEF Passed, last_in_slot, check_last_data_shred_index
  <1>3. p.index + 1 < MaxU32 + 1 /\ MaxU32 + 1 \in Nat \ {0}
    BY <1>1, FetchAssumption, SMT
  <1>4. (p.index + 1) % (MaxU32 + 1) = p.index + 1
    BY <1>1, <1>3, SmallRemainder
  <1>5. p.fec_set_index + Fec <= p.index + 1
    <2>1. p.index + 1 \in Nat /\ p.fec_set_index < p.index + 1
      BY <1>1, SMT
    <2> QED
      BY <1>1, <1>2, <1>4, <2>1, NextMultiple, FetchAssumption
  <1> QED
    BY <1>1, <1>5, FetchAssumption, SMT

-----------------------------------------------------------------------------
(* The filter at any root lets through only what passes for good. *)
LEMMA FilterPasses ==
    ASSUME root \in Nat, NEW p \in Packets, ~should_discard_shred(p)
    PROVE  Passed(p)
  <1> USE PacketAssumption
  <1>1. /\ Readable(p) /\ p.index < MaxShreds
        /\ check_fixed_fec_set(p.index, p.fec_set_index)
    BY DEF should_discard_shred
  <1>2. CASE p.variant = "code"
    BY <1>1, <1>2 DEF should_discard_shred, KeepsCode, Passed
  <1>3. CASE p.variant = "data"
    <2>1. KeepsData(p)
      BY <1>3 DEF should_discard_shred
    <2>2. /\ p.parent_offset <= p.slot
          /\ last_in_slot(p) => check_last_data_shred_index(p.index)
      BY <2>1 DEF KeepsData
    <2>3. p.slot \in Nat /\ p.parent_offset \in Nat
      BY <1>3
    <2>4. p.parent_offset = 0 => p.slot = 0
      BY <2>1, <2>3, SMT DEF KeepsData, verify_shred_slots
    <2> QED
      BY <1>1, <1>3, <2>2, <2>4 DEF Passed
  <1> QED
    BY <1>1, <1>2, <1>3 DEF Readable

LEMMA InitFInv == Init => FInv
  BY DEF Init, FInv

LEMMA NextFInv == FInv /\ [Next]_vars => FInv'
  <1> SUFFICES ASSUME FInv, [Next]_vars PROVE FInv'
    OBVIOUS
  <1> USE DEF FInv
  <1>1. CASE UNCHANGED vars
    BY <1>1 DEF vars
  <1>2. ASSUME NEW p \in Packets, Keep(p) PROVE FInv'
    <2>1. Passed(p)
      BY <1>2, FilterPasses DEF Keep
    <2> QED
      BY <1>2, <2>1 DEF Keep
  <1>3. ASSUME NEW p \in buffer, Parse(p) PROVE FInv'
    BY <1>3 DEF Parse
  <1>4. CASE HandOver
    BY <1>4 DEF HandOver
  <1>5. CASE NewRoot
    <2>1. root + 1 \in Nat
      BY SMT
    <2> QED
      BY <1>5, <2>1 DEF NewRoot
  <1> QED
    BY <1>1, <1>2, <1>3, <1>4, <1>5 DEF Next

LEMMA Invariance == Spec => []FInv
  BY InitFInv, NextFInv, PTL DEF Spec

-----------------------------------------------------------------------------
(* Where a parsed shred goes in its set: data shreds into the lower half,  *)
(* coding shreds into the upper one.                                       *)
LEMMA PlaceInSet ==
    ASSUME NEW p \in Packets, Passed(p), Parses(p)
    PROVE  /\ p.variant = "data" => erasure_shard_index(p) \in 0..Fec - 1
           /\ p.variant = "code" => erasure_shard_index(p) \in Fec..2 * Fec - 1
  <1> USE PacketAssumption, FetchAssumption
  <1>1. CASE p.variant = "data"
    <2>1. p.index \in Nat /\ p.fec_set_index \in Nat
          /\ p.index >= p.fec_set_index /\ p.index < p.fec_set_index + Fec
      BY DEF Passed, check_fixed_fec_set
    <2>2. p.index - p.fec_set_index \in 0..Fec - 1
      BY <2>1, SMT
    <2> QED
      BY <1>1, <2>2 DEF erasure_shard_index
  <1>2. CASE p.variant = "code"
    <2>1. p.num_data = Fec /\ p.num_coding = Fec
      BY <1>2 DEF Passed, is_fixed
    <2>2. p.position \in Nat /\ p.position < Fec
      BY <1>2, <2>1 DEF Parses, HasShardIndex
    <2>3. p.num_data + p.position \in Fec..2 * Fec - 1
      BY <2>1, <2>2, SMT
    <2> QED
      BY <1>2, <2>3 DEF erasure_shard_index
  <1> QED
    BY <1>1, <1>2 DEF Passed, Readable

(* Two data shreds of a set, in the order of the sort, or two coding       *)
(* shreds with one first coding index.                                     *)
LEMMA PlacesIncrease ==
    ASSUME NEW p \in Packets, Passed(p), Parses(p), NEW q \in Packets, Passed(q), Parses(q),
           SameSet(p, q), is_lt(p, q)
    PROVE  \/ erasure_shard_index(p) < erasure_shard_index(q)
           \/ p.variant = "code" /\ q.variant = "code" /\ erasure_mismatch(p, q)
<1> USE FetchAssumption, PacketAssumption
<1>1. CASE p.variant = "data" /\ q.variant = "data"
  <2>1. /\ p.index \in Nat /\ p.fec_set_index \in Nat
        /\ q.index \in Nat /\ q.fec_set_index = p.fec_set_index
        /\ p.index < q.index
      BY <1>1 DEF SameSet, is_lt
  <2>2. p.index - p.fec_set_index < q.index - q.fec_set_index
      BY <2>1, SMT
  <2> QED
      BY <1>1, <2>2 DEF erasure_shard_index
<1>2. CASE p.variant = "code" /\ q.variant = "code"
  <2>1. /\ p.num_data = Fec /\ q.num_data = Fec
        /\ p.index \in Nat /\ p.position \in Nat /\ q.index \in Nat /\ q.position \in Nat
        /\ p.index < q.index
      BY <1>2 DEF Passed, is_fixed, is_lt
  <2>2. CASE p.index - p.position = q.index - q.position
    <3>1. Fec + p.position < Fec + q.position
        BY <2>1, <2>2, SMT
    <3> QED
        BY <1>2, <2>1, <3>1 DEF erasure_shard_index
  <2>3. CASE p.index - p.position # q.index - q.position
      BY <1>2, <2>3 DEF erasure_mismatch, first_coding_index
  <2> QED
      BY <2>2, <2>3
<1>3. CASE p.variant # q.variant
  <2>1. p.variant = "data" /\ q.variant = "code"
      BY <1>3 DEF is_lt, Passed, Readable
  <2>2. erasure_shard_index(p) \in 0..Fec - 1 /\ erasure_shard_index(q) \in Fec..2 * Fec - 1
      BY <2>1, PlaceInSet
  <2> QED
      BY <2>2, SMT
<1> QED
    BY <1>1, <1>2, <1>3 DEF Passed, Readable

(* Two shreds of one erasure set that came through filter and parser fit   *)
(* together in recover, for every set size: codec and places, but for the  *)
(* places of coding shreds whose first coding indices differ.              *)
THEOREM Recoverable == Spec => []RecoverableTogether
  <1>1. FInv => RecoverableTogether
    <2> SUFFICES ASSUME FInv, NEW p \in shreds
                 PROVE  /\ p.variant = "data" => erasure_shard_index(p) \in 0..Fec - 1
                        /\ p.variant = "code" => erasure_shard_index(p) \in Fec..2 * Fec - 1
                        /\ \A q \in shreds : SameSet(p, q) => FitTogether(p, q)
      BY DEF RecoverableTogether
    <2>1. p \in Packets /\ Passed(p) /\ Parses(p)
      BY DEF FInv
    <2>2. ASSUME NEW q \in shreds, SameSet(p, q) PROVE FitTogether(p, q)
      <3>1. q \in Packets /\ Passed(q) /\ Parses(q)
        BY DEF FInv
      <3>2. ASSUME p.variant = "code", q.variant = "code"
            PROVE  p.num_data = q.num_data /\ p.num_coding = q.num_coding
        BY <2>1, <3>1, <3>2 DEF Passed, is_fixed
      <3> QED
        BY <2>1, <2>2, <3>1, <3>2, PlacesIncrease DEF FitTogether
    <2> QED
      BY <2>1, <2>2, PlaceInSet
  <1> QED
    BY <1>1, Invariance, PTL

(* The last shred of a slot ends its erasure set. *)
THEOREM LastEndsSet == Spec => []LastShredEndsItsSet
  <1>1. FInv => LastShredEndsItsSet
    <2> SUFFICES ASSUME FInv, NEW p \in shreds, last_in_slot(p)
                 PROVE  /\ erasure_shard_index(p) = Fec - 1
                        /\ \A q \in shreds : SameSet(p, q) /\ q.variant = "data" =>
                             q.index <= p.index
      BY DEF LastShredEndsItsSet
    <2> USE PacketAssumption, FetchAssumption
    <2>1. p \in Packets /\ p.index \in Nat /\ p.fec_set_index \in Nat /\ p.variant = "data"
      BY DEF FInv, last_in_slot
    <2>2. p.index = p.fec_set_index + Fec - 1
      BY <2>1, LastOfSet DEF FInv
    <2>3. p.index - p.fec_set_index = Fec - 1
      BY <2>1, <2>2, SMT
    <2>4. ASSUME NEW q \in shreds, SameSet(p, q) PROVE q.index <= p.index
      <3>1. q.index \in Nat /\ q.index < p.fec_set_index + Fec
        BY <2>4 DEF FInv, Passed, check_fixed_fec_set, SameSet
      <3> QED
        BY <2>1, <2>2, <3>1, SMT
    <2> QED
      BY <2>1, <2>3, <2>4 DEF erasure_shard_index
  <1> QED
    BY <1>1, Invariance, PTL

(* The parser refuses a packet that passed the filter only for what the    *)
(* filter does not look at.                                                *)
THEOREM FilterCovers == Spec => []FilterCoversParser
  <1>1. FInv => FilterCoversParser
    <2> SUFFICES ASSUME FInv, NEW p \in refused
                 PROVE  IF p.variant = "data" THEN ~p.size_ok \/ (p.last /\ ~p.complete)
                        ELSE p.position # p.index - p.fec_set_index
      BY DEF FilterCoversParser
    <2> USE PacketAssumption, FetchAssumption
    <2>1. /\ p \in Packets /\ Passed(p) /\ ~Parses(p)
          /\ p.index \in Nat /\ p.fec_set_index \in Nat
          /\ p.index >= p.fec_set_index /\ p.index < p.fec_set_index + Fec
      BY DEF FInv, Passed, check_fixed_fec_set
    <2>2. CASE p.variant = "data"
      <3>1. HasShardIndex(p)
        BY <2>1, <2>2 DEF HasShardIndex
      <3>2. ~SaneData(p)
        BY <2>1, <2>2, <3>1 DEF Parses, Passed
      <3> QED
        BY <2>1, <2>2, <3>2 DEF SaneData, Passed
    <2>3. CASE p.variant = "code" /\ p.position = p.index - p.fec_set_index
      <3>1. p.num_data = Fec /\ p.num_coding = Fec
        BY <2>1, <2>3 DEF Passed, is_fixed
      <3>2. p.fec_set_index + Fec <= MaxShreds
        BY <2>1, SetWithinSlot
      <3>3. /\ p.position < Fec /\ p.index >= p.position
            /\ p.index - p.position = p.fec_set_index
        BY <2>1, <2>3, SMT
      <3>4. /\ Fec > 0 /\ p.fec_set_index + Fec - 1 < MaxShreds /\ Fec <= 8 * Fec
        BY <2>1, <3>2, SMT
      <3>5. HasShardIndex(p) /\ SaneCode(p)
        BY <2>3, <3>1, <3>3, <3>4 DEF HasShardIndex, SaneCode
      <3> QED
        BY <2>1, <2>3, <3>5 DEF Parses, Passed
    <2> QED
      BY <2>1, <2>2, <2>3 DEF Passed, Readable
  <1> QED
    BY <1>1, Invariance, PTL

-----------------------------------------------------------------------------
(* What the code remembers of the last submission is what really happened. *)
SinceIsSubmission == since = submitted

LEMMA NextSince == SinceIsSubmission /\ [StatsNext]_<<vars, statsVars>> => SinceIsSubmission'
<1> SUFFICES ASSUME SinceIsSubmission, [StatsNext]_<<vars, statsVars>> PROVE SinceIsSubmission'
  OBVIOUS
<1> USE DEF SinceIsSubmission
<1>1. CASE \E p \in Packets : Filter(p)
  BY <1>1 DEF Filter
<1>2. CASE MaybeSubmit
  BY <1>2 DEF MaybeSubmit, Reset
<1>3. CASE NewStats
  BY <1>3 DEF NewStats
<1>4. CASE Tick
  BY <1>4 DEF Tick
<1>5. CASE UNCHANGED statsVars
  BY <1>5 DEF statsVars
<1> QED
  BY <1>1, <1>2, <1>3, <1>4, <1>5 DEF StatsNext

(* Whatever the callers' cadence is and whenever they call: the reset that *)
(* maybe_submit does (stats.rs 91-103) keeps the time, so that the next    *)
(* submission of the same statistics is a cadence later at least.          *)
THEOREM Spaced == StatsSpec => SubmissionsAreSpaced
<1>1. StatsInit => SinceIsSubmission
  BY DEF StatsInit, SinceIsSubmission
<1>2. SinceIsSubmission /\ [StatsNext]_<<vars, statsVars>> =>
        [Never \notin {submitted, submitted'} /\ submitted' # submitted =>
           submitted' - submitted >= Cadence]_<<vars, statsVars>>
  <2> SUFFICES ASSUME SinceIsSubmission, StatsNext,
                      Never \notin {submitted, submitted'}, submitted' # submitted
               PROVE  submitted' - submitted >= Cadence
    OBVIOUS
  <2>1. MaybeSubmit
    BY DEF StatsNext, Filter, NewStats, Tick, statsVars
  <2>2. submitted' = now /\ now - submitted >= Cadence
    BY <2>1 DEF MaybeSubmit, SinceIsSubmission
  <2> QED
    BY <2>2
<1> QED
  BY <1>1, <1>2, NextSince, PTL DEF StatsSpec, SubmissionsAreSpaced

-----------------------------------------------------------------------------
(* The sum over a set of counters, and what one packet adds to it. *)
SumOf(w, S) == FoldSet(LAMBDA c, acc : acc + w[c], 0, S)

LEMMA SumIs ==
  ASSUME NEW w, NEW S, IsFiniteSet(S), \A c \in S : w[c] \in Nat
  PROVE  \E f : f \in [SUBSET S -> Nat] /\ Sums(S, w, f) /\ SumOf(w, S) = f[S]
<1> DEFINE Is(f) == f = [s \in SUBSET S |->
                          IF s = {} THEN 0
                          ELSE f[s \ {CHOOSE x \in s : TRUE}] + w[CHOOSE x \in s : TRUE]]
           g == CHOOSE f : Is(f)
<1>1. PICK f : Sums(S, w, f)
  BY SumExists
<1>2. Is(f)
  BY <1>1 DEF Sums, Some
<1>3. Is(g)
  <2> HIDE DEF Is
  <2> QED
    BY <1>2
<1>4. SumOf(w, S) = g[S]
  BY DEF SumOf, FoldSet, MapThenFoldSet
<1>5. Sums(S, w, g)
  BY <1>3 DEF Sums, Some
<1> HIDE DEF g
<1>6. g \in [SUBSET S -> Nat]
  BY <1>5, SumTyped
<1> QED
  BY <1>4, <1>5, <1>6

LEMMA SumStep ==
  ASSUME NEW w, NEW v, NEW S, IsFiniteSet(S), NEW C,
         GrowsOn(S, w, v, C)
  PROVE  SumOf(w, S) \in Nat /\ SumOf(v, S) = SumOf(w, S) + Cardinality(S \cap C)
<1>1. \A c \in S : w[c] \in Nat /\ v[c] \in Nat
  BY DEF GrowsOn
<1>2. PICK f : f \in [SUBSET S -> Nat] /\ Sums(S, w, f) /\ SumOf(w, S) = f[S]
  BY <1>1, SumIs
<1>3. PICK g : g \in [SUBSET S -> Nat] /\ Sums(S, v, g) /\ SumOf(v, S) = g[S]
  BY <1>1, SumIs
<1>4. g[S] = f[S] + Cardinality(S \cap C)
  BY <1>2, <1>3, SumGrows, Zenon
<1> QED
  BY <1>2, <1>3, <1>4

LEMMA SumOfNone ==
  ASSUME NEW w, NEW S, IsFiniteSet(S), \A c \in S : w[c] = 0
  PROVE  SumOf(w, S) = 0
<1>1. \A c \in S : w[c] \in Nat
  OBVIOUS
<1>2. PICK f : f \in [SUBSET S -> Nat] /\ Sums(S, w, f) /\ SumOf(w, S) = f[S]
  BY <1>1, SumIs
<1> QED
  BY <1>2, SumOfZeros

(* The checks of a packet, one by one. *)
LEMMA CodeChecksAre ==
  ASSUME NEW p, Readable(p), p.variant = "code"
  PROVE  LET q == Checks(p)
         IN  /\ Len(q) = 6
             /\ q[1] = Check(p.version # Version, "shred_version_mismatch")
             /\ q[2] = Check(p.slot > MaxSlot, "slot_out_of_range")
             /\ q[3] = Check(p.index >= MaxShreds, "index_out_of_bounds")
             /\ q[4] = Check(p.slot <= root, "slot_out_of_range")
             /\ q[5] = Check(~is_fixed(p), "misaligned_erasure_config")
             /\ q[6] = Check(~check_fixed_fec_set(p.index, p.fec_set_index), "misaligned_fec_set")
<1> DEFINE a == Check(p.version # Version, "shred_version_mismatch")
           b == Check(p.slot > MaxSlot, "slot_out_of_range")
           c == Check(p.index >= MaxShreds, "index_out_of_bounds")
           d == Check(p.slot <= root, "slot_out_of_range")
           e == Check(~is_fixed(p), "misaligned_erasure_config")
           z == Check(~check_fixed_fec_set(p.index, p.fec_set_index), "misaligned_fec_set")
           x == <<a, b, c>>
           y == <<d, e>>
           q == Checks(p)
<1>1. q = (x \o y) \o <<z>>
  BY DEF Checks, CommonChecks, CodeChecks
<1> HIDE DEF a, b, c, d, e, z, q
<1>2. IsSeq(y) /\ Len(y) = 2 /\ y[1] = d /\ y[2] = e
  <2>1. y \in Seq({d, e})
    OBVIOUS
  <2> QED
    BY <2>1, TypedIsSeq
<1>3. IsSeq(x) /\ Len(x) = 3 /\ x[1] = a /\ x[2] = b /\ x[3] = c
  <2>1. x \in Seq({a, b, c})
    OBVIOUS
  <2> QED
    BY <2>1, TypedIsSeq
<1> HIDE DEF x, y
<1>4. /\ Len(q) = Len(x) + Len(y) + 1
      /\ \A i \in 1..Len(x) : q[i] = x[i]
      /\ \A i \in 1..Len(y) : q[Len(x) + i] = y[i]
      /\ q[Len(x) + Len(y) + 1] = z
  <2>1. \A k, l, m, r : IsSeq(k) /\ IsSeq(l) /\ r = (k \o l) \o <<m>> =>
          /\ Len(r) = Len(k) + Len(l) + 1
          /\ \A i \in 1..Len(k) : r[i] = k[i]
          /\ \A i \in 1..Len(l) : r[Len(k) + i] = l[i]
          /\ r[Len(k) + Len(l) + 1] = m
    BY JoinedAndOne
  <2>2. q = (x \o y) \o <<z>>
    BY <1>1
  <2>3. IsSeq(x)
    BY <1>3
  <2>4. IsSeq(y)
    BY <1>2
  <2> QED
    BY <2>1, <2>2, <2>3, <2>4, SMT
<1>5. Len(q) = 6 /\ q[1] = a /\ q[2] = b /\ q[3] = c /\ q[4] = d /\ q[5] = e /\ q[6] = z
  BY <1>2, <1>3, <1>4
<1> QED
  BY <1>5, Zenon DEF a, b, c, d, e, z, q

LEMMA DataChecksAre ==
  ASSUME NEW p, Readable(p), p.variant # "code"
  PROVE  LET q == Checks(p)
         IN  /\ Len(q) = 8
             /\ q[1] = Check(p.version # Version, "shred_version_mismatch")
             /\ q[2] = Check(p.slot > MaxSlot, "slot_out_of_range")
             /\ q[3] = Check(p.index >= MaxShreds, "index_out_of_bounds")
             /\ q[4] = Check(p.parent_offset > p.slot, "bad_parent_offset")
             /\ q[5] = Check(~verify_shred_slots(p.slot, p.slot - p.parent_offset), "slot_out_of_range")
             /\ q[6] = Check(Unexpected(p) /\ Discards(p.slot), "unexpected_data_complete_shred")
             /\ q[7] = Check(last_in_slot(p) /\ ~check_last_data_shred_index(p.index), "misaligned_last_data_index")
             /\ q[8] = Check(~check_fixed_fec_set(p.index, p.fec_set_index), "misaligned_fec_set")
<1> DEFINE a == Check(p.version # Version, "shred_version_mismatch")
           b == Check(p.slot > MaxSlot, "slot_out_of_range")
           c == Check(p.index >= MaxShreds, "index_out_of_bounds")
           d == Check(p.parent_offset > p.slot, "bad_parent_offset")
           e == Check(~verify_shred_slots(p.slot, p.slot - p.parent_offset), "slot_out_of_range")
           f == Check(Unexpected(p) /\ Discards(p.slot), "unexpected_data_complete_shred")
           g == Check(last_in_slot(p) /\ ~check_last_data_shred_index(p.index), "misaligned_last_data_index")
           z == Check(~check_fixed_fec_set(p.index, p.fec_set_index), "misaligned_fec_set")
           x == <<a, b, c>>
           y == <<d, e, f, g>>
           q == Checks(p)
<1>1. q = (x \o y) \o <<z>>
  BY DEF Checks, CommonChecks, DataChecks
<1> HIDE DEF a, b, c, d, e, f, g, z, q
<1>2. IsSeq(y) /\ Len(y) = 4 /\ y[1] = d /\ y[2] = e /\ y[3] = f /\ y[4] = g
  <2>1. y \in Seq({d, e, f, g})
    OBVIOUS
  <2> QED
    BY <2>1, TypedIsSeq
<1>3. IsSeq(x) /\ Len(x) = 3 /\ x[1] = a /\ x[2] = b /\ x[3] = c
  <2>1. x \in Seq({a, b, c})
    OBVIOUS
  <2> QED
    BY <2>1, TypedIsSeq
<1> HIDE DEF x, y
<1>4. /\ Len(q) = Len(x) + Len(y) + 1
      /\ \A i \in 1..Len(x) : q[i] = x[i]
      /\ \A i \in 1..Len(y) : q[Len(x) + i] = y[i]
      /\ q[Len(x) + Len(y) + 1] = z
  <2>1. \A k, l, m, r : IsSeq(k) /\ IsSeq(l) /\ r = (k \o l) \o <<m>> =>
          /\ Len(r) = Len(k) + Len(l) + 1
          /\ \A i \in 1..Len(k) : r[i] = k[i]
          /\ \A i \in 1..Len(l) : r[Len(k) + i] = l[i]
          /\ r[Len(k) + Len(l) + 1] = m
    BY JoinedAndOne
  <2>2. q = (x \o y) \o <<z>>
    BY <1>1
  <2>3. IsSeq(x)
    BY <1>3
  <2>4. IsSeq(y)
    BY <1>2
  <2> QED
    BY <2>1, <2>2, <2>3, <2>4, SMT
<1>5. /\ Len(q) = 8 /\ q[1] = a /\ q[2] = b /\ q[3] = c
      /\ q[4] = d /\ q[5] = e /\ q[6] = f /\ q[7] = g /\ q[8] = z
  BY <1>2, <1>3, <1>4
<1> QED
  BY <1>5, Zenon DEF a, b, c, d, e, f, g, z, q

(* They agree with the one condition of ShredFetch, and each has a counter *)
(* of discarded packets.                                                   *)
LEMMA ChecksAgree ==
  ASSUME NEW p \in Packets, root \in Nat
  PROVE  /\ Len(Checks(p)) \in Nat
         /\ \A i \in 1..Len(Checks(p)) : Checks(p)[i].counter \in DiscardCounters
         /\ (\E i \in 1..Len(Checks(p)) : Checks(p)[i].fails) <=> should_discard_shred(p)
<1> USE FetchAssumption, PacketAssumption
<1> DEFINE q == Checks(p)
<1>1. CASE ~Readable(p)
  <2>1. q = <<Check(TRUE, "index_overrun")>>
    BY <1>1 DEF Checks
  <2>2. Len(q) = 1 /\ q[1] = Check(TRUE, "index_overrun")
    BY <2>1
  <2>3. should_discard_shred(p)
    BY <1>1 DEF should_discard_shred
  <2> HIDE DEF q
  <2>4. q[1].fails /\ q[1].counter \in DiscardCounters
    BY <2>2 DEF Check, DiscardCounters
  <2>10. /\ Len(q) \in Nat
         /\ \A i \in 1..Len(q) : q[i].counter \in DiscardCounters
         /\ (\E i \in 1..Len(q) : q[i].fails) <=> should_discard_shred(p)
    <3>1. \A i \in 1..Len(q) : i = 1
      BY <2>2
    <3>2. 1 \in 1..Len(q) /\ Len(q) \in Nat
      BY <2>2
    <3> QED
      BY <2>3, <2>4, <3>1, <3>2, Zenon
  <2> QED
    BY <2>10 DEF q
<1>2. CASE Readable(p) /\ p.variant = "code"
  <2>1. /\ Len(q) = 6
        /\ q[1] = Check(p.version # Version, "shred_version_mismatch")
        /\ q[2] = Check(p.slot > MaxSlot, "slot_out_of_range")
        /\ q[3] = Check(p.index >= MaxShreds, "index_out_of_bounds")
        /\ q[4] = Check(p.slot <= root, "slot_out_of_range")
        /\ q[5] = Check(~is_fixed(p), "misaligned_erasure_config")
        /\ q[6] = Check(~check_fixed_fec_set(p.index, p.fec_set_index), "misaligned_fec_set")
    BY <1>2, CodeChecksAre
  <2> HIDE DEF q
  <2>2. \A i \in 1..Len(q) : i \in {1, 2, 3, 4, 5, 6}
    BY <2>1
  <2>3. \A i \in {1, 2, 3, 4, 5, 6} : i \in 1..Len(q) /\ q[i].counter \in DiscardCounters
    BY <2>1 DEF Check, DiscardCounters
  <2>4. /\ q[1].fails <=> p.version # Version
        /\ q[2].fails <=> p.slot > MaxSlot
        /\ q[3].fails <=> p.index >= MaxShreds
        /\ q[4].fails <=> p.slot <= root
        /\ q[5].fails <=> ~is_fixed(p)
        /\ q[6].fails <=> ~check_fixed_fec_set(p.index, p.fec_set_index)
    <3>1. q[1].fails <=> p.version # Version
      <4>1. q[1].fails = Check(p.version # Version, "shred_version_mismatch").fails
        BY <2>1
      <4> QED
        BY <4>1 DEF Check
    <3>2. q[2].fails <=> p.slot > MaxSlot
      <4>1. q[2].fails = Check(p.slot > MaxSlot, "slot_out_of_range").fails
        BY <2>1
      <4> QED
        BY <4>1 DEF Check
    <3>3. q[3].fails <=> p.index >= MaxShreds
      <4>1. q[3].fails = Check(p.index >= MaxShreds, "index_out_of_bounds").fails
        BY <2>1
      <4> QED
        BY <4>1 DEF Check
    <3>4. q[4].fails <=> p.slot <= root
      <4>1. q[4].fails = Check(p.slot <= root, "slot_out_of_range").fails
        BY <2>1
      <4> QED
        BY <4>1 DEF Check
    <3>5. q[5].fails <=> ~is_fixed(p)
      <4>1. q[5].fails = Check(~is_fixed(p), "misaligned_erasure_config").fails
        BY <2>1
      <4> QED
        BY <4>1 DEF Check
    <3>6. q[6].fails <=> ~check_fixed_fec_set(p.index, p.fec_set_index)
      <4>1. q[6].fails = Check(~check_fixed_fec_set(p.index, p.fec_set_index), "misaligned_fec_set").fails
        BY <2>1
      <4> QED
        BY <4>1 DEF Check
    <3> QED
      BY <3>1, <3>2, <3>3, <3>4, <3>5, <3>6, Zenon
  <2>5. (\E i \in 1..Len(q) : q[i].fails) <=>
          q[1].fails \/ q[2].fails \/ q[3].fails \/ q[4].fails \/ q[5].fails \/ q[6].fails
    BY <2>2, <2>3
  <2>6. should_discard_shred(p) <=>
          ~ /\ p.version = Version
            /\ p.slot <= MaxSlot
            /\ p.index < MaxShreds
            /\ p.slot > root /\ is_fixed(p)
            /\ check_fixed_fec_set(p.index, p.fec_set_index)
    BY <1>2 DEF should_discard_shred, KeepsCode
  <2>7. /\ p.slot > MaxSlot <=> ~(p.slot <= MaxSlot)
        /\ p.index >= MaxShreds <=> ~(p.index < MaxShreds)
        /\ p.slot <= root <=> ~(p.slot > root)
    OBVIOUS
  <2>10. /\ Len(q) \in Nat
         /\ \A i \in 1..Len(q) : q[i].counter \in DiscardCounters
         /\ (\E i \in 1..Len(q) : q[i].fails) <=> should_discard_shred(p)
    BY <2>1, <2>2, <2>3, <2>4, <2>5, <2>6, <2>7
  <2> QED
    BY <2>10 DEF q
<1>3. CASE Readable(p) /\ p.variant = "data"
  <2>1. /\ Len(q) = 8
        /\ q[1] = Check(p.version # Version, "shred_version_mismatch")
        /\ q[2] = Check(p.slot > MaxSlot, "slot_out_of_range")
        /\ q[3] = Check(p.index >= MaxShreds, "index_out_of_bounds")
        /\ q[4] = Check(p.parent_offset > p.slot, "bad_parent_offset")
        /\ q[5] = Check(~verify_shred_slots(p.slot, p.slot - p.parent_offset), "slot_out_of_range")
        /\ q[6] = Check(Unexpected(p) /\ Discards(p.slot), "unexpected_data_complete_shred")
        /\ q[7] = Check(last_in_slot(p) /\ ~check_last_data_shred_index(p.index), "misaligned_last_data_index")
        /\ q[8] = Check(~check_fixed_fec_set(p.index, p.fec_set_index), "misaligned_fec_set")
    BY <1>3, DataChecksAre
  <2> HIDE DEF q
  <2>2. \A i \in 1..Len(q) : i \in {1, 2, 3, 4, 5, 6, 7, 8}
    BY <2>1
  <2>3. \A i \in {1, 2, 3, 4, 5, 6, 7, 8} : i \in 1..Len(q) /\ q[i].counter \in DiscardCounters
    BY <2>1 DEF Check, DiscardCounters
  <2>4. /\ q[1].fails <=> p.version # Version
        /\ q[2].fails <=> p.slot > MaxSlot
        /\ q[3].fails <=> p.index >= MaxShreds
        /\ q[4].fails <=> p.parent_offset > p.slot
        /\ q[5].fails <=> ~verify_shred_slots(p.slot, p.slot - p.parent_offset)
        /\ q[6].fails <=> Unexpected(p) /\ Discards(p.slot)
        /\ q[7].fails <=> last_in_slot(p) /\ ~check_last_data_shred_index(p.index)
        /\ q[8].fails <=> ~check_fixed_fec_set(p.index, p.fec_set_index)
    <3>1. q[1].fails <=> p.version # Version
      <4>1. q[1].fails = Check(p.version # Version, "shred_version_mismatch").fails
        BY <2>1
      <4> QED
        BY <4>1 DEF Check
    <3>2. q[2].fails <=> p.slot > MaxSlot
      <4>1. q[2].fails = Check(p.slot > MaxSlot, "slot_out_of_range").fails
        BY <2>1
      <4> QED
        BY <4>1 DEF Check
    <3>3. q[3].fails <=> p.index >= MaxShreds
      <4>1. q[3].fails = Check(p.index >= MaxShreds, "index_out_of_bounds").fails
        BY <2>1
      <4> QED
        BY <4>1 DEF Check
    <3>4. q[4].fails <=> p.parent_offset > p.slot
      <4>1. q[4].fails = Check(p.parent_offset > p.slot, "bad_parent_offset").fails
        BY <2>1
      <4> QED
        BY <4>1 DEF Check
    <3>5. q[5].fails <=> ~verify_shred_slots(p.slot, p.slot - p.parent_offset)
      <4>1. q[5].fails = Check(~verify_shred_slots(p.slot, p.slot - p.parent_offset), "slot_out_of_range").fails
        BY <2>1
      <4> QED
        BY <4>1 DEF Check
    <3>6. q[6].fails <=> Unexpected(p) /\ Discards(p.slot)
      <4>1. q[6].fails = Check(Unexpected(p) /\ Discards(p.slot), "unexpected_data_complete_shred").fails
        BY <2>1
      <4> QED
        BY <4>1 DEF Check
    <3>7. q[7].fails <=> last_in_slot(p) /\ ~check_last_data_shred_index(p.index)
      <4>1. q[7].fails = Check(last_in_slot(p) /\ ~check_last_data_shred_index(p.index), "misaligned_last_data_index").fails
        BY <2>1
      <4> QED
        BY <4>1 DEF Check
    <3>8. q[8].fails <=> ~check_fixed_fec_set(p.index, p.fec_set_index)
      <4>1. q[8].fails = Check(~check_fixed_fec_set(p.index, p.fec_set_index), "misaligned_fec_set").fails
        BY <2>1
      <4> QED
        BY <4>1 DEF Check
    <3> QED
      BY <3>1, <3>2, <3>3, <3>4, <3>5, <3>6, <3>7, <3>8, Zenon
  <2>5. (\E i \in 1..Len(q) : q[i].fails) <=>
          \/ q[1].fails \/ q[2].fails \/ q[3].fails \/ q[4].fails
          \/ q[5].fails \/ q[6].fails \/ q[7].fails \/ q[8].fails
    BY <2>2, <2>3
  <2>6. should_discard_shred(p) <=>
          ~ /\ p.version = Version
            /\ p.slot <= MaxSlot
            /\ p.index < MaxShreds
            /\ p.parent_offset <= p.slot
            /\ verify_shred_slots(p.slot, p.slot - p.parent_offset)
            /\ ~(Unexpected(p) /\ Discards(p.slot))
            /\ (last_in_slot(p) => check_last_data_shred_index(p.index))
            /\ check_fixed_fec_set(p.index, p.fec_set_index)
    BY <1>3 DEF should_discard_shred, KeepsData
  <2>7. p.slot \in Nat /\ p.index \in Nat /\ p.parent_offset \in Nat /\ MaxSlot \in Nat /\ MaxShreds \in Nat
    BY <1>3
  <2>8. /\ p.slot > MaxSlot <=> ~(p.slot <= MaxSlot)
        /\ p.index >= MaxShreds <=> ~(p.index < MaxShreds)
        /\ p.parent_offset > p.slot <=> ~(p.parent_offset <= p.slot)
    BY <2>7
  <2>10. /\ Len(q) \in Nat
         /\ \A i \in 1..Len(q) : q[i].counter \in DiscardCounters
         /\ (\E i \in 1..Len(q) : q[i].fails) <=> should_discard_shred(p)
    BY <2>1, <2>2, <2>3, <2>4, <2>5, <2>6, <2>8
  <2> QED
    BY <2>10 DEF q
<1> QED
  BY <1>1, <1>2, <1>3 DEF Readable

LEMMA FirstFailedIs ==
  ASSUME NEW p \in Packets, root \in Nat
  PROVE  /\ FirstFailed(p) # 0 <=> should_discard_shred(p)
         /\ FirstFailed(p) # 0 => Checks(p)[FirstFailed(p)].counter \in DiscardCounters
<1> DEFINE q == Checks(p)
           I == {i \in 1..Len(q) : q[i].fails}
<1>1. /\ Len(q) \in Nat
      /\ \A i \in 1..Len(q) : q[i].counter \in DiscardCounters
      /\ (\E i \in 1..Len(q) : q[i].fails) <=> should_discard_shred(p)
  BY ChecksAgree
<1>2. FirstFailed(p) = IF I # {} THEN Min(I) ELSE 0
  BY DEF FirstFailed, SelectInSeq
<1>3. I # {} <=> should_discard_shred(p)
  <2> HIDE DEF q
  <2> QED
    BY <1>1
<1>4. I # {} => Min(I) \in 1..Len(q)
  <2>1. I \in SUBSET Nat /\ I \subseteq 1..Len(q)
    BY <1>1
  <2> HIDE DEF I
  <2> QED
    BY <2>1, MinOf
<1> HIDE DEF I, q
<1>5. I # {} => Min(I) # 0
  BY <1>4
<1> QED
  BY <1>1, <1>2, <1>3, <1>4, <1>5 DEF q

Unexpecteds == {"unexpected_data_complete_shred"}

(* A packet adds one to a counter of kept shreds or to one of discards,    *)
(* and maybe one to that of the unexpected data-complete shreds.           *)
LEMMA CountersOfKept ==
  ASSUME NEW p \in Packets, root \in Nat, ~should_discard_shred(p)
  PROVE  /\ Cardinality(KeptCounters \cap CountersOf(p)) = 1
         /\ DiscardCounters \cap CountersOf(p) = Unexpecteds \cap CountersOf(p)
<1> DEFINE k == IF p.variant = "code" THEN "num_shreds_merkle_code_chained"
                ELSE "num_shreds_merkle_data_chained"
           U == IF CountedUnexpected(p) THEN {"unexpected_data_complete_shred"} ELSE {}
<1>1. FirstFailed(p) = 0
  BY FirstFailedIs
<1>2. CountersOf(p) = U \cup {k}
  BY <1>1 DEF CountersOf
<1>3. U \subseteq Unexpecteds
  BY DEF Unexpecteds
<1>4. k \in KeptCounters /\ k \notin DiscardCounters
  BY DEF KeptCounters, DiscardCounters
<1> HIDE DEF k, U
<1>5. KeptCounters \cap Unexpecteds = {} /\ Unexpecteds \subseteq DiscardCounters
  BY DEF KeptCounters, DiscardCounters, Unexpecteds
<1>6. KeptCounters \cap CountersOf(p) = {k}
  BY <1>2, <1>3, <1>4, <1>5
<1>7. DiscardCounters \cap CountersOf(p) = Unexpecteds \cap CountersOf(p)
  BY <1>2, <1>3, <1>4, <1>5
<1> QED
  BY <1>6, <1>7, FS_Singleton

LEMMA CountersOfDiscarded ==
  ASSUME NEW p \in Packets, root \in Nat, should_discard_shred(p)
  PROVE  /\ KeptCounters \cap CountersOf(p) = {}
         /\ \E k \in DiscardCounters :
              DiscardCounters \cap CountersOf(p) = (Unexpecteds \cap CountersOf(p)) \cup {k}
<1> DEFINE k == Checks(p)[FirstFailed(p)].counter
           U == IF CountedUnexpected(p) THEN {"unexpected_data_complete_shred"} ELSE {}
<1>1. FirstFailed(p) # 0 /\ k \in DiscardCounters
  BY FirstFailedIs
<1>2. CountersOf(p) = U \cup {k}
  BY <1>1 DEF CountersOf
<1>3. U \subseteq Unexpecteds
  BY DEF Unexpecteds
<1> HIDE DEF k, U
<1>4. KeptCounters \cap DiscardCounters = {} /\ Unexpecteds \subseteq DiscardCounters
  BY DEF KeptCounters, DiscardCounters, Unexpecteds
<1> QED
  BY <1>1, <1>2, <1>3, <1>4

LEMMA FiniteCounters ==
  IsFiniteSet(KeptCounters) /\ IsFiniteSet(DiscardCounters)
<1>1. \A a, b : IsFiniteSet({a, b})
  <2> SUFFICES ASSUME NEW a, NEW b PROVE IsFiniteSet({a, b})
    OBVIOUS
  <2>1. IsFiniteSet({a}) /\ {a, b} = {a} \cup {b}
    BY FS_Singleton
  <2> QED
    BY <2>1, FS_AddElement
<1>2. \A a, b, c, d, e, f, g, h, i : IsFiniteSet({a, b, c, d, e, f, g, h, i})
  <2> SUFFICES ASSUME NEW a, NEW b, NEW c, NEW d, NEW e, NEW f, NEW g, NEW h, NEW i
               PROVE  IsFiniteSet({a, b, c, d, e, f, g, h, i})
    OBVIOUS
  <2>1. IsFiniteSet({a, b}) /\ IsFiniteSet({c, d}) /\ IsFiniteSet({e, f})
        /\ IsFiniteSet({g, h}) /\ IsFiniteSet({i})
    BY <1>1, FS_Singleton
  <2>2. IsFiniteSet({a, b} \cup {c, d}) /\ IsFiniteSet({e, f} \cup {g, h})
    BY <2>1, FS_Union
  <2>3. IsFiniteSet(({a, b} \cup {c, d}) \cup ({e, f} \cup {g, h}))
    BY <2>2, FS_Union
  <2>4. IsFiniteSet((({a, b} \cup {c, d}) \cup ({e, f} \cup {g, h})) \cup {i})
    BY <2>1, <2>3, FS_Union
  <2>5. (({a, b} \cup {c, d}) \cup ({e, f} \cup {g, h})) \cup {i}
          = {a, b, c, d, e, f, g, h, i}
    OBVIOUS
  <2> QED
    BY <2>4, <2>5
<1> QED
  BY <1>1, <1>2 DEF KeptCounters, DiscardCounters

-----------------------------------------------------------------------------
(* What makes the accounting inductive: the counters, the history and the  *)
(* root are numbers.                                                       *)
CountInv ==
    /\ stats \in [KeptCounters \cup DiscardCounters -> Nat]
    /\ root \in Nat /\ seen.kept \in Nat /\ seen.discarded \in Nat
    /\ seen = [kept |-> seen.kept, discarded |-> seen.discarded]
    /\ EveryPacketIsCounted

Accounts(w, u) ==
    LET unexpected == w["unexpected_data_complete_shred"]
        discards == SumOf(w, DiscardCounters)
    IN  /\ SumOf(w, KeptCounters) = u.kept
        /\ u.discarded \in discards - unexpected..discards

LEMMA AccountsNow == EveryPacketIsCounted <=> Accounts(stats, seen)
BY DEF EveryPacketIsCounted, Accounts, Sum, SumOf

LEMMA AccountsThen == EveryPacketIsCounted' <=> Accounts(stats', seen')
<1>1. Accounts(stats, seen)' <=> Accounts(stats', seen')
  OBVIOUS
<1>2. EveryPacketIsCounted' <=> Accounts(stats, seen)'
  BY AccountsNow, PTL
<1> QED
  BY <1>1, <1>2

LEMMA NothingToCount ==
  Accounts(NoCounts, [kept |-> 0, discarded |-> 0])
<1>1. /\ \A c \in KeptCounters : NoCounts[c] = 0
      /\ \A c \in DiscardCounters : NoCounts[c] = 0
      /\ NoCounts["unexpected_data_complete_shred"] = 0
  BY DEF NoCounts, DiscardCounters
<1>2. SumOf(NoCounts, KeptCounters) = 0 /\ SumOf(NoCounts, DiscardCounters) = 0
  BY <1>1, SumOfNone, FiniteCounters
<1> QED
  BY <1>1, <1>2 DEF Accounts

(* What a packet with the counters C does to the sums. *)
OneMore(w, v, C) == v = [c \in DOMAIN w |-> w[c] + (IF c \in C THEN 1 ELSE 0)]

LEMMA SumsWith ==
  ASSUME NEW w \in [KeptCounters \cup DiscardCounters -> Nat], NEW C, NEW v,
         OneMore(w, v, C)
  PROVE  /\ v \in [KeptCounters \cup DiscardCounters -> Nat]
         /\ SumOf(w, KeptCounters) \in Nat /\ SumOf(w, DiscardCounters) \in Nat
         /\ SumOf(v, KeptCounters) = SumOf(w, KeptCounters) + Cardinality(KeptCounters \cap C)
         /\ SumOf(v, DiscardCounters) = SumOf(w, DiscardCounters) + Cardinality(DiscardCounters \cap C)
         /\ w["unexpected_data_complete_shred"] \in Nat
         /\ Cardinality(Unexpecteds \cap C) \in {0, 1}
         /\ v["unexpected_data_complete_shred"] =
              w["unexpected_data_complete_shred"] + Cardinality(Unexpecteds \cap C)
<1> DEFINE K == KeptCounters
           D == DiscardCounters
           x == "unexpected_data_complete_shred"
<1>1. x \in D /\ Unexpecteds = {x}
  BY DEF DiscardCounters, Unexpecteds
<1>2. IsFiniteSet(K) /\ IsFiniteSet(D)
  BY FiniteCounters
<1>3. w \in [K \cup D -> Nat] /\ v = [c \in K \cup D |-> w[c] + (IF c \in C THEN 1 ELSE 0)]
  BY DEF OneMore
<1> HIDE DEF K, D, x
<1>4. v \in [K \cup D -> Nat]
  BY <1>3
<1>5. GrowsOn(K, w, v, C) /\ GrowsOn(D, w, v, C)
  BY <1>3 DEF GrowsOn
<1>6. /\ SumOf(w, K) \in Nat /\ SumOf(v, K) = SumOf(w, K) + Cardinality(K \cap C)
      /\ SumOf(w, D) \in Nat /\ SumOf(v, D) = SumOf(w, D) + Cardinality(D \cap C)
  <2>1. SumOf(w, K) \in Nat /\ SumOf(v, K) = SumOf(w, K) + Cardinality(K \cap C)
    BY <1>2, <1>5, SumStep
  <2>2. SumOf(w, D) \in Nat /\ SumOf(v, D) = SumOf(w, D) + Cardinality(D \cap C)
    BY <1>2, <1>5, SumStep
  <2> QED
    BY <2>1, <2>2
<1>7. w[x] \in Nat /\ v[x] = w[x] + (IF x \in C THEN 1 ELSE 0)
  BY <1>1, <1>3
<1>8. Cardinality(Unexpecteds \cap C) = IF x \in C THEN 1 ELSE 0
  <2>1. CASE x \in C
    <3>1. Unexpecteds \cap C = {x}
      BY <1>1, <2>1
    <3> QED
      BY <2>1, <3>1, FS_Singleton
  <2>2. CASE x \notin C
    <3>1. Unexpecteds \cap C = {}
      BY <1>1, <2>2
    <3> QED
      BY <2>2, <3>1, FS_EmptySet
  <2> QED
    BY <2>1, <2>2
<1>9. /\ Cardinality(Unexpecteds \cap C) \in {0, 1}
      /\ v[x] = w[x] + Cardinality(Unexpecteds \cap C)
  BY <1>7, <1>8
<1> QED
  BY <1>4, <1>6, <1>7, <1>9, Zenon DEF K, D, x

LEMMA KeptIsCounted ==
  ASSUME NEW w \in [KeptCounters \cup DiscardCounters -> Nat], NEW C, NEW v,
         OneMore(w, v, C),
         NEW k \in Nat, NEW d \in Nat, Accounts(w, [kept |-> k, discarded |-> d]),
         Cardinality(KeptCounters \cap C) = 1,
         DiscardCounters \cap C = Unexpecteds \cap C
  PROVE  Accounts(v, [kept |-> k + 1, discarded |-> d])
<1> DEFINE x == "unexpected_data_complete_shred"
           A == SumOf(w, DiscardCounters)
           B == SumOf(v, DiscardCounters)
           u == Cardinality(Unexpecteds \cap C)
<1>0. SumOf(w, KeptCounters) = k /\ d \in A - w[x]..A
  BY DEF Accounts
<1>1. /\ SumOf(v, KeptCounters) = SumOf(w, KeptCounters) + Cardinality(KeptCounters \cap C)
      /\ A \in Nat /\ w[x] \in Nat /\ u \in {0, 1}
      /\ B = A + Cardinality(DiscardCounters \cap C) /\ v[x] = w[x] + u
  BY SumsWith
<1>3. SumOf(v, KeptCounters) = k + 1 /\ B = A + u
  BY <1>0, <1>1
<1> HIDE DEF x, A, B, u
<1>2. d \in B - v[x]..B
  BY <1>0, <1>1, <1>3
<1> QED
  BY <1>2, <1>3 DEF Accounts, x, A, B

LEMMA DiscardIsCounted ==
  ASSUME NEW w \in [KeptCounters \cup DiscardCounters -> Nat], NEW C, NEW v,
         OneMore(w, v, C),
         NEW k \in Nat, NEW d \in Nat, Accounts(w, [kept |-> k, discarded |-> d]),
         KeptCounters \cap C = {},
         NEW c0 \in DiscardCounters, DiscardCounters \cap C = (Unexpecteds \cap C) \cup {c0}
  PROVE  Accounts(v, [kept |-> k, discarded |-> d + 1])
<1> DEFINE x == "unexpected_data_complete_shred"
           A == SumOf(w, DiscardCounters)
           B == SumOf(v, DiscardCounters)
           u == Cardinality(Unexpecteds \cap C)
           e == Cardinality(DiscardCounters \cap C)
<1>1. /\ SumOf(w, KeptCounters) \in Nat
      /\ SumOf(v, KeptCounters) = SumOf(w, KeptCounters) + Cardinality(KeptCounters \cap C)
      /\ A \in Nat /\ w[x] \in Nat /\ u \in {0, 1}
      /\ B = A + e /\ v[x] = w[x] + u
  BY SumsWith
<1>0. SumOf(w, KeptCounters) = k /\ d \in A - w[x]..A
  BY DEF Accounts
<1>2. SumOf(v, KeptCounters) = k
  <2>1. Cardinality(KeptCounters \cap C) = 0
    BY FS_EmptySet
  <2> QED
    BY <1>0, <1>1, <2>1
<1>3. e \in {1, u + 1} /\ IsFiniteSet(Unexpecteds \cap C)
  <2>1. IsFiniteSet(Unexpecteds) /\ Cardinality(Unexpecteds) = 1
    BY FS_Singleton DEF Unexpecteds
  <2>2. IsFiniteSet(Unexpecteds \cap C)
    BY <2>1, FS_Subset
  <2>3. CASE c0 \in Unexpecteds \cap C
    <3>1. DiscardCounters \cap C = {x}
      BY <2>3 DEF Unexpecteds
    <3> QED
      BY <2>2, <3>1, FS_Singleton
  <2>4. CASE c0 \notin Unexpecteds \cap C
    <3>1. e = u + 1
      BY <2>2, <2>4, FS_AddElement
    <3> QED
      BY <2>2, <3>1
  <2> QED
    BY <2>3, <2>4
<1> HIDE DEF x, A, B, u, e
<1>4. d + 1 \in B - v[x]..B
  BY <1>0, <1>1, <1>3
<1> QED
  BY <1>2, <1>4 DEF Accounts, x, B

LEMMA FilterCounts == ASSUME NEW p \in Packets, CountInv, Filter(p) PROVE CountInv'
<1>1. /\ stats \in [KeptCounters \cup DiscardCounters -> Nat]
      /\ root \in Nat /\ seen.kept \in Nat /\ seen.discarded \in Nat
      /\ seen = [kept |-> seen.kept, discarded |-> seen.discarded]
      /\ Accounts(stats, seen)
  BY AccountsNow DEF CountInv
<1>2. PICK s : s = stats
  OBVIOUS
<1>3. PICK t : t = stats'
  OBVIOUS
<1>4. PICK C0 : C0 = CountersOf(p)
  OBVIOUS
<1>5. PICK k, d : k = seen.kept /\ d = seen.discarded
  OBVIOUS
<1>6. /\ s \in [KeptCounters \cup DiscardCounters -> Nat] /\ k \in Nat /\ d \in Nat
      /\ Accounts(s, [kept |-> k, discarded |-> d]) /\ seen = [kept |-> k, discarded |-> d]
  BY <1>1, <1>2, <1>5
<1>7. OneMore(s, t, C0)
  BY <1>2, <1>3, <1>4 DEF Filter, OneMore
<1>8. t \in [KeptCounters \cup DiscardCounters -> Nat]
  BY <1>6, <1>7, SumsWith
<1>9. root' \in Nat
  BY <1>1 DEF Filter, vars
<1> SUFFICES /\ Accounts(stats', seen') /\ seen'.kept \in Nat /\ seen'.discarded \in Nat
             /\ seen' = [kept |-> seen'.kept, discarded |-> seen'.discarded]
  BY <1>3, <1>8, <1>9, AccountsThen DEF CountInv
<1>10. CASE should_discard_shred(p)
  <2>1. seen' = [kept |-> k, discarded |-> d + 1]
    BY <1>6, <1>10 DEF Filter
  <2>2. KeptCounters \cap C0 = {}
    BY <1>1, <1>4, <1>10, CountersOfDiscarded
  <2>3. PICK c0 \in DiscardCounters : DiscardCounters \cap C0 = (Unexpecteds \cap C0) \cup {c0}
    BY <1>1, <1>4, <1>10, CountersOfDiscarded
  <2>4. Accounts(t, [kept |-> k, discarded |-> d + 1])
    BY <1>6, <1>7, <2>2, <2>3, DiscardIsCounted
  <2> QED
    BY <1>3, <1>6, <2>1, <2>4
<1>11. CASE ~should_discard_shred(p)
  <2>1. seen' = [kept |-> k + 1, discarded |-> d]
    BY <1>6, <1>11 DEF Filter
  <2>2. /\ Cardinality(KeptCounters \cap C0) = 1
        /\ DiscardCounters \cap C0 = Unexpecteds \cap C0
    BY <1>1, <1>4, <1>11, CountersOfKept
  <2>3. Accounts(t, [kept |-> k + 1, discarded |-> d])
    BY <1>6, <1>7, <2>2, KeptIsCounted
  <2> QED
    BY <1>3, <1>6, <2>1, <2>3
<1> QED
  BY <1>10, <1>11

LEMMA ResetCounts ==
  ASSUME root' \in Nat, stats' = NoCounts, seen' = [kept |-> 0, discarded |-> 0]
  PROVE  CountInv'
<1>1. Accounts(stats', seen')
  BY NothingToCount
<1>2. stats' \in [KeptCounters \cup DiscardCounters -> Nat]
  BY DEF NoCounts
<1> QED
  BY <1>1, <1>2, AccountsThen DEF CountInv

LEMMA CountStep == CountInv /\ [StatsNext]_<<vars, statsVars>> => CountInv'
<1> SUFFICES ASSUME CountInv, [StatsNext]_<<vars, statsVars>> PROVE CountInv'
  OBVIOUS
<1>0. root \in Nat
  BY DEF CountInv
<1>1. CASE \E p \in Packets : Filter(p)
  BY <1>1, FilterCounts
<1>2. CASE MaybeSubmit \/ NewStats
  <2>1. stats' = NoCounts /\ seen' = [kept |-> 0, discarded |-> 0] /\ root' = root
    BY <1>2 DEF MaybeSubmit, NewStats, Reset, vars
  <2> QED
    BY <1>0, <2>1, ResetCounts
<1>3. CASE stats' = stats /\ seen' = seen /\ root' \in Nat
  <2>1. Accounts(stats', seen')
    BY <1>3, AccountsNow DEF CountInv
  <2> QED
    BY <1>3, <2>1, AccountsThen DEF CountInv
<1>4. CASE Tick
  BY <1>0, <1>3, <1>4 DEF Tick, vars
<1>5. CASE NewRoot /\ UNCHANGED statsVars
  BY <1>0, <1>3, <1>5 DEF NewRoot, statsVars
<1>6. CASE UNCHANGED <<vars, statsVars>>
  BY <1>0, <1>3, <1>6 DEF vars, statsVars
<1> QED
  BY <1>1, <1>2, <1>4, <1>5, <1>6 DEF StatsNext

(* Whatever the packets and the roots are, and whenever the statistics are *)
(* submitted or begun anew: the counters of should_discard_shred (lib.rs   *)
(* 756-889) add up to the packets kept and discarded since the last reset, *)
(* the latter up to what is counted as unexpected data-complete shreds.    *)
THEOREM Counted == StatsSpec => []EveryPacketIsCounted
<1>1. StatsInit => CountInv
  <2> SUFFICES ASSUME StatsInit PROVE CountInv
    OBVIOUS
  <2>1. stats = NoCounts /\ seen = [kept |-> 0, discarded |-> 0] /\ root = 0
    BY DEF StatsInit, Init
  <2>2. Accounts(stats, seen)
    BY <2>1, NothingToCount
  <2>3. stats \in [KeptCounters \cup DiscardCounters -> Nat]
    BY <2>1 DEF NoCounts
  <2> QED
    BY <2>1, <2>2, <2>3, AccountsNow DEF CountInv
<1>2. CountInv => EveryPacketIsCounted
  BY DEF CountInv
<1> QED
  BY <1>1, <1>2, CountStep, PTL DEF StatsSpec

-----------------------------------------------------------------------------
(* ProcessShredsStats: counting in logs. *)
LEMMA CountsAre ==
    ASSUME NEW S, NEW q \in Seq(S), NEW these
    PROVE  /\ IsFiniteSet({i \in DOMAIN q : q[i] \in these})
           /\ Count(q, these) \in Nat
<1>1. DOMAIN q = 1..Len(q) /\ 1 \in Int /\ Len(q) \in Int
    OBVIOUS
<1>2. IsFiniteSet(1..Len(q))
    BY <1>1, FS_Interval, Zenon
<1>3. IsFiniteSet({i \in DOMAIN q : q[i] \in these})
    BY <1>1, <1>2, FS_Subset
<1> QED
    BY <1>3, FS_CardinalityType DEF Count

LEMMA CountOfNone == ASSUME NEW these PROVE Count(<<>>, these) = 0
<1>1. {i \in DOMAIN <<>> : <<>>[i] \in these} = {}
    OBVIOUS
<1> QED
    BY <1>1, FS_EmptySet DEF Count

LEMMA CountOfAppend ==
    ASSUME NEW S, NEW q \in Seq(S), NEW e \in S, NEW these
    PROVE  Count(Append(q, e), these) = Count(q, these) + IF e \in these THEN 1 ELSE 0
<1> DEFINE A == {i \in DOMAIN q : q[i] \in these}
           B == {i \in DOMAIN Append(q, e) : Append(q, e)[i] \in these}
           n == Len(q) + 1
<1>1. /\ DOMAIN Append(q, e) = 1..n /\ DOMAIN q = 1..Len(q) /\ Len(q) \in Nat
      /\ Append(q, e)[n] = e /\ \A i \in 1..Len(q) : Append(q, e)[i] = q[i]
    OBVIOUS
<1>2. IsFiniteSet(A) /\ n \notin A
  <2>1. IsFiniteSet(A)
      BY CountsAre
  <2> QED
      BY <1>1, <2>1
<1>3. CASE e \in these
  <2>1. B = A \cup {n}
      BY <1>1, <1>3
  <2>2. Cardinality(A \cup {n}) = Cardinality(A) + 1
      BY <1>2, FS_AddElement
  <2> QED
      BY <1>3, <2>1, <2>2 DEF Count
<1>4. CASE e \notin these
  <2>1. B = A
      BY <1>1, <1>4
  <2>2. Count(q, these) \in Nat /\ Count(Append(q, e), these) = Count(q, these)
      BY <2>1, CountsAre DEF Count
  <2> QED
      BY <1>4, <2>2
<1> QED
    BY <1>3, <1>4

LEMMA CountOfJoined ==
    ASSUME NEW S, NEW p \in Seq(S), NEW q \in Seq(S), NEW these
    PROVE  Count(p \o q, these) = Count(p, these) + Count(q, these)
<1> DEFINE A == {i \in DOMAIN p : p[i] \in these}
           B == {i \in DOMAIN q : q[i] \in these}
           C == {i \in DOMAIN (p \o q) : (p \o q)[i] \in these}
           n == Len(p)
           f == [i \in B |-> n + i]
           D == {n + i : i \in B}
<1>1. /\ DOMAIN p = 1..n /\ DOMAIN q = 1..Len(q) /\ n \in Nat /\ Len(q) \in Nat
      /\ DOMAIN (p \o q) = 1..n + Len(q)
      /\ \A i \in 1..n : (p \o q)[i] = p[i]
      /\ \A i \in 1..Len(q) : (p \o q)[n + i] = q[i]
    OBVIOUS
<1>2. IsFiniteSet(A) /\ IsFiniteSet(B)
    BY CountsAre
<1>3. ExistsBijection(B, D)
  <2>1. f \in [B -> D]
      OBVIOUS
  <2>2. \A i, j \in B : f[i] = f[j] => i = j
      BY <1>1
  <2>3. \A d \in D : \E i \in B : f[i] = d
      OBVIOUS
  <2>4. f \in Bijection(B, D)
      BY <2>1, <2>2, <2>3 DEF Bijection, Injection, Surjection, IsInjective
  <2> QED
      BY <2>4 DEF ExistsBijection
<1>4. IsFiniteSet(D) /\ Cardinality(D) = Cardinality(B)
    BY <1>2, <1>3, FS_Bijection
<1>5. A \cap D = {}
    BY <1>1
<1>6. C = A \cup D
  <2>1. ASSUME NEW i \in C PROVE i \in A \cup D
    <3>1. CASE i <= n
        BY <1>1, <3>1
    <3>2. CASE ~(i <= n)
      <4>1. i - n \in 1..Len(q) /\ n + (i - n) = i
          BY <1>1, <3>2
      <4>2. q[i - n] = (p \o q)[i]
          BY <1>1, <4>1
      <4>3. i - n \in B
          BY <1>1, <4>1, <4>2
      <4> QED
          BY <4>1, <4>3
    <3> QED
        BY <3>1, <3>2
  <2>2. ASSUME NEW i \in A PROVE i \in C
      BY <1>1
  <2>3. ASSUME NEW i \in B PROVE n + i \in C
      BY <1>1
  <2> QED
      BY <2>1, <2>2, <2>3
<1>7. Cardinality(A \cup D) = Cardinality(A) + Cardinality(D) - Cardinality(A \cap D)
    BY <1>2, <1>4, FS_Union
<1>8. Cardinality(A \cap D) = 0 /\ Cardinality(A) \in Nat /\ Cardinality(B) \in Nat
    BY <1>2, <1>5, FS_EmptySet, FS_CardinalityType
<1> HIDE DEF A, B, C, D
<1>9. Cardinality(C) = Cardinality(A) + Cardinality(B)
    BY <1>4, <1>6, <1>7, <1>8
<1> QED
    BY <1>9 DEF Count, A, B, C

-----------------------------------------------------------------------------
(* The bucket of a size, by its bits. *)
LEMMA LengthIs ==
    /\ BitLength \in [Nat -> Nat]
    /\ \A n \in Nat : BitLength[n] = IF n = 0 THEN 0 ELSE 1 + BitLength[n \div 2]
<1>1. BitLength = CHOOSE f : f = [n \in Nat |-> IF n = 0 THEN 0 ELSE 1 + f[n \div 2]]
    BY DEF BitLength
<1> QED
    BY <1>1, Halving

(* How often a number of more than d bits can be halved.                   *)
LEMMA LongerThan ==
    ASSUME NEW m \in Nat, NEW d \in Nat,
           \A n \in Nat : BitLength[n] > d <=> n >= m
    PROVE  \A n \in Nat : BitLength[n] > d + 1 <=> n >= 2 * m
<1> SUFFICES ASSUME NEW n \in Nat PROVE BitLength[n] > d + 1 <=> n >= 2 * m
    OBVIOUS
<1>1. n \div 2 \in Nat /\ (n \div 2 >= m <=> n >= 2 * m)
    OBVIOUS
<1>2. BitLength[n \div 2] > d <=> n \div 2 >= m
    BY <1>1
<1>3. n # 0 => BitLength[n] = 1 + BitLength[n \div 2]
    BY LengthIs
<1>4. BitLength[n \div 2] \in Nat
    BY <1>1, LengthIs
<1>5. CASE n # 0
    BY <1>1, <1>2, <1>3, <1>4, <1>5
<1>6. CASE n = 0
  <2>1. BitLength[0] = 0
      BY LengthIs
  <2>2. m > 0
    <3>1. ~(BitLength[0] > d)
        BY <2>1
    <3> QED
        BY <3>1
  <2> QED
      BY <1>6, <2>1, <2>2
<1> QED
    BY <1>5, <1>6

LEMMA LimitsAre ==
    /\ \A n \in Nat : BitLength[n] > 3 <=> n >= 8
    /\ \A n \in Nat : BitLength[n] > 4 <=> n >= 16
    /\ \A n \in Nat : BitLength[n] > 5 <=> n >= 32
    /\ \A n \in Nat : BitLength[n] > 6 <=> n >= 64
<1>1. \A n \in Nat : BitLength[n] > 0 <=> n >= 1
  <2> SUFFICES ASSUME NEW n \in Nat PROVE BitLength[n] > 0 <=> n >= 1
      OBVIOUS
  <2>1. n \div 2 \in Nat
      OBVIOUS
  <2> QED
      BY <2>1, LengthIs
<1>2. \A n \in Nat : BitLength[n] > 0 + 1 <=> n >= 2 * 1
    BY <1>1, LongerThan
<1>3. \A n \in Nat : BitLength[n] > 1 <=> n >= 2
    BY <1>2
<1>4. \A n \in Nat : BitLength[n] > 1 + 1 <=> n >= 2 * 2
    BY <1>3, LongerThan
<1>5. \A n \in Nat : BitLength[n] > 2 <=> n >= 4
    BY <1>4
<1>6. \A n \in Nat : BitLength[n] > 2 + 1 <=> n >= 2 * 4
    BY <1>5, LongerThan
<1>7. \A n \in Nat : BitLength[n] > 3 <=> n >= 8
    BY <1>6
<1>8. \A n \in Nat : BitLength[n] > 3 + 1 <=> n >= 2 * 8
    BY <1>7, LongerThan
<1>9. \A n \in Nat : BitLength[n] > 4 <=> n >= 16
    BY <1>8
<1>10. \A n \in Nat : BitLength[n] > 4 + 1 <=> n >= 2 * 16
    BY <1>9, LongerThan
<1>11. \A n \in Nat : BitLength[n] > 5 <=> n >= 32
    BY <1>10
<1>12. \A n \in Nat : BitLength[n] > 5 + 1 <=> n >= 2 * 32
    BY <1>11, LongerThan
<1>13. \A n \in Nat : BitLength[n] > 6 <=> n >= 64
    BY <1>12
<1> QED
    BY <1>7, <1>9, <1>11, <1>13

LEMMA BucketsAre ==
    ASSUME NEW n \in Sizes
    PROVE  /\ Bucket(n) \in 0..4
           /\ \A i \in 0..4 : n \in SizesOf(i) <=> i = Bucket(n)
<1>1. n \in Nat /\ UsizeBits \in Nat /\ BitLength[n] \in Nat /\ BitLength[n] <= UsizeBits
    BY WidthAssumption, LengthIs
<1> DEFINE d == BitLength[n]
<1>2. /\ (d > 3 <=> n >= 8) /\ (d > 4 <=> n >= 16) /\ (d > 5 <=> n >= 32) /\ (d > 6 <=> n >= 64)
    BY <1>1, LimitsAre
<1>3. UsizeBits - leading_zeros(n) = d
    BY <1>1 DEF leading_zeros
<1>4. Bucket(n) = IF d < 3 THEN 0 ELSE IF d - 3 < 4 THEN d - 3 ELSE 4
    BY <1>1, <1>3 DEF Bucket, AtMost, saturating_sub, Buckets
<1>5. Bucket(n) \in 0..4
    BY <1>1, <1>4
<1> HIDE DEF d
<1>6. /\ n \in SizesOf(0) <=> n < 8
      /\ n \in SizesOf(1) <=> 8 <= n /\ n < 16
      /\ n \in SizesOf(2) <=> 16 <= n /\ n < 32
      /\ n \in SizesOf(3) <=> 32 <= n /\ n < 64
      /\ n \in SizesOf(4) <=> 64 <= n
    BY <1>1 DEF SizesOf
<1>7. /\ n \in SizesOf(0) <=> 0 = Bucket(n)
      /\ n \in SizesOf(1) <=> 1 = Bucket(n)
      /\ n \in SizesOf(2) <=> 2 = Bucket(n)
      /\ n \in SizesOf(3) <=> 3 = Bucket(n)
      /\ n \in SizesOf(4) <=> 4 = Bucket(n)
    BY <1>1, <1>2, <1>4, <1>6 DEF d
<1>8. ASSUME NEW i \in 0..4 PROVE n \in SizesOf(i) <=> i = Bucket(n)
  <2>1. i = 0 \/ i = 1 \/ i = 2 \/ i = 3 \/ i = 4
      OBVIOUS
  <2> QED
      BY <1>7, <2>1
<1> QED
    BY <1>5, <1>8

-----------------------------------------------------------------------------
(* What is recorded, and what accounts for it. *)
Events == [size : Nat, type : {"size", "data", "coding", "elapsed"}]

Statistics == [hist : [0..4 -> Nat], data : Nat, coding : Nat, elapsed : Nat]

Kept(s, events) == s \in Statistics /\ events \in Seq(Events) /\ AccountFor(s, events)

ProcessInv ==
    /\ recorded = [w \in Worker |-> recorded[w]] /\ log = [w \in Worker |-> log[w]]
    /\ \A w \in Worker : Kept(recorded[w], log[w])
    /\ Kept(total, totalLog)

(* The four kinds of events that have a counter. *)
OfBucket(i) == {Event(n, "size") : n \in SizesOf(i)}

LEMMA NothingRecorded == Kept(Default, <<>>)
<1>1. Default \in Statistics
    BY DEF Default, Statistics, Buckets
<1>2. AccountFor(Default, <<>>)
    BY CountOfNone DEF AccountFor, Default
<1> QED
    BY <1>1, <1>2 DEF Kept

LEMMA CountOfEvents ==
    \A events, e, these : events \in Seq(Events) /\ e \in Events =>
      Count(Append(events, e), these) = Count(events, these) + IF e \in these THEN 1 ELSE 0
BY CountOfAppend, Zenon

LEMMA KeptByAll ==
    ASSUME NEW s, NEW events, NEW t, NEW e \in Events, Kept(s, events), t \in Statistics,
           \A i \in 0..4 : t.hist[i] = s.hist[i] + IF e \in OfBucket(i) THEN 1 ELSE 0,
           t.data = s.data + IF e = Event(0, "data") THEN 1 ELSE 0,
           t.coding = s.coding + IF e = Event(0, "coding") THEN 1 ELSE 0,
           t.elapsed = s.elapsed + IF e = Event(0, "elapsed") THEN 1 ELSE 0
    PROVE  Kept(t, Append(events, e))
<1>1. events \in Seq(Events) /\ Append(events, e) \in Seq(Events)
    BY DEF Kept
<1>2. ASSUME NEW these
      PROVE  Count(Append(events, e), these) = Count(events, these) + IF e \in these THEN 1 ELSE 0
    BY <1>1, CountOfEvents, ZenonT(60)
<1>3. ASSUME NEW i \in 0..Buckets - 1 PROVE t.hist[i] = Count(Append(events, e), OfBucket(i))
  <2>1. i \in 0..4
      BY DEF Buckets
  <2>2. s.hist[i] = Count(events, OfBucket(i))
      BY DEF Kept, AccountFor, OfBucket
  <2> QED
      BY <1>2, <2>1, <2>2
<1>4. t.data = Count(Append(events, e), {Event(0, "data")})
  <2>1. e \in {Event(0, "data")} <=> e = Event(0, "data")
      OBVIOUS
  <2>2. s.data = Count(events, {Event(0, "data")})
      BY DEF Kept, AccountFor
  <2> QED
      BY <1>2, <2>1, <2>2
<1>5. t.coding = Count(Append(events, e), {Event(0, "coding")})
  <2>1. e \in {Event(0, "coding")} <=> e = Event(0, "coding")
      OBVIOUS
  <2>2. s.coding = Count(events, {Event(0, "coding")})
      BY DEF Kept, AccountFor
  <2> QED
      BY <1>2, <2>1, <2>2
<1>6. t.elapsed = Count(Append(events, e), {Event(0, "elapsed")})
  <2>1. e \in {Event(0, "elapsed")} <=> e = Event(0, "elapsed")
      OBVIOUS
  <2>2. s.elapsed = Count(events, {Event(0, "elapsed")})
      BY DEF Kept, AccountFor
  <2> QED
      BY <1>2, <2>1, <2>2
<1> QED
    BY <1>1, <1>3, <1>4, <1>5, <1>6 DEF Kept, AccountFor, OfBucket

LEMMA KeptWhenJoined ==
    ASSUME NEW s, NEW p, NEW t, NEW q, Kept(s, p), Kept(t, q)
    PROVE  Kept(add_assign(s, t), p \o q)
<1>1. p \in Seq(Events) /\ q \in Seq(Events) /\ p \o q \in Seq(Events)
    BY DEF Kept
<1>2. ASSUME NEW these PROVE Count(p \o q, these) = Count(p, these) + Count(q, these)
    BY <1>1, CountOfJoined, Zenon
<1>3. s \in Statistics /\ t \in Statistics /\ AccountFor(s, p) /\ AccountFor(t, q)
    BY DEF Kept
<1>4. add_assign(s, t) \in Statistics
    BY <1>3 DEF add_assign, Statistics, Buckets
<1>5. ASSUME NEW i \in 0..Buckets - 1 PROVE add_assign(s, t).hist[i] = Count(p \o q, OfBucket(i))
  <2>1. add_assign(s, t).hist[i] = s.hist[i] + t.hist[i]
      BY DEF add_assign
  <2>2. s.hist[i] = Count(p, OfBucket(i)) /\ t.hist[i] = Count(q, OfBucket(i))
      BY <1>3 DEF AccountFor, OfBucket
  <2> QED
      BY <1>2, <2>1, <2>2
<1>6. /\ add_assign(s, t).data = Count(p \o q, {Event(0, "data")})
      /\ add_assign(s, t).coding = Count(p \o q, {Event(0, "coding")})
      /\ add_assign(s, t).elapsed = Count(p \o q, {Event(0, "elapsed")})
    BY <1>2, <1>3 DEF add_assign, AccountFor
<1> QED
    BY <1>1, <1>4, <1>5, <1>6 DEF Kept, AccountFor, OfBucket

(* Each of the recording actions. *)
LEMMA SizeIsKept ==
    ASSUME NEW n \in Sizes, NEW s, NEW events, Kept(s, events)
    PROVE  Kept([s EXCEPT !.hist[Bucket(n)] = @ + 1], Append(events, Event(n, "size")))
<1> DEFINE e == Event(n, "size")
           t == [s EXCEPT !.hist[Bucket(n)] = @ + 1]
<1>1. e \in Events /\ e.type = "size" /\ e.size = n
    BY WidthAssumption DEF Events, Event
<1>2. Bucket(n) \in 0..4 /\ s \in Statistics
    BY BucketsAre DEF Kept
<1>3. t \in Statistics
    BY <1>2 DEF Statistics
<1>4. ASSUME NEW i \in 0..4 PROVE t.hist[i] = s.hist[i] + IF e \in OfBucket(i) THEN 1 ELSE 0
  <2>1. e \in OfBucket(i) <=> n \in SizesOf(i)
      BY DEF OfBucket, Event
  <2>2. e \in OfBucket(i) <=> i = Bucket(n)
      BY <2>1, BucketsAre
  <2>3. t.hist[i] = IF i = Bucket(n) THEN s.hist[i] + 1 ELSE s.hist[i]
      BY <1>2 DEF Statistics
  <2>4. s.hist[i] \in Nat
      BY <1>2 DEF Statistics
  <2> QED
      BY <2>2, <2>3, <2>4
<1>5. e # Event(0, "data") /\ e # Event(0, "coding") /\ e # Event(0, "elapsed")
    BY DEF Event
<1>6. t.data = s.data /\ t.coding = s.coding /\ t.elapsed = s.elapsed
    BY <1>2 DEF Statistics
<1>7. s.data \in Nat /\ s.coding \in Nat /\ s.elapsed \in Nat
    BY <1>2 DEF Statistics
<1> HIDE DEF e, t
<1>8. /\ t.data = s.data + IF e = Event(0, "data") THEN 1 ELSE 0
      /\ t.coding = s.coding + IF e = Event(0, "coding") THEN 1 ELSE 0
      /\ t.elapsed = s.elapsed + IF e = Event(0, "elapsed") THEN 1 ELSE 0
    BY <1>5, <1>6, <1>7
<1>9. Kept(t, Append(events, e))
    BY <1>1, <1>3, <1>4, <1>8, KeptByAll
<1> QED
    BY <1>9 DEF e, t

LEMMA OthersAreKept ==
    ASSUME NEW s, NEW events, Kept(s, events)
    PROVE  /\ Kept([s EXCEPT !.data = @ + 1], Append(events, Event(0, "data")))
           /\ Kept([s EXCEPT !.coding = @ + 1], Append(events, Event(0, "coding")))
           /\ Kept([s EXCEPT !.elapsed = @ + 1], Append(events, Event(0, "elapsed")))
<1>1. s \in Statistics
    BY DEF Kept
<1>2. ASSUME NEW e \in {Event(0, "data"), Event(0, "coding"), Event(0, "elapsed")}
      PROVE  e \in Events /\ \A i \in 0..4 : e \notin OfBucket(i)
    BY DEF Event, Events, OfBucket
<1>3. ASSUME NEW t \in Statistics, t.hist = s.hist, NEW e \in {Event(0, "data"), Event(0, "coding"), Event(0, "elapsed")}
      PROVE  \A i \in 0..4 : t.hist[i] = s.hist[i] + IF e \in OfBucket(i) THEN 1 ELSE 0
  <2>1. ASSUME NEW i \in 0..4 PROVE s.hist[i] \in Nat
      BY <1>1 DEF Statistics
  <2> QED
      BY <1>2, <1>3, <2>1
<1>4. /\ Event(0, "data") # Event(0, "coding") /\ Event(0, "data") # Event(0, "elapsed")
      /\ Event(0, "coding") # Event(0, "elapsed")
    BY DEF Event
<1>5. s.data \in Nat /\ s.coding \in Nat /\ s.elapsed \in Nat
    BY <1>1 DEF Statistics
<1>6. Kept([s EXCEPT !.data = @ + 1], Append(events, Event(0, "data")))
  <2> DEFINE t == [s EXCEPT !.data = @ + 1]
             e == Event(0, "data")
  <2>1. t \in Statistics /\ t.hist = s.hist /\ t.data = s.data + 1 /\ t.coding = s.coding /\ t.elapsed = s.elapsed
      BY <1>1 DEF Statistics
  <2>2. e \in Events /\ e \in {Event(0, "data"), Event(0, "coding"), Event(0, "elapsed")}
      BY <1>2
  <2>3. \A i \in 0..4 : t.hist[i] = s.hist[i] + IF e \in OfBucket(i) THEN 1 ELSE 0
      BY <1>3, <2>1, <2>2, Zenon
  <2> HIDE DEF t
  <2>4. /\ t.data = s.data + IF e = Event(0, "data") THEN 1 ELSE 0
        /\ t.coding = s.coding + IF e = Event(0, "coding") THEN 1 ELSE 0
        /\ t.elapsed = s.elapsed + IF e = Event(0, "elapsed") THEN 1 ELSE 0
      BY <1>4, <1>5, <2>1
  <2> HIDE DEF e
  <2>5. Kept(t, Append(events, e))
      BY <2>1, <2>2, <2>3, <2>4, KeptByAll
  <2> QED
      BY <2>5 DEF t, e
<1>7. Kept([s EXCEPT !.coding = @ + 1], Append(events, Event(0, "coding")))
  <2> DEFINE t == [s EXCEPT !.coding = @ + 1]
             e == Event(0, "coding")
  <2>1. t \in Statistics /\ t.hist = s.hist /\ t.data = s.data /\ t.coding = s.coding + 1 /\ t.elapsed = s.elapsed
      BY <1>1 DEF Statistics
  <2>2. e \in Events /\ e \in {Event(0, "data"), Event(0, "coding"), Event(0, "elapsed")}
      BY <1>2
  <2>3. \A i \in 0..4 : t.hist[i] = s.hist[i] + IF e \in OfBucket(i) THEN 1 ELSE 0
      BY <1>3, <2>1, <2>2, Zenon
  <2> HIDE DEF t
  <2>4. /\ t.data = s.data + IF e = Event(0, "data") THEN 1 ELSE 0
        /\ t.coding = s.coding + IF e = Event(0, "coding") THEN 1 ELSE 0
        /\ t.elapsed = s.elapsed + IF e = Event(0, "elapsed") THEN 1 ELSE 0
      BY <1>4, <1>5, <2>1
  <2> HIDE DEF e
  <2>5. Kept(t, Append(events, e))
      BY <2>1, <2>2, <2>3, <2>4, KeptByAll
  <2> QED
      BY <2>5 DEF t, e
<1>8. Kept([s EXCEPT !.elapsed = @ + 1], Append(events, Event(0, "elapsed")))
  <2> DEFINE t == [s EXCEPT !.elapsed = @ + 1]
             e == Event(0, "elapsed")
  <2>1. t \in Statistics /\ t.hist = s.hist /\ t.data = s.data /\ t.coding = s.coding /\ t.elapsed = s.elapsed + 1
      BY <1>1 DEF Statistics
  <2>2. e \in Events /\ e \in {Event(0, "data"), Event(0, "coding"), Event(0, "elapsed")}
      BY <1>2
  <2>3. \A i \in 0..4 : t.hist[i] = s.hist[i] + IF e \in OfBucket(i) THEN 1 ELSE 0
      BY <1>3, <2>1, <2>2, Zenon
  <2> HIDE DEF t
  <2>4. /\ t.data = s.data + IF e = Event(0, "data") THEN 1 ELSE 0
        /\ t.coding = s.coding + IF e = Event(0, "coding") THEN 1 ELSE 0
        /\ t.elapsed = s.elapsed + IF e = Event(0, "elapsed") THEN 1 ELSE 0
      BY <1>4, <1>5, <2>1
  <2> HIDE DEF e
  <2>5. Kept(t, Append(events, e))
      BY <2>1, <2>2, <2>3, <2>4, KeptByAll
  <2> QED
      BY <2>5 DEF t, e
<1> QED
    BY <1>6, <1>7, <1>8

(* A worker that records an event, and what it has recorded since.         *)
LEMMA RecordingKeeps ==
    ASSUME ProcessInv, NEW w \in Worker, NEW s, NEW event, Note(w, event),
           recorded' = [recorded EXCEPT ![w] = s], Kept(s, Append(log[w], event))
    PROVE  ProcessInv'
<1>1. log' = [log EXCEPT ![w] = Append(@, event)] /\ total' = total /\ totalLog' = totalLog
    BY DEF Note
<1>2. recorded = [v \in Worker |-> recorded[v]] /\ log = [v \in Worker |-> log[v]]
    BY DEF ProcessInv
<1>3. /\ recorded' = [v \in Worker |-> IF v = w THEN s ELSE recorded[v]]
      /\ log' = [v \in Worker |-> IF v = w THEN Append(log[w], event) ELSE log[v]]
    BY <1>1, <1>2
<1>4. recorded' = [v \in Worker |-> recorded'[v]] /\ log' = [v \in Worker |-> log'[v]]
    BY <1>3
<1>5. ASSUME NEW v \in Worker PROVE Kept(recorded'[v], log'[v])
  <2>1. CASE v = w
      BY <1>3, <2>1
  <2>2. CASE v # w
    <3>1. Kept(recorded[v], log[v])
        BY DEF ProcessInv
    <3> QED
        BY <1>3, <2>2, <3>1
  <2> QED
      BY <2>1, <2>2
<1>6. Kept(total', totalLog')
    BY <1>1 DEF ProcessInv
<1> QED
    BY <1>4, <1>5, <1>6 DEF ProcessInv

LEMMA ProcessStep == ProcessInv /\ [ProcessNext]_processVars => ProcessInv'
<1> SUFFICES ASSUME ProcessInv, [ProcessNext]_processVars PROVE ProcessInv'
    OBVIOUS
<1>0. /\ recorded = [v \in Worker |-> recorded[v]] /\ log = [v \in Worker |-> log[v]]
      /\ \A v \in Worker : Kept(recorded[v], log[v])
      /\ Kept(total, totalLog)
    BY DEF ProcessInv
<1>1. ASSUME NEW w \in Worker, NEW n \in Sizes, record_num_data_shreds(w, n) PROVE ProcessInv'
  <2>1. recorded' = [recorded EXCEPT ![w].hist[Bucket(n)] = @ + 1] /\ Note(w, Event(n, "size"))
      BY <1>1 DEF record_num_data_shreds
  <2> DEFINE s == [recorded[w] EXCEPT !.hist[Bucket(n)] = @ + 1]
  <2>2. recorded' = [recorded EXCEPT ![w] = s]
      BY <2>1
  <2>3. Kept(s, Append(log[w], Event(n, "size")))
      BY <1>0, SizeIsKept
  <2> HIDE DEF s
  <2> QED
      BY <2>1, <2>2, <2>3, RecordingKeeps
<1>2. ASSUME NEW w \in Worker, NEW type \in {"data", "coding"}, record_shred(w, type) PROVE ProcessInv'
  <2>1. Note(w, Event(0, type))
      BY <1>2 DEF record_shred
  <2>2. CASE type = "coding"
    <3> DEFINE s == [recorded[w] EXCEPT !.coding = @ + 1]
    <3>1. recorded' = [recorded EXCEPT ![w] = s]
        BY <1>2, <2>2 DEF record_shred
    <3>2. Kept(s, Append(log[w], Event(0, type)))
        BY <1>0, <2>2, OthersAreKept
    <3> HIDE DEF s
    <3> QED
        BY <2>1, <3>1, <3>2, RecordingKeeps
  <2>3. CASE type = "data"
    <3> DEFINE s == [recorded[w] EXCEPT !.data = @ + 1]
    <3>1. recorded' = [recorded EXCEPT ![w] = s]
        BY <1>2, <2>3 DEF record_shred
    <3>2. Kept(s, Append(log[w], Event(0, type)))
        BY <1>0, <2>3, OthersAreKept
    <3> HIDE DEF s
    <3> QED
        BY <2>1, <3>1, <3>2, RecordingKeeps
  <2> QED
      BY <2>2, <2>3
<1>3. ASSUME NEW w \in Worker, Elapse(w) PROVE ProcessInv'
  <2> DEFINE s == [recorded[w] EXCEPT !.elapsed = @ + 1]
  <2>1. recorded' = [recorded EXCEPT ![w] = s] /\ Note(w, Event(0, "elapsed"))
      BY <1>3 DEF Elapse
  <2>2. Kept(s, Append(log[w], Event(0, "elapsed")))
      BY <1>0, OthersAreKept
  <2> HIDE DEF s
  <2> QED
      BY <2>1, <2>2, RecordingKeeps
<1>4. ASSUME NEW w \in Worker, Add(w) PROVE ProcessInv'
  <2>1. Kept(total', totalLog')
      BY <1>0, <1>4, KeptWhenJoined DEF Add
  <2> QED
      BY <1>0, <1>4, <2>1 DEF Add, ProcessInv
<1>7. ASSUME NEW w \in Worker, BeginAnew(w) PROVE ProcessInv'
  <2>1. /\ recorded' = [v \in Worker |-> IF v = w THEN Default ELSE recorded[v]]
        /\ log' = [v \in Worker |-> IF v = w THEN <<>> ELSE log[v]]
      BY <1>0, <1>7 DEF BeginAnew
  <2>2. recorded' = [v \in Worker |-> recorded'[v]] /\ log' = [v \in Worker |-> log'[v]]
      BY <2>1
  <2>3. ASSUME NEW v \in Worker PROVE Kept(recorded'[v], log'[v])
    <3>1. CASE v = w
        BY <2>1, <3>1, NothingRecorded
    <3>2. CASE v # w
        BY <1>0, <2>1, <3>2
    <3> QED
        BY <3>1, <3>2
  <2>4. Kept(total', totalLog')
      BY <1>0, <1>7 DEF BeginAnew
  <2> QED
      BY <2>2, <2>3, <2>4 DEF ProcessInv
<1>5. ASSUME submit PROVE ProcessInv'
    BY <1>0, <1>5, NothingRecorded DEF submit, ProcessInv
<1>6. ASSUME UNCHANGED processVars PROVE ProcessInv'
    BY <1>0, <1>6 DEF processVars, ProcessInv
<1> QED
    BY <1>1, <1>2, <1>3, <1>4, <1>5, <1>6, <1>7 DEF ProcessNext

LEMMA ProcessInvariance == ProcessSpec => []ProcessInv
<1>1. ProcessInit => ProcessInv
    BY NothingRecorded DEF ProcessInit, ProcessInv
<1> QED
    BY <1>1, ProcessStep, PTL DEF ProcessSpec

(* The sum has every event as often as statistics that had it were added,  *)
(* for any number of workers, in whatever order they record, add, begin    *)
(* anew and submit (stats.rs 106-155).                                     *)
THEOREM SumAccounts == ProcessSpec => []TotalAccountsForAll
<1>1. ProcessInv => TotalAccountsForAll
    BY DEF ProcessInv, Kept, TotalAccountsForAll
<1> QED
    BY <1>1, ProcessInvariance, PTL

(* Every size is counted in the bucket of its bits, for every width of     *)
(* usize that has room for it (stats.rs 74-79).                            *)
THEOREM WorkersAccount == ProcessSpec => []WorkersAccountForTheirs
<1>1. ProcessInv => WorkersAccountForTheirs
    BY DEF ProcessInv, Kept, WorkersAccountForTheirs
<1> QED
    BY <1>1, ProcessInvariance, PTL
=============================================================================
