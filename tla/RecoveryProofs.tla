---------------------------- MODULE RecoveryProofs ----------------------------
(***************************************************************************)
(* Recovery, for every batch the parser can let through, mixed ones among  *)
(* them, and whatever the codec does: every shred in its place, what is    *)
(* yielded verifies and reparses, the lazy iterator gives out a block that *)
(* was settled before, and the fast path agrees with it.  For a block made *)
(* as it should be, with a codec that keeps its promise, the missing       *)
(* shreds come back as their leader made them.                             *)
(***************************************************************************)
EXTENDS Recovery, MerkleTreeProofs, FiniteSetTheorems, TLAPS

-----------------------------------------------------------------------------
(* Fields of a shred that tell its place; stubs and parsed shreds have them. *)
Placeable(s) ==
    /\ s.type \in {"data", "code"}
    /\ {"type", "index", "fec_set_index", "shard", "proof"} \subseteq DOMAIN s
    /\ s.type = "code" => {"num_data", "position"} \subseteq DOMAIN s
    /\ erasure_shard_index(s) \in Nat

Chosen(m) == {k \in DOMAIN m : m[k]}

(* The caller's shreds, and the order they are taken in. *)
OrderOK ==
    /\ IsSeq(input) /\ \A i \in DOMAIN input : Parsed(input[i])
    /\ IsSeq(sorted) /\ Len(sorted) = Len(input)
    /\ \A i \in DOMAIN sorted : sorted[i] \in Range(input)
    /\ IsSeq(todo) /\ \A i \in DOMAIN todo : todo[i] \in Range(input)

HeaderOK ==
    pc \in {"fill", "decoded", "iterate"} =>
      /\ {header.num_data, header.num_coding, header.first, header.fec_set_index} \subseteq Nat
      /\ Len(batch) <= NumShards

BatchOK ==
    /\ IsSeq(batch) /\ IsSeq(mask) /\ Len(mask) = Len(batch)
    /\ \A k \in DOMAIN batch :
         /\ Placeable(batch[k]) /\ erasure_shard_index(batch[k]) = k - 1
         /\ mask[k] \in BOOLEAN
         /\ mask[k] => batch[k] \in Range(input)

(* No shred is lost: those in the batch and those to come are all of them. *)
NoneLost ==
    /\ pc = "fill" => Cardinality(Chosen(mask)) + Len(todo) = Len(input)
    /\ pc \in {"decoded", "iterate"} => Cardinality(Chosen(mask)) = Len(input)

PlaceInv == OrderOK /\ HeaderOK /\ BatchOK /\ NoneLost

LEMMA InvPlaces == PlaceInv => EveryShredInItsPlace
<1> SUFFICES ASSUME PlaceInv PROVE EveryShredInItsPlace
  OBVIOUS
<1>1. ASSUME NEW k \in DOMAIN batch, mask[k] PROVE \E i \in DOMAIN input : batch[k] = input[i]
  BY <1>1 DEF PlaceInv, BatchOK, Range
<1> QED
  BY <1>1 DEF PlaceInv, BatchOK, NoneLost, EveryShredInItsPlace, Chosen

LEMMA NothingIn ==
    ASSUME NEW q, q = <<>>
    PROVE  IsSeq(q) /\ Len(q) = 0 /\ DOMAIN q = {} /\ Cardinality(Chosen(q)) = 0
<1>1. q \in Seq(Range(q)) /\ Len(q) = 0
  OBVIOUS
<1>2. DOMAIN q = {}
  BY <1>1
<1>3. Chosen(q) = {}
  BY <1>2 DEF Chosen
<1>4. Cardinality(Chosen(q)) = 0
  BY <1>3, FS_EmptySet
<1> QED
  BY <1>1, <1>2, <1>4 DEF IsSeq

LEMMA InitPlace == Init => PlaceInv
<1> SUFFICES ASSUME Init PROVE PlaceInv
  OBVIOUS
<1>1. ASSUME NEW q \in {input, sorted, todo, batch, mask}
      PROVE  IsSeq(q) /\ Len(q) = 0 /\ DOMAIN q = {}
  BY NothingIn DEF Init
<1>2. pc = "idle"
  BY DEF Init
<1> QED
  BY <1>1, <1>2 DEF PlaceInv, OrderOK, HeaderOK, BatchOK, NoneLost

(* The sort loses and invents nothing. *)
LEMMA SortFacts ==
    ASSUME NEW s, IsSeq(s), NEW t \in SortedOrders(s)
    PROVE  IsSeq(t) /\ Len(t) = Len(s) /\ \A i \in DOMAIN t : t[i] \in Range(s)
<1>0. Len(s) \in Nat /\ DOMAIN s = 1..Len(s)
  BY DEF IsSeq
<1>1. CASE IsSortedInput(s)
  BY <1>0, <1>1 DEF SortedOrders, Range
<1>2. CASE ~IsSortedInput(s)
  <2>1. PICK p \in Bijection(DOMAIN s, DOMAIN s) : t = [i \in DOMAIN s |-> s[p[i]]]
    BY <1>2 DEF SortedOrders
  <2>2. p \in [DOMAIN s -> DOMAIN s]
    BY <2>1 DEF Bijection, Injection
  <2>3. \A i \in DOMAIN t : t[i] \in Range(s)
    BY <2>1, <2>2 DEF Range
  <2>4. t = [i \in 1..Len(s) |-> t[i]]
    BY <2>1, <1>0
  <2> QED
    BY <2>3, <2>4, <1>0, FunctionIsSeq
<1> QED
  BY <1>1, <1>2

(* A parsed shred tells its place. *)
LEMMA ParsedPlaceable ==
    ASSUME NEW s, Parsed(s) PROVE Placeable(s)
BY DEF Parsed, Placeable, erasure_shard_index, CommonFields

(* The headers that the call starts from, and an empty batch. *)
LEMMA StartPlace ==
    ASSUME OrderOK, NEW m, Start(m),
           IsSeq(input'), \A i \in DOMAIN input' : Parsed(input'[i]),
           IsSeq(sorted'), Len(sorted') = Len(input'),
           \A i \in DOMAIN sorted' : sorted'[i] \in Range(input')
    PROVE  PlaceInv'
<1>1. batch' = <<>> /\ mask' = <<>>
  BY DEF Start
<1>2. BatchOK'
  <2>1. IsSeq(batch') /\ Len(batch') = 0 /\ DOMAIN batch' = {} /\ IsSeq(mask') /\ Len(mask') = 0
    BY <1>1, NothingIn
  <2> QED
    BY <2>1 DEF BatchOK
<1>3. CASE StartError(m) # Pending
  <2>1. todo' = <<>> /\ pc' = "done"
    BY <1>3 DEF Start, Return
  <2>2. IsSeq(todo') /\ DOMAIN todo' = {}
    BY <2>1, NothingIn
  <2> QED
    BY <1>2, <2>1, <2>2 DEF PlaceInv, OrderOK, HeaderOK, NoneLost
<1>4. CASE StartError(m) = Pending
  <2>1. todo' = sorted' /\ pc' = "fill" /\ header' = HeaderOf(Last(sorted'))
    BY <1>4 DEF Start
  <2>2. sorted' # <<>> /\ Last(sorted').type = "code"
    BY <1>4 DEF StartError, Pending, Err
  <2>3. Len(sorted') \in 1..Len(sorted') /\ DOMAIN sorted' = 1..Len(sorted')
    BY <2>2 DEF IsSeq
  <2>4. Last(sorted') \in Range(input')
    BY <2>3 DEF Last
  <2>5. Parsed(Last(sorted'))
    BY <2>4 DEF Range
  <2>6. HeaderOK'
    <3>1. {header'.num_data, header'.num_coding, header'.first, header'.fec_set_index} \subseteq Nat
      BY <2>1, <2>2, <2>5 DEF HeaderOf, Parsed
    <3>2. Len(batch') = 0
      BY <1>1, NothingIn
    <3> QED
      BY <3>1, <3>2 DEF HeaderOK, NumShards
  <2>7. NoneLost'
    <3>1. Cardinality(Chosen(mask')) = 0
      BY <1>1, NothingIn
    <3>2. Len(todo') = Len(input') /\ Len(todo') \in Nat
      BY <2>1 DEF IsSeq
    <3> QED
      BY <2>1, <3>1, <3>2 DEF NoneLost, Chosen
  <2> QED
    BY <1>2, <2>1, <2>6, <2>7 DEF PlaceInv, OrderOK
<1> QED
  BY <1>3, <1>4

LEMMA CallFastPlace ==
    ASSUME PlaceInv, NEW shreds \in Inputs, CallFast(shreds) PROVE PlaceInv'
<1>1. IsSeq(shreds) /\ \A i \in DOMAIN shreds : Parsed(shreds[i])
  BY RecoveryAssumption DEF IsSeq, Range
<1>2. input' = shreds /\ sorted' \in SortedOrders(shreds) /\ Start("fast")
  BY DEF CallFast
<1>3. IsSeq(sorted') /\ Len(sorted') = Len(shreds) /\ \A i \in DOMAIN sorted' : sorted'[i] \in Range(shreds)
  BY <1>1, <1>2, SortFacts
<1> QED
  BY <1>1, <1>2, <1>3, StartPlace DEF PlaceInv

LEMMA CallFullPlace == ASSUME PlaceInv, CallFull PROVE PlaceInv'
BY StartPlace DEF CallFull, PlaceInv, OrderOK

(* A stub tells the place that it is made for. *)
LEMMA StubPlaceable ==
    ASSUME NEW index \in Nat,
           {header.num_data, header.num_coding, header.first, header.fec_set_index} \subseteq Nat
    PROVE  Placeable(make_stub_shred(index)) /\ erasure_shard_index(make_stub_shred(index)) = index
BY DEF Placeable, make_stub_shred, erasure_shard_index, StubPosition

(* The stubs for a gap, and their part of the mask. *)
LEMMA StubsFacts ==
    ASSUME NEW from \in Nat, NEW to \in Nat, from <= to,
           {header.num_data, header.num_coding, header.first, header.fec_set_index} \subseteq Nat
    PROVE  /\ IsSeq(Stubs(from, to)) /\ Len(Stubs(from, to)) = to - from
           /\ IsSeq(Absent(from, to)) /\ Len(Absent(from, to)) = to - from
           /\ \A k \in 1..to - from :
                /\ Placeable(Stubs(from, to)[k])
                /\ erasure_shard_index(Stubs(from, to)[k]) = from + k - 1
                /\ Absent(from, to)[k] = FALSE
<1>1. to - from \in Nat
  OBVIOUS
<1>2. Stubs(from, to) = [k \in 1..to - from |-> Stubs(from, to)[k]]
  BY DEF Stubs
<1>3. Absent(from, to) = [k \in 1..to - from |-> Absent(from, to)[k]]
  BY DEF Absent
<1>4. ASSUME NEW k \in 1..to - from
      PROVE  /\ Placeable(Stubs(from, to)[k])
             /\ erasure_shard_index(Stubs(from, to)[k]) = from + k - 1
             /\ Absent(from, to)[k] = FALSE
  <2>1. Stubs(from, to)[k] = make_stub_shred(from + k - 1) /\ from + k - 1 \in Nat
    BY DEF Stubs
  <2> QED
    BY <2>1, StubPlaceable DEF Absent
<1> QED
  BY <1>1, <1>2, <1>3, <1>4, FunctionIsSeq

(* A batch that is filled up with stubs to a place. *)
PaddedBatch(to) == batch \o Stubs(Len(batch), to)
PaddedMask(to) == mask \o Absent(Len(mask), to)

LEMMA Padded ==
    ASSUME BatchOK, NEW to \in Nat, Len(batch) <= to,
           {header.num_data, header.num_coding, header.first, header.fec_set_index} \subseteq Nat
    PROVE  /\ IsSeq(PaddedBatch(to)) /\ Len(PaddedBatch(to)) = to
           /\ IsSeq(PaddedMask(to)) /\ Len(PaddedMask(to)) = to
           /\ \A k \in 1..to :
                /\ Placeable(PaddedBatch(to)[k])
                /\ erasure_shard_index(PaddedBatch(to)[k]) = k - 1
                /\ PaddedMask(to)[k] \in BOOLEAN
                /\ PaddedMask(to)[k] => PaddedBatch(to)[k] \in Range(input)
           /\ Chosen(PaddedMask(to)) = Chosen(mask)
<1> DEFINE b == PaddedBatch(to)
           m == PaddedMask(to)
<1>0. b = batch \o Stubs(Len(batch), to) /\ m = mask \o Absent(Len(mask), to)
  BY DEF PaddedBatch, PaddedMask
<1> HIDE DEF b, m
<1>1. Len(batch) \in Nat /\ DOMAIN batch = 1..Len(batch) /\ DOMAIN mask = 1..Len(batch)
  BY DEF BatchOK, IsSeq
<1> DEFINE n == Len(batch)
           st == Stubs(n, to)
           ab == Absent(n, to)
<1>2. /\ IsSeq(st) /\ Len(st) = to - n
      /\ IsSeq(ab) /\ Len(ab) = to - n
      /\ \A k \in 1..to - n : /\ Placeable(st[k])
                              /\ erasure_shard_index(st[k]) = n + k - 1
                              /\ ab[k] = FALSE
  BY <1>1, StubsFacts
<1> HIDE DEF st, ab
<1>3. /\ IsSeq(b) /\ Len(b) = to
      /\ \A k \in 1..n : b[k] = batch[k]
      /\ \A k \in n + 1..to : b[k] = st[k - n]
  <2>1. b = batch \o st /\ IsSeq(batch) /\ IsSeq(st)
    BY <1>0, <1>2 DEF st, BatchOK
  <2>2. /\ IsSeq(batch \o st) /\ Len(batch \o st) = Len(batch) + Len(st)
        /\ \A k \in 1..Len(batch) : (batch \o st)[k] = batch[k]
        /\ \A k \in Len(batch) + 1..Len(batch) + Len(st) : (batch \o st)[k] = st[k - Len(batch)]
    BY <2>1, Joined
  <2>3. Len(batch) + Len(st) = to
    BY <1>1, <1>2
  <2> QED
    BY <2>1, <2>2, <2>3
<1>4. /\ IsSeq(m) /\ Len(m) = to
      /\ \A k \in 1..n : m[k] = mask[k]
      /\ \A k \in n + 1..to : m[k] = ab[k - n]
  <2>1. m = mask \o ab /\ IsSeq(mask) /\ IsSeq(ab)
    BY <1>0, <1>1, <1>2 DEF ab, BatchOK
  <2>2. /\ IsSeq(mask \o ab) /\ Len(mask \o ab) = Len(mask) + Len(ab)
        /\ \A k \in 1..Len(mask) : (mask \o ab)[k] = mask[k]
        /\ \A k \in Len(mask) + 1..Len(mask) + Len(ab) : (mask \o ab)[k] = ab[k - Len(mask)]
    BY <2>1, Joined
  <2>3. Len(mask) = n /\ Len(mask) + Len(ab) = to
    BY <1>1, <1>2 DEF BatchOK
  <2> QED
    BY <2>1, <2>2, <2>3
<1>5. ASSUME NEW k \in 1..to
      PROVE  /\ Placeable(b[k]) /\ erasure_shard_index(b[k]) = k - 1
             /\ m[k] \in BOOLEAN
             /\ m[k] => b[k] \in Range(input)
  <2>1. CASE k <= n
    <3>1. k \in 1..n /\ k \in DOMAIN batch
      BY <1>1, <2>1
    <3> QED
      BY <1>3, <1>4, <3>1 DEF BatchOK
  <2>2. CASE k > n
    <3>1. k - n \in 1..to - n /\ k \in n + 1..to
      BY <1>1, <2>2
    <3>2. b[k] = st[k - n] /\ m[k] = FALSE
      BY <1>2, <1>3, <1>4, <3>1
    <3>3. Placeable(st[k - n]) /\ erasure_shard_index(st[k - n]) = n + (k - n) - 1
      BY <1>2, <3>1
    <3>4. n + (k - n) - 1 = k - 1
      BY <1>1
    <3> QED
      BY <3>2, <3>3, <3>4
  <2>3. k <= n \/ k > n
    BY <1>1
  <2> QED
    BY <2>1, <2>2, <2>3, Zenon
<1>6. Chosen(m) = Chosen(mask)
  <2>1. DOMAIN m = 1..to
    BY <1>4 DEF IsSeq
  <2>2. ASSUME NEW k \in 1..to, k > n PROVE m[k] = FALSE
    <3>1. k - n \in 1..to - n /\ k \in n + 1..to
      BY <1>1, <2>2
    <3> QED
      BY <1>2, <1>4, <3>1
  <2>3. \A k : k \in Chosen(m) <=> k \in 1..n /\ mask[k]
    <3>1. n <= to /\ n \in Nat
      BY <1>1
    <3>2. \A k \in 1..to : k \notin 1..n => k > n
      BY <3>1
    <3>3. \A k \in 1..n : k \in 1..to
      BY <3>1
    <3> HIDE DEF n
    <3> QED
      BY <1>4, <2>1, <2>2, <3>2, <3>3 DEF Chosen
  <2>4. \A k : k \in Chosen(mask) <=> k \in 1..n /\ mask[k]
    BY <1>1 DEF Chosen
  <2> QED
    BY <2>3, <2>4
<1> QED
  BY <1>3, <1>4, <1>5, <1>6 DEF b, m

-----------------------------------------------------------------------------
(* Steps that leave the batch alone. *)
LEMMA SameBatch ==
    ASSUME PlaceInv, UNCHANGED <<input, sorted, todo, header, batch, mask>>,
           \/ pc' \in {"idle", "done"}
           \/ pc \in {"decoded", "iterate"} /\ pc' \in {"decoded", "iterate"}
           \/ pc' = pc
    PROVE  PlaceInv'
<1>1. OrderOK' /\ BatchOK'
  BY DEF PlaceInv, OrderOK, BatchOK, Placeable, erasure_shard_index
<1>2. HeaderOK'
  BY DEF PlaceInv, HeaderOK, NumShards
<1>3. NoneLost'
  BY DEF PlaceInv, NoneLost, Chosen
<1> QED
  BY <1>1, <1>2, <1>3 DEF PlaceInv

(* How many shreds of the batch came from the caller is a number. *)
LEMMA ChosenFinite == ASSUME BatchOK PROVE IsFiniteSet(Chosen(mask)) /\ Cardinality(Chosen(mask)) \in Nat
<1>1. Len(mask) \in Nat /\ Chosen(mask) \subseteq 1..Len(mask)
  BY DEF BatchOK, IsSeq, Chosen
<1>2. IsFiniteSet(1..Len(mask))
  BY <1>1, FS_Interval
<1>3. IsFiniteSet(Chosen(mask))
  BY <1>1, <1>2, FS_Subset
<1> QED
  BY <1>3, FS_CardinalityType

LEMMA One == ASSUME NEW s PROVE IsSeq(<<s>>) /\ Len(<<s>>) = 1 /\ <<s>>[1] = s
<1>1. <<s>> \in Seq({s})
  OBVIOUS
<1> QED
  BY <1>1, TypedIsSeq

(* One more element at the end of a sequence. *)
LEMMA Appended ==
    ASSUME NEW q, IsSeq(q), NEW s
    PROVE  /\ IsSeq(q \o <<s>>) /\ Len(q \o <<s>>) = Len(q) + 1
           /\ \A i \in 1..Len(q) : (q \o <<s>>)[i] = q[i]
           /\ (q \o <<s>>)[Len(q) + 1] = s
<1>1. Len(q) \in Nat
  BY DEF IsSeq
<1>2. /\ IsSeq(<<s>>) /\ Len(<<s>>) = 1 /\ <<s>>[1] = s
  BY One
<1>3. /\ IsSeq(q \o <<s>>)
      /\ Len(q \o <<s>>) = Len(q) + Len(<<s>>)
      /\ \A i \in 1..Len(q) : (q \o <<s>>)[i] = q[i]
      /\ \A i \in Len(q) + 1..Len(q) + Len(<<s>>) : (q \o <<s>>)[i] = <<s>>[i - Len(q)]
  BY <1>2, Joined
<1>4. (q \o <<s>>)[Len(q) + 1] = <<s>>[Len(q) + 1 - Len(q)]
  BY <1>1, <1>2, <1>3
<1> QED
  BY <1>1, <1>2, <1>3, <1>4

(* Both calls take the same steps through their own copies of the fill     *)
(* loop and of the decoding: what follows is proved once, of FillStep and  *)
(* DecodeStep.                                                             *)
FillStep ==
    /\ pc = "fill" /\ todo # <<>>
    /\ LET s == Head(todo)
           at == erasure_shard_index(s)
       IN  \/ /\ FillError(s) # Pending
              /\ Return(FillError(s))
              /\ UNCHANGED <<todo, batch, mask>>
           \/ /\ FillError(s) = Pending
              /\ batch' = batch \o Stubs(Len(batch), at) \o <<s>>
              /\ mask' = mask \o Absent(Len(mask), at) \o <<TRUE>>
              /\ todo' = Tail(todo)
              /\ UNCHANGED <<pc, outcome>>
    /\ UNCHANGED <<input, sorted, mode, header, nodes, cursor, items, fast>>

DecodeStep ==
    /\ pc = "fill" /\ todo = <<>>
    /\ LET all == batch \o Stubs(Len(batch), NumShards)
           present == mask \o Absent(Len(mask), NumShards)
           shards == Rebuilt(header.num_data, [k \in DOMAIN all |-> [shard |-> all[k].shard, present |-> present[k]]])
       IN  \/ /\ DecodeError(present) # Pending
              /\ Return(DecodeError(present))
              /\ UNCHANGED <<batch, mask>>
           \/ /\ DecodeError(present) = Pending
              /\ batch' = [k \in DOMAIN all |->
                             IF present[k] THEN all[k] ELSE [all[k] EXCEPT !.shard = shards[k]]]
              /\ mask' = present
              /\ pc' = "decoded"
              /\ UNCHANGED outcome
    /\ UNCHANGED <<input, sorted, mode, todo, header, nodes, cursor, items, fast>>

Steps ==
    \/ \E shreds \in Inputs : CallFast(shreds)
    \/ CallFull
    \/ FillStep \/ DecodeStep \/ Extract \/ Verify \/ Iterate \/ Drop
    \/ Forget

LEMMA SameErrors ==
    /\ \A s : FastFillError(s) = FillError(s)
    /\ \A present : FastDecodeError(present) = DecodeError(present)
BY DEF FastFillError, FillError, FastDecodeError, DecodeError

LEMMA FillSteps == Fill \/ FastFill => FillStep
<1>1. Fill => FillStep
  BY DEF Fill, FillStep
<1>2. FastFill => FillStep
  BY SameErrors DEF FastFill, FillStep
<1> QED
  BY <1>1, <1>2

LEMMA DecodeSteps == Decode \/ FastDecode => DecodeStep
<1>1. Decode => DecodeStep
  BY DEF Decode, DecodeStep
<1>2. FastDecode => DecodeStep
  BY SameErrors DEF FastDecode, DecodeStep
<1> QED
  BY <1>1, <1>2

LEMMA NextSteps == Next => Steps
BY FillSteps, DecodeSteps DEF Next, Steps

(* A shred is placed: it is the next one after the stubs for the gap.      *)
LEMMA FillPlace == ASSUME PlaceInv, FillStep PROVE PlaceInv'
<1> DEFINE s == Head(todo)
           at == erasure_shard_index(s)
<1>1. /\ pc = "fill" /\ todo # <<>>
      /\ UNCHANGED <<input, sorted, header>>
  BY DEF FillStep
<1>2. /\ Len(todo) \in Nat /\ Len(todo) > 0 /\ todo[1] = s /\ DOMAIN todo = 1..Len(todo)
      /\ IsSeq(Tail(todo)) /\ Len(Tail(todo)) = Len(todo) - 1
      /\ \A i \in DOMAIN Tail(todo) : Tail(todo)[i] \in Range(input)
  <2>1. todo \in Seq(Range(todo)) /\ \A i \in DOMAIN todo : todo[i] \in Range(input)
    BY DEF PlaceInv, OrderOK, IsSeq
  <2>2. Tail(todo) \in Seq(Range(todo))
    BY <1>1, <2>1
  <2>3. IsSeq(Tail(todo))
    BY <2>2, TypedIsSeq
  <2>4. Len(Tail(todo)) = Len(todo) - 1 /\ \A i \in 1..Len(todo) - 1 : Tail(todo)[i] = todo[i + 1]
    BY <1>1, <2>1
  <2>5. Len(todo) \in Nat /\ Len(todo) > 0 /\ todo[1] = s /\ DOMAIN todo = 1..Len(todo)
    BY <1>1, <2>1
  <2>6. DOMAIN Tail(todo) = 1..Len(todo) - 1
    BY <2>2, <2>4
  <2>7. \A i \in 1..Len(todo) - 1 : i + 1 \in 1..Len(todo)
    BY <2>5
  <2> QED
    BY <2>1, <2>3, <2>4, <2>5, <2>6, <2>7
<1>3. s \in Range(input) /\ Parsed(s) /\ Placeable(s)
  <2>1. s \in Range(input)
    BY <1>2 DEF PlaceInv, OrderOK
  <2>2. Parsed(s)
    BY <2>1 DEF PlaceInv, OrderOK, Range
  <2> QED
    BY <2>1, <2>2, ParsedPlaceable
<1>4. CASE FillError(s) # Pending
  <2>1. UNCHANGED <<todo, batch, mask>> /\ pc' = "done"
    BY <1>4 DEF FillStep, Return
  <2> QED
    BY <1>1, <2>1, SameBatch
<1>5. CASE FillError(s) = Pending
  <2> DEFINE b == PaddedBatch(at)
             m == PaddedMask(at)
  <2>1. /\ batch' = b \o <<s>> /\ mask' = m \o <<TRUE>>
        /\ todo' = Tail(todo) /\ pc' = "fill"
    BY <1>1, <1>5 DEF FillStep, PaddedBatch, PaddedMask
  <2>2. /\ {header.num_data, header.num_coding, header.first, header.fec_set_index} \subseteq Nat
        /\ Len(batch) \in Nat /\ NumShards \in Nat
    BY <1>1 DEF PlaceInv, HeaderOK, BatchOK, IsSeq, NumShards
  <2>3. at \in Len(batch)..NumShards - 1 /\ at \in Nat
    BY <1>5, <2>2 DEF FillError, Pending, Err
  <2> HIDE DEF s
  <2>4. /\ IsSeq(b) /\ IsSeq(m) /\ Len(b) = at /\ Len(m) = at
        /\ \A k \in 1..at : /\ Placeable(b[k]) /\ erasure_shard_index(b[k]) = k - 1
                            /\ m[k] \in BOOLEAN
                            /\ m[k] => b[k] \in Range(input)
        /\ Chosen(m) = Chosen(mask)
    BY <2>2, <2>3, Padded DEF PlaceInv
  <2> HIDE DEF b, m
  <2>5. /\ IsSeq(batch') /\ Len(batch') = at + 1
        /\ \A k \in 1..at : batch'[k] = b[k]
        /\ batch'[at + 1] = s
    BY <2>1, <2>4, Appended
  <2>6. /\ IsSeq(mask') /\ Len(mask') = at + 1
        /\ \A k \in 1..at : mask'[k] = m[k]
        /\ mask'[at + 1] = TRUE
    <3>1. Len(m) = at /\ IsSeq(m) /\ mask' = m \o <<TRUE>>
      BY <2>1, <2>4
    <3>2. /\ IsSeq(m \o <<TRUE>>) /\ Len(m \o <<TRUE>>) = Len(m) + 1
          /\ \A k \in 1..Len(m) : (m \o <<TRUE>>)[k] = m[k]
          /\ (m \o <<TRUE>>)[Len(m) + 1] = TRUE
      BY <3>1, Appended, Zenon
    <3> QED
      BY <3>1, <3>2
  <2>7. DOMAIN batch' = 1..at + 1 /\ DOMAIN mask' = 1..at + 1 /\ DOMAIN m = 1..at
    BY <2>4, <2>5, <2>6 DEF IsSeq
  <2>8. \A k \in 1..at + 1 : k \in 1..at \/ k = at + 1
    BY <2>3
  <2>9. BatchOK'
    <3>1. ASSUME NEW k \in 1..at + 1
          PROVE  /\ Placeable(batch'[k]) /\ erasure_shard_index(batch'[k]) = k - 1
                 /\ mask'[k] \in BOOLEAN
                 /\ mask'[k] => batch'[k] \in Range(input)
      <4>1. CASE k \in 1..at
        <5>1. batch'[k] = b[k] /\ mask'[k] = m[k]
          BY <2>5, <2>6, <4>1
        <5>2. /\ Placeable(b[k]) /\ erasure_shard_index(b[k]) = k - 1
              /\ m[k] \in BOOLEAN
              /\ m[k] => b[k] \in Range(input)
          BY <2>4, <4>1
        <5> QED
          BY <5>1, <5>2, Zenon
      <4>2. CASE k = at + 1
        <5>1. batch'[k] = s /\ mask'[k] = TRUE /\ k - 1 = at
          BY <2>3, <2>5, <2>6, <4>2
        <5> QED
          BY <1>3, <5>1
      <4> QED
        BY <2>8, <4>1, <4>2
    <3> QED
      BY <1>1, <2>5, <2>6, <2>7, <3>1 DEF BatchOK, Placeable, erasure_shard_index
  <2>10. Cardinality(Chosen(mask')) = Cardinality(Chosen(mask)) + 1
    <3>1. Chosen(mask') = Chosen(mask) \cup {at + 1}
      <4>1. \A k : k \in Chosen(m) <=> k \in 1..at /\ m[k]
        BY <2>7 DEF Chosen
      <4>2. \A k : k \in Chosen(mask') <=> k \in 1..at + 1 /\ mask'[k]
        BY <2>7 DEF Chosen
      <4>3. \A k \in 1..at : k \in 1..at + 1
        BY <2>3
      <4>4. at + 1 \in 1..at + 1
        BY <2>3
      <4>5. ASSUME NEW k PROVE k \in Chosen(mask') <=> k \in Chosen(m) \/ k = at + 1
        <5>1. CASE k \in 1..at
          <6>1. mask'[k] = m[k] /\ k \in 1..at + 1 /\ k # at + 1
            BY <2>3, <2>6, <4>3, <5>1
          <6> QED
            BY <4>1, <4>2, <5>1, <6>1, Zenon
        <5>2. CASE k = at + 1
          BY <2>6, <4>2, <4>4, <5>2, Zenon
        <5>3. CASE k \notin 1..at /\ k # at + 1
          BY <2>8, <4>1, <4>2, <5>3, Zenon
        <5> QED
          BY <5>1, <5>2, <5>3
      <4> QED
        BY <2>4, <4>5
    <3>2. at + 1 \notin Chosen(mask)
      <4>1. at + 1 \notin 1..at
        BY <2>3
      <4> QED
        BY <2>4, <2>7, <4>1 DEF Chosen
    <3>3. IsFiniteSet(Chosen(mask))
      BY ChosenFinite DEF PlaceInv
    <3> QED
      BY <3>1, <3>2, <3>3, FS_AddElement
  <2>11. NoneLost'
    <3>1. Cardinality(Chosen(mask)) + Len(todo) = Len(input) /\ Cardinality(Chosen(mask)) \in Nat
      BY <1>1, ChosenFinite DEF PlaceInv, NoneLost
    <3>2. Cardinality(Chosen(mask')) + Len(todo') = Len(input')
      BY <1>1, <1>2, <2>1, <2>10, <3>1
    <3> QED
      BY <2>1, <3>2 DEF NoneLost, Chosen
  <2>12. HeaderOK'
    <3>1. Len(batch') <= NumShards
      BY <2>2, <2>3, <2>5
    <3> QED
      BY <1>1, <2>2, <3>1 DEF HeaderOK, NumShards
  <2>13. OrderOK'
    <3>1. IsSeq(todo') /\ \A i \in DOMAIN todo' : todo'[i] \in Range(input)
      BY <1>2, <2>1
    <3> QED
      BY <1>1, <3>1 DEF PlaceInv, OrderOK
  <2> QED
    BY <2>9, <2>11, <2>12, <2>13 DEF PlaceInv
<1> QED
  BY <1>4, <1>5

(* The codec's shard leaves the place of a shred alone. *)
LEMMA ShardReplaced ==
    ASSUME NEW s, Placeable(s), NEW v
    PROVE  /\ Placeable([s EXCEPT !.shard = v])
           /\ erasure_shard_index([s EXCEPT !.shard = v]) = erasure_shard_index(s)
<1> DEFINE r == [s EXCEPT !.shard = v]
<1>1. DOMAIN r = DOMAIN s /\ r.type = s.type /\ r.index = s.index /\ r.fec_set_index = s.fec_set_index
  BY DEF Placeable
<1>2. s.type = "code" => r.num_data = s.num_data /\ r.position = s.position
  BY DEF Placeable
<1> HIDE DEF r
<1>3. erasure_shard_index(r) = erasure_shard_index(s)
  BY <1>1, <1>2 DEF erasure_shard_index, Placeable
<1>4. Placeable(r)
  BY <1>1, <1>3 DEF Placeable
<1> QED
  BY <1>3, <1>4 DEF r

(* The batch is filled up to its end, and the shards of the stubs rebuilt. *)
LEMMA DecodePlace == ASSUME PlaceInv, DecodeStep PROVE PlaceInv'
<1> DEFINE all == PaddedBatch(NumShards)
           present == PaddedMask(NumShards)
           shards == Rebuilt(header.num_data, [k \in DOMAIN all |-> [shard |-> all[k].shard, present |-> present[k]]])
<1>1. /\ pc = "fill" /\ todo = <<>>
      /\ UNCHANGED <<input, sorted, header, todo>>
  BY DEF DecodeStep
<1>2. CASE DecodeError(present) # Pending
  <2>1. UNCHANGED <<batch, mask>> /\ pc' = "done"
    BY <1>2 DEF DecodeStep, Return, PaddedBatch, PaddedMask
  <2> QED
    BY <1>1, <2>1, SameBatch
<1>3. CASE DecodeError(present) = Pending
  <2>1. /\ batch' = [k \in DOMAIN all |->
                       IF present[k] THEN all[k] ELSE [all[k] EXCEPT !.shard = shards[k]]]
        /\ mask' = present /\ pc' = "decoded"
    BY <1>3 DEF DecodeStep, PaddedBatch, PaddedMask
  <2>2. /\ {header.num_data, header.num_coding, header.first, header.fec_set_index} \subseteq Nat
        /\ Len(batch) <= NumShards /\ NumShards \in Nat
    BY <1>1 DEF PlaceInv, HeaderOK, NumShards
  <2>3. /\ IsSeq(all) /\ Len(all) = NumShards
        /\ IsSeq(present) /\ Len(present) = NumShards
        /\ \A k \in 1..NumShards : /\ Placeable(all[k]) /\ erasure_shard_index(all[k]) = k - 1
                                   /\ present[k] \in BOOLEAN
                                   /\ present[k] => all[k] \in Range(input)
        /\ Chosen(present) = Chosen(mask)
    BY <2>2, Padded DEF PlaceInv
  <2> HIDE DEF all, present, shards
  <2>4. DOMAIN all = 1..NumShards
    BY <2>3 DEF IsSeq
  <2>5. IsSeq(batch') /\ Len(batch') = NumShards /\ DOMAIN batch' = 1..NumShards
    <3>1. batch' = [k \in 1..NumShards |-> batch'[k]]
      BY <2>1, <2>4
    <3> QED
      BY <2>2, <3>1, FunctionIsSeq
  <2>6. ASSUME NEW k \in 1..NumShards
        PROVE  /\ Placeable(batch'[k]) /\ erasure_shard_index(batch'[k]) = k - 1
               /\ present[k] => batch'[k] \in Range(input)
    <3>1. CASE present[k]
      <4>1. batch'[k] = all[k]
        BY <2>1, <2>4, <3>1
      <4> QED
        BY <2>3, <3>1, <4>1, Zenon
    <3>2. CASE ~present[k]
      <4>1. batch'[k] = [all[k] EXCEPT !.shard = shards[k]]
        BY <2>1, <2>4, <3>2
      <4>2. Placeable(all[k]) /\ erasure_shard_index(all[k]) = k - 1
        BY <2>3
      <4>3. /\ Placeable([all[k] EXCEPT !.shard = shards[k]])
            /\ erasure_shard_index([all[k] EXCEPT !.shard = shards[k]]) = erasure_shard_index(all[k])
        BY <4>2, ShardReplaced
      <4> QED
        BY <3>2, <4>1, <4>2, <4>3, Zenon
    <3> QED
      BY <3>1, <3>2
  <2>7. BatchOK'
    <3>1. \A k \in 1..NumShards : mask'[k] \in BOOLEAN
      BY <2>1, <2>3, Zenon
    <3>2. \A k \in 1..NumShards : mask'[k] => batch'[k] \in Range(input)
      BY <2>1, <2>6, Zenon
    <3>3. IsSeq(mask') /\ Len(mask') = Len(batch')
      BY <2>1, <2>3, <2>5
    <3> QED
      BY <1>1, <2>5, <2>6, <3>1, <3>2, <3>3 DEF BatchOK, Placeable, erasure_shard_index
  <2>8. NoneLost'
    <3>1. Cardinality(Chosen(mask)) + Len(todo) = Len(input) /\ Cardinality(Chosen(mask)) \in Nat
      BY <1>1, ChosenFinite DEF PlaceInv, NoneLost
    <3>2. Len(todo) = 0
      BY <1>1, NothingIn
    <3>3. Cardinality(Chosen(mask')) = Len(input')
      BY <1>1, <2>1, <2>3, <3>1, <3>2
    <3> QED
      BY <2>1, <3>3 DEF NoneLost, Chosen
  <2>9. HeaderOK'
    BY <1>1, <2>2, <2>5 DEF HeaderOK, NumShards
  <2>10. OrderOK'
    BY <1>1 DEF PlaceInv, OrderOK
  <2> QED
    BY <2>7, <2>8, <2>9, <2>10 DEF PlaceInv
<1> QED
  BY <1>2, <1>3

(* An idle caller holds nothing. *)
LEMMA ForgetPlace == ASSUME PlaceInv, Forget PROVE PlaceInv'
<1>1. ASSUME NEW q \in {input', sorted', todo', batch', mask'}
      PROVE  IsSeq(q) /\ Len(q) = 0 /\ DOMAIN q = {}
  BY NothingIn DEF Forget
<1>2. pc' = "idle"
  BY DEF Forget
<1> QED
  BY <1>1, <1>2 DEF PlaceInv, OrderOK, HeaderOK, BatchOK, NoneLost

LEMMA NextPlace == PlaceInv /\ [Next]_vars => PlaceInv'
<1> SUFFICES ASSUME PlaceInv, [Next]_vars PROVE PlaceInv'
  OBVIOUS
<1>1. CASE \E shreds \in Inputs : CallFast(shreds)
  BY <1>1, CallFastPlace
<1>2. CASE CallFull
  BY <1>2, CallFullPlace
<1>3. CASE FillStep
  BY <1>3, FillPlace
<1>4. CASE DecodeStep
  BY <1>4, DecodePlace
<1>5. CASE Extract
  BY <1>5, SameBatch DEF Extract, Return
<1>6. CASE Verify
  <2>1. UNCHANGED <<input, sorted, todo, header, batch, mask>> /\ pc = "decoded"
    BY <1>6 DEF Verify
  <2>2. pc' \in {"done", "iterate"}
    BY <1>6 DEF Verify, Return
  <2> QED
    BY <2>1, <2>2, SameBatch
<1>7. CASE Iterate
  BY <1>7, SameBatch DEF Iterate
<1>8. CASE Drop
  BY <1>8, SameBatch DEF Drop
<1>9. CASE Forget
  BY <1>9, ForgetPlace
<1>10. CASE UNCHANGED vars
  BY <1>10, SameBatch DEF vars
<1> QED
  BY <1>1, <1>2, <1>3, <1>4, <1>5, <1>6, <1>7, <1>8, <1>9, <1>10, NextSteps DEF Steps

(* Whatever sanitized shreds a caller passes, of one FEC set or of many,   *)
(* in whatever order, and whatever the codec does: the fill loop (merkle.rs*)
(* 698-719) loses no shred, takes none twice, and each shred and stub of   *)
(* the batch stands at the index that its own header tells.                *)
THEOREM InPlace == Spec => []EveryShredInItsPlace
<1>1. Init => PlaceInv
  BY InitPlace
<1>2. PlaceInv /\ [Next]_vars => PlaceInv'
  BY NextPlace
<1>3. PlaceInv => EveryShredInItsPlace
  BY InvPlaces
<1> QED
  BY <1>1, <1>2, <1>3, PTL DEF Spec

-----------------------------------------------------------------------------
(* All of a batch bears the signature the headers were taken with. *)
Bears(s) == "signature" \in DOMAIN s /\ s.signature = header.signature

SignOK == pc \in {"fill", "decoded"} => \A k \in DOMAIN batch : Bears(batch[k])

LEMMA PaddedBears ==
    ASSUME BatchOK, NEW to \in Nat, Len(batch) <= to,
           {header.num_data, header.num_coding, header.first, header.fec_set_index} \subseteq Nat,
           \A k \in DOMAIN batch : Bears(batch[k])
    PROVE  \A k \in 1..to : Bears(PaddedBatch(to)[k])
<1> DEFINE n == Len(batch)
           st == Stubs(n, to)
<1>1. IsSeq(batch) /\ n \in Nat /\ DOMAIN batch = 1..n
  BY DEF BatchOK, IsSeq
<1>2. IsSeq(st) /\ Len(st) = to - n
  BY <1>1, StubsFacts
<1>3. \A k \in 1..to - n : Bears(st[k])
  BY DEF Stubs, make_stub_shred, Bears
<1>4. PaddedBatch(to) = batch \o st
  BY DEF PaddedBatch
<1> HIDE DEF st
<1>5. /\ \A k \in 1..n : (batch \o st)[k] = batch[k]
      /\ \A k \in n + 1..n + (to - n) : (batch \o st)[k] = st[k - n]
  BY <1>1, <1>2, Joined
<1>6. ASSUME NEW k \in 1..to PROVE Bears((batch \o st)[k])
  <2>1. CASE k <= n
    BY <1>1, <1>5, <2>1
  <2>2. CASE k > n
    <3>1. k - n \in 1..to - n /\ k \in n + 1..n + (to - n)
      BY <1>1, <2>2
    <3> QED
      BY <1>3, <1>5, <3>1
  <2>3. k <= n \/ k > n
    BY <1>1
  <2> QED
    BY <2>1, <2>2, <2>3, Zenon
<1> QED
  BY <1>4, <1>6

LEMMA FillSigned == ASSUME PlaceInv, SignOK, FillStep PROVE SignOK'
<1> DEFINE s == Head(todo)
           at == erasure_shard_index(s)
<1>1. pc = "fill" /\ UNCHANGED header
  BY DEF FillStep
<1>2. CASE FillError(s) # Pending
  <2>1. pc' = "done"
    BY <1>2 DEF FillStep, Return
  <2> QED
    BY <2>1 DEF SignOK
<1>3. CASE FillError(s) = Pending
  <2> DEFINE b == PaddedBatch(at)
  <2>1. batch' = b \o <<s>>
    BY <1>1, <1>3 DEF FillStep, PaddedBatch
  <2>2. /\ {header.num_data, header.num_coding, header.first, header.fec_set_index} \subseteq Nat
        /\ Len(batch) \in Nat /\ NumShards \in Nat
    BY <1>1 DEF PlaceInv, HeaderOK, BatchOK, IsSeq, NumShards
  <2>3. at \in Nat /\ Len(batch) <= at /\ s.signature = header.signature
    BY <1>3, <2>2 DEF FillError, Pending, Err
  <2>4. Bears(s)
    <3>1. Len(todo) > 0 /\ 1 \in DOMAIN todo /\ s = todo[1]
      BY DEF FillStep, PlaceInv, OrderOK, IsSeq
    <3>2. s \in Range(input)
      BY <3>1 DEF PlaceInv, OrderOK
    <3>3. Parsed(s)
      BY <3>2 DEF PlaceInv, OrderOK, Range
    <3> QED
      BY <2>3, <3>3 DEF Bears, Parsed, CommonFields
  <2> HIDE DEF s
  <2>5. IsSeq(b) /\ Len(b) = at
    BY <2>2, <2>3, Padded DEF PlaceInv
  <2>6. \A k \in 1..at : Bears(b[k])
    BY <1>1, <2>2, <2>3, PaddedBears DEF PlaceInv, SignOK
  <2> HIDE DEF b
  <2>7. /\ IsSeq(batch') /\ Len(batch') = at + 1
        /\ \A k \in 1..at : batch'[k] = b[k]
        /\ batch'[at + 1] = s
    BY <2>1, <2>5, Appended
  <2>8. DOMAIN batch' = 1..at + 1 /\ \A k \in 1..at + 1 : k \in 1..at \/ k = at + 1
    BY <2>3, <2>7 DEF IsSeq
  <2>9. \A k \in DOMAIN batch' : Bears(batch'[k])
    BY <2>4, <2>6, <2>7, <2>8
  <2> QED
    BY <1>1, <2>9 DEF SignOK, Bears
<1> QED
  BY <1>2, <1>3

LEMMA DecodeSigned == ASSUME PlaceInv, SignOK, DecodeStep PROVE SignOK'
<1> DEFINE all == PaddedBatch(NumShards)
           present == PaddedMask(NumShards)
           shards == Rebuilt(header.num_data, [k \in DOMAIN all |-> [shard |-> all[k].shard, present |-> present[k]]])
<1>1. pc = "fill" /\ UNCHANGED header
  BY DEF DecodeStep
<1>2. CASE DecodeError(present) # Pending
  <2>1. pc' = "done"
    BY <1>2 DEF DecodeStep, Return, PaddedBatch, PaddedMask
  <2> QED
    BY <2>1 DEF SignOK
<1>3. CASE DecodeError(present) = Pending
  <2>1. batch' = [k \in DOMAIN all |->
                    IF present[k] THEN all[k] ELSE [all[k] EXCEPT !.shard = shards[k]]]
    BY <1>3 DEF DecodeStep, PaddedBatch, PaddedMask
  <2>2. /\ {header.num_data, header.num_coding, header.first, header.fec_set_index} \subseteq Nat
        /\ Len(batch) <= NumShards /\ NumShards \in Nat
    BY <1>1 DEF PlaceInv, HeaderOK, NumShards
  <2>3. IsSeq(all) /\ Len(all) = NumShards
    BY <2>2, Padded DEF PlaceInv
  <2>4. \A k \in 1..NumShards : Bears(all[k])
    BY <1>1, <2>2, PaddedBears DEF PlaceInv, SignOK
  <2> HIDE DEF all, present, shards
  <2>5. DOMAIN all = 1..NumShards
    BY <2>3 DEF IsSeq
  <2>6. ASSUME NEW k \in DOMAIN batch' PROVE Bears(batch'[k])
    <3>1. k \in 1..NumShards /\ Bears(all[k])
      BY <2>1, <2>4, <2>5
    <3>2. batch'[k] = all[k] \/ batch'[k] = [all[k] EXCEPT !.shard = shards[k]]
      BY <2>1, <2>5, <3>1
    <3> QED
      BY <3>1, <3>2 DEF Bears
  <2> QED
    BY <1>1, <2>6 DEF SignOK, Bears
<1> QED
  BY <1>2, <1>3

LEMMA NextSigned == ASSUME PlaceInv, SignOK, [Next]_vars PROVE SignOK'
<1>1. ASSUME NEW m, Start(m) PROVE SignOK'
  <2>1. DOMAIN batch' = {}
    BY <1>1, NothingIn DEF Start
  <2> QED
    BY <2>1 DEF SignOK
<1>2. ASSUME pc' \notin {"fill", "decoded"} PROVE SignOK'
  BY <1>2 DEF SignOK
<1>3. CASE \E shreds \in Inputs : CallFast(shreds)
  BY <1>1, <1>3 DEF CallFast
<1>4. CASE CallFull
  BY <1>1, <1>4 DEF CallFull
<1>5. CASE Extract \/ Verify \/ Iterate \/ Drop \/ Forget
  BY <1>2, <1>5 DEF Extract, Verify, Iterate, Drop, Forget, Return
<1>6. CASE UNCHANGED vars
  BY <1>6 DEF SignOK, Bears, vars
<1> QED
  BY <1>3, <1>4, <1>5, <1>6, FillSigned, DecodeSigned, NextSteps DEF Steps

-----------------------------------------------------------------------------
(* What is not the caller's in the batch is a stub, but for its shard.     *)
IsStub(s, k) ==
    /\ DOMAIN s = DOMAIN make_stub_shred(k - 1)
    /\ \A f \in DOMAIN s : f # "shard" => s[f] = make_stub_shred(k - 1)[f]

StubsOK == \A k \in DOMAIN batch : mask[k] \/ IsStub(batch[k], k)

LEMMA PaddedStubs ==
    ASSUME BatchOK, StubsOK, NEW to \in Nat, Len(batch) <= to,
           {header.num_data, header.num_coding, header.first, header.fec_set_index} \subseteq Nat
    PROVE  \A k \in 1..to : PaddedMask(to)[k] \/ IsStub(PaddedBatch(to)[k], k)
<1> DEFINE n == Len(batch)
           st == Stubs(n, to)
<1>1. IsSeq(batch) /\ n \in Nat /\ DOMAIN batch = 1..n /\ DOMAIN mask = 1..n
  BY DEF BatchOK, IsSeq
<1>2. IsSeq(st) /\ Len(st) = to - n
  BY <1>1, StubsFacts
<1>3. \A k \in 1..to - n : st[k] = make_stub_shred(n + k - 1)
  BY DEF Stubs
<1>4. PaddedBatch(to) = batch \o st
  BY DEF PaddedBatch
<1> HIDE DEF st
<1>5. /\ \A k \in 1..n : (batch \o st)[k] = batch[k]
      /\ \A k \in n + 1..n + (to - n) : (batch \o st)[k] = st[k - n]
  BY <1>1, <1>2, Joined
<1>6. Chosen(PaddedMask(to)) = Chosen(mask)
  BY Padded
<1>7. ASSUME NEW k \in 1..to PROVE PaddedMask(to)[k] \/ IsStub((batch \o st)[k], k)
  <2>1. CASE k <= n
    <3>1. k \in DOMAIN batch /\ k \in DOMAIN mask /\ (batch \o st)[k] = batch[k]
      BY <1>1, <1>5, <2>1
    <3>2. mask[k] => PaddedMask(to)[k]
      BY <1>6, <3>1 DEF Chosen
    <3> QED
      BY <3>1, <3>2 DEF StubsOK
  <2>2. CASE k > n
    <3>1. k - n \in 1..to - n /\ k \in n + 1..n + (to - n) /\ n + (k - n) - 1 = k - 1
      BY <1>1, <2>2
    <3>2. (batch \o st)[k] = make_stub_shred(k - 1)
      BY <1>3, <1>5, <3>1
    <3> QED
      BY <3>2 DEF IsStub
  <2>3. k <= n \/ k > n
    BY <1>1
  <2> QED
    BY <2>1, <2>2, <2>3, Zenon
<1> QED
  BY <1>4, <1>7

LEMMA SameStubs ==
    ASSUME header' = header
    PROVE  (\A k \in DOMAIN batch' : mask'[k] \/ IsStub(batch'[k], k)) => StubsOK'
BY DEF StubsOK, IsStub, make_stub_shred, StubPosition

LEMMA FillStubs == ASSUME PlaceInv, StubsOK, FillStep PROVE StubsOK'
<1> DEFINE s == Head(todo)
           at == erasure_shard_index(s)
<1>1. pc = "fill" /\ UNCHANGED header
  BY DEF FillStep
<1>2. CASE FillError(s) # Pending
  <2>1. UNCHANGED <<batch, mask>>
    BY <1>2 DEF FillStep
  <2> QED
    BY <1>1, <2>1, SameStubs DEF StubsOK
<1>3. CASE FillError(s) = Pending
  <2> DEFINE b == PaddedBatch(at)
             m == PaddedMask(at)
  <2>1. batch' = b \o <<s>> /\ mask' = m \o <<TRUE>>
    BY <1>1, <1>3 DEF FillStep, PaddedBatch, PaddedMask
  <2>2. /\ {header.num_data, header.num_coding, header.first, header.fec_set_index} \subseteq Nat
        /\ Len(batch) \in Nat /\ NumShards \in Nat
    BY <1>1 DEF PlaceInv, HeaderOK, BatchOK, IsSeq, NumShards
  <2>3. at \in Nat /\ Len(batch) <= at
    BY <1>3, <2>2 DEF FillError, Pending, Err
  <2>4. IsSeq(b) /\ Len(b) = at /\ IsSeq(m) /\ Len(m) = at
    BY <2>2, <2>3, Padded DEF PlaceInv
  <2>5. \A k \in 1..at : m[k] \/ IsStub(b[k], k)
    BY <2>2, <2>3, PaddedStubs DEF PlaceInv
  <2> HIDE DEF s, at, b, m
  <2>6. /\ IsSeq(batch') /\ Len(batch') = at + 1
        /\ \A k \in 1..at : batch'[k] = b[k]
    BY <2>1, <2>4, Appended
  <2>7. (\A k \in 1..at : mask'[k] = m[k]) /\ mask'[at + 1] = TRUE
    <3>1. /\ IsSeq(m \o <<TRUE>>) /\ Len(m \o <<TRUE>>) = Len(m) + 1
          /\ \A k \in 1..Len(m) : (m \o <<TRUE>>)[k] = m[k]
          /\ (m \o <<TRUE>>)[Len(m) + 1] = TRUE
      BY <2>4, Appended
    <3> QED
      BY <2>1, <2>4, <3>1, Zenon
  <2>8. DOMAIN batch' = 1..at + 1 /\ \A k \in 1..at + 1 : k \in 1..at \/ k = at + 1
    BY <2>3, <2>6 DEF IsSeq
  <2>9. \A k \in DOMAIN batch' : mask'[k] \/ IsStub(batch'[k], k)
    BY <2>5, <2>6, <2>7, <2>8
  <2> QED
    BY <1>1, <2>9, SameStubs
<1> QED
  BY <1>2, <1>3

LEMMA ShardOfStub ==
    ASSUME NEW s, NEW k, IsStub(s, k), NEW v
    PROVE  IsStub([s EXCEPT !.shard = v], k)
<1> DEFINE r == [s EXCEPT !.shard = v]
<1>1. DOMAIN r = DOMAIN s /\ \A f \in DOMAIN s : f # "shard" => r[f] = s[f]
  OBVIOUS
<1> HIDE DEF r
<1>2. IsStub(r, k)
  BY <1>1 DEF IsStub
<1> QED
  BY <1>2 DEF r

LEMMA DecodeStubs == ASSUME PlaceInv, StubsOK, DecodeStep PROVE StubsOK'
<1> DEFINE all == PaddedBatch(NumShards)
           present == PaddedMask(NumShards)
           shards == Rebuilt(header.num_data, [k \in DOMAIN all |-> [shard |-> all[k].shard, present |-> present[k]]])
<1>1. pc = "fill" /\ UNCHANGED header
  BY DEF DecodeStep
<1>2. CASE DecodeError(present) # Pending
  <2>1. UNCHANGED <<batch, mask>>
    BY <1>2 DEF DecodeStep, PaddedBatch, PaddedMask
  <2> QED
    BY <1>1, <2>1, SameStubs DEF StubsOK
<1>3. CASE DecodeError(present) = Pending
  <2>1. /\ batch' = [k \in DOMAIN all |->
                       IF present[k] THEN all[k] ELSE [all[k] EXCEPT !.shard = shards[k]]]
        /\ mask' = present
    BY <1>3 DEF DecodeStep, PaddedBatch, PaddedMask
  <2>2. /\ {header.num_data, header.num_coding, header.first, header.fec_set_index} \subseteq Nat
        /\ Len(batch) <= NumShards /\ NumShards \in Nat
    BY <1>1 DEF PlaceInv, HeaderOK, NumShards
  <2>3. IsSeq(all) /\ Len(all) = NumShards
    BY <2>2, Padded DEF PlaceInv
  <2>4. \A k \in 1..NumShards : present[k] \/ IsStub(all[k], k)
    BY <2>2, PaddedStubs DEF PlaceInv
  <2> HIDE DEF all, present, shards
  <2>5. DOMAIN all = 1..NumShards
    BY <2>3 DEF IsSeq
  <2>6. ASSUME NEW k \in DOMAIN batch', ~mask'[k] PROVE IsStub(batch'[k], k)
    <3>1. k \in 1..NumShards /\ ~present[k]
      BY <2>1, <2>5, <2>6
    <3>2. batch'[k] = [all[k] EXCEPT !.shard = shards[k]]
      BY <2>1, <2>5, <3>1
    <3> QED
      BY <2>4, <3>1, <3>2, ShardOfStub
  <2> QED
    BY <1>1, <2>6, SameStubs
<1> QED
  BY <1>2, <1>3

LEMMA NextStubs == ASSUME PlaceInv, StubsOK, [Next]_vars PROVE StubsOK'
<1>1. ASSUME batch' = <<>> PROVE StubsOK'
  <2>1. DOMAIN batch' = {}
    BY <1>1, NothingIn
  <2> QED
    BY <2>1 DEF StubsOK
<1>2. CASE \E shreds \in Inputs : CallFast(shreds)
  BY <1>1, <1>2 DEF CallFast, Start
<1>3. CASE CallFull
  BY <1>1, <1>3 DEF CallFull, Start
<1>4. CASE Forget
  BY <1>1, <1>4 DEF Forget
<1>5. CASE Extract \/ Verify \/ Iterate \/ Drop \/ UNCHANGED vars
  <2>1. UNCHANGED <<header, batch, mask>>
    BY <1>5 DEF Extract, Verify, Iterate, Drop, vars
  <2> QED
    BY <2>1, SameStubs DEF StubsOK
<1> QED
  BY <1>2, <1>3, <1>4, <1>5, FillStubs, DecodeStubs, NextSteps DEF Steps

LEMMA InitStubs == Init => StubsOK
<1> SUFFICES ASSUME Init PROVE StubsOK
  OBVIOUS
<1>1. DOMAIN batch = {}
  BY NothingIn DEF Init
<1> QED
  BY <1>1 DEF StubsOK

(* What the fields of a stub are. *)
LEMMA StubFields ==
    ASSUME NEW s, NEW k, IsStub(s, k)
    PROVE  /\ s.fec_set_index = header.fec_set_index
           /\ k - 1 >= header.num_data =>
                /\ DOMAIN s = CommonFields \cup {"num_data", "num_coding", "position"}
                /\ s.type = "code" /\ s.index = header.first + (k - 1 - header.num_data)
                /\ s.num_data = header.num_data /\ s.num_coding = header.num_coding
                /\ s.position = k - 1 - header.num_data
           /\ ~(k - 1 >= header.num_data) =>
                /\ DOMAIN s = CommonFields
                /\ s.type = "data" /\ s.index = header.fec_set_index + (k - 1)
<1>1. CASE k - 1 >= header.num_data
  BY <1>1 DEF IsStub, make_stub_shred, StubPosition, CommonFields
<1>2. CASE ~(k - 1 >= header.num_data)
  BY <1>2 DEF IsStub, make_stub_shred, CommonFields
<1> QED
  BY <1>1, <1>2

-----------------------------------------------------------------------------
(* Every shred of the caller is in the decoded batch: each place has one   *)
(* shred, and there are as many of the caller's as the caller has passed.  *)
LEMMA AllPlaced ==
    ASSUME PlaceInv, pc \in {"decoded", "iterate"}
    PROVE  /\ \A n \in DOMAIN input : \E k \in Chosen(mask) : batch[k] = input[n]
           /\ Cardinality(Range(input)) = Len(input)
<1> DEFINE S == Chosen(mask)
           T == Range(input)
           f == [k \in S |-> batch[k]]
<1>1. /\ \A k \in S : k \in DOMAIN batch /\ mask[k]
      /\ \A k \in DOMAIN batch : k \in Nat
  BY DEF PlaceInv, BatchOK, IsSeq, Chosen
<1>2. \A k \in S : batch[k] \in T /\ erasure_shard_index(batch[k]) = k - 1
  BY <1>1 DEF PlaceInv, BatchOK
<1>3. f \in Injection(S, T)
  <2>1. f \in [S -> T]
    BY <1>2
  <2>2. \A j, k \in S : f[j] = f[k] => j = k
    BY <1>1, <1>2
  <2> QED
    BY <2>1, <2>2 DEF Injection, IsInjective
<1>4. IsFiniteSet(T) /\ Cardinality(T) <= Len(input) /\ Len(input) \in Nat
  <2>1. Len(input) \in Nat /\ DOMAIN input = 1..Len(input)
    BY DEF PlaceInv, OrderOK, IsSeq
  <2>2. input \in [1..Len(input) -> T]
    BY <2>1 DEF PlaceInv, OrderOK, IsSeq
  <2>3. input \in Surjection(1..Len(input), T)
    BY <2>1, <2>2 DEF Surjection, Range
  <2>4. IsFiniteSet(1..Len(input)) /\ Cardinality(1..Len(input)) = Len(input)
    <3>1. 1 \in Int /\ Len(input) \in Int
      BY <2>1
    <3>2. /\ IsFiniteSet(1..Len(input))
          /\ Cardinality(1..Len(input)) = IF 1 > Len(input) THEN 0 ELSE Len(input) - 1 + 1
      BY <3>1, FS_Interval, Zenon
    <3> QED
      BY <2>1, <3>2
  <2> QED
    BY <2>1, <2>3, <2>4, FS_Surjection
<1>5. Cardinality(S) = Len(input)
  BY DEF PlaceInv, NoneLost
<1> HIDE DEF S, T, f
<1>6. Cardinality(S) <= Cardinality(T) /\ (Cardinality(S) = Cardinality(T) <=> f \in Surjection(S, T))
  BY <1>3, <1>4, FS_Injection
<1>7. Cardinality(S) = Cardinality(T)
  BY <1>4, <1>5, <1>6, FS_CardinalityType
<1>8. \A t \in T : \E k \in S : f[k] = t
  BY <1>6, <1>7 DEF Surjection
<1>9. ASSUME NEW n \in DOMAIN input PROVE \E k \in Chosen(mask) : batch[k] = input[n]
  <2>1. input[n] \in T
    BY DEF T, Range
  <2>2. PICK k \in S : f[k] = input[n]
    BY <1>8, <2>1
  <2> QED
    BY <2>2 DEF S, f
<1>10. Cardinality(T) = Len(input)
  BY <1>5, <1>7
<1> QED
  BY <1>9, <1>10 DEF T

(* What the fast path extracts stands at places of its own. *)
LEMMA ExtractNew == ASSUME PlaceInv, SignOK, StubsOK, Extract PROVE FastGivesNewShreds'
<1> DEFINE W == {k \in DOMAIN batch : Wanted(k)}
<1>1. PICK w \in InOrder(W) : outcome' = Ok([i \in DOMAIN w |-> batch[w[i]]])
  BY DEF Extract, Return
<1>2. pc = "decoded" /\ input' = input
  BY DEF Extract
<1> DEFINE new == [i \in DOMAIN w |-> batch[w[i]]]
<1>3. W \subseteq Nat
  BY DEF PlaceInv, BatchOK, IsSeq
<1>4. /\ w \in [1..Cardinality(W) -> W]
      /\ \A i, j \in DOMAIN w : i < j => w[i] < w[j]
  BY DEF InOrder
<1>5. \A i \in DOMAIN w : w[i] \in W /\ w[i] \in Nat
  BY <1>3, <1>4
<1>6. \A i, j \in DOMAIN w : i # j => w[i] # w[j]
  <2> TAKE i, j \in DOMAIN w
  <2> HAVE i # j
  <2>1. DOMAIN w \subseteq Int
    BY <1>4
  <2>2. i < j \/ j < i
    BY <2>1
  <2> QED
    BY <1>4, <1>5, <2>2
<1>7. \A k \in W : /\ ~mask[k] /\ batch[k].type = "data" /\ HeaderMatches(batch[k])
                   /\ erasure_shard_index(batch[k]) = k - 1 /\ Bears(batch[k])
  BY <1>2 DEF Wanted, PlaceInv, BatchOK, SignOK
<1>13. \A k \in W : batch[k].fec_set_index = header.fec_set_index
  BY <1>7, StubFields DEF StubsOK
<1> HIDE DEF W
<1>8. \A s, t : s.type = "data" /\ t.type = "data" /\ s.fec_set_index = t.fec_set_index
                /\ Identity(s) = Identity(t) =>
        erasure_shard_index(s) = erasure_shard_index(t)
  BY DEF Identity, erasure_shard_index
<1>9. ASSUME NEW i \in DOMAIN w, NEW j \in DOMAIN w, i # j
      PROVE  Identity(batch[w[i]]) # Identity(batch[w[j]])
  <2>1. w[i] - 1 # w[j] - 1
    BY <1>5, <1>6, <1>9
  <2> QED
    BY <1>5, <1>7, <1>8, <1>13, <2>1
<1>10. ASSUME NEW i \in DOMAIN w, NEW n \in DOMAIN input
       PROVE  /\ batch[w[i]].signature = input[n].signature
              /\ input[n].type = "data" /\ input[n].fec_set_index = batch[w[i]].fec_set_index =>
                   Identity(input[n]) # Identity(batch[w[i]])
  <2>1. PICK k \in Chosen(mask) : batch[k] = input[n]
    BY <1>2, AllPlaced
  <2>2. mask[k] /\ k \in DOMAIN batch /\ k \in Nat
    BY DEF Chosen, PlaceInv, BatchOK, IsSeq
  <2>3. erasure_shard_index(batch[k]) = k - 1 /\ Bears(batch[k])
    BY <1>2, <2>2 DEF PlaceInv, BatchOK, SignOK
  <2>4. k # w[i]
    BY <1>5, <1>7, <2>2
  <2>5. k - 1 # w[i] - 1
    BY <1>5, <2>2, <2>4
  <2>6. batch[w[i]].signature = input[n].signature
    BY <1>5, <1>7, <2>1, <2>3 DEF Bears
  <2>7. input[n].type = "data" /\ input[n].fec_set_index = batch[w[i]].fec_set_index =>
          Identity(input[n]) # Identity(batch[w[i]])
    BY <1>5, <1>7, <1>8, <2>1, <2>3, <2>5
  <2> QED
    BY <2>6, <2>7
<1>11. outcome'.value = new
  BY <1>1 DEF Ok
<1>12. \A i \in DOMAIN w : batch[w[i]].type = "data" /\ HeaderMatches(batch[w[i]])
  BY <1>5, <1>7
<1> QED
  BY <1>2, <1>9, <1>10, <1>11, <1>12 DEF FastGivesNewShreds, HeaderMatches, Identity

LEMMA NextNew == ASSUME PlaceInv, SignOK, StubsOK, FastGivesNewShreds, [Next]_vars PROVE FastGivesNewShreds'
<1>1. ASSUME ~outcome'.ok \/ mode' # "fast" PROVE FastGivesNewShreds'
  BY <1>1 DEF FastGivesNewShreds
<1>2. ASSUME UNCHANGED <<input, mode, outcome>> PROVE FastGivesNewShreds'
  BY <1>2 DEF FastGivesNewShreds, Identity
<1>3. CASE \E shreds \in Inputs : CallFast(shreds)
  <2>1. Start("fast")
    BY <1>3 DEF CallFast
  <2>2. ~outcome'.ok
    BY <2>1 DEF Start, StartError, Return, Pending, Err
  <2> QED
    BY <1>1, <2>2
<1>4. CASE CallFull
  BY <1>1, <1>4 DEF CallFull, Start
<1>5. CASE FillStep
  <2>1. UNCHANGED <<input, mode>> /\ (UNCHANGED outcome \/ ~outcome'.ok)
    BY <1>5 DEF FillStep, FillError, Return, Pending, Err
  <2> QED
    BY <1>1, <1>2, <2>1
<1>6. CASE DecodeStep
  <2>1. UNCHANGED <<input, mode>> /\ (UNCHANGED outcome \/ ~outcome'.ok)
    BY <1>6 DEF DecodeStep, DecodeError, Return, Pending, Err
  <2> QED
    BY <1>1, <1>2, <2>1
<1>7. CASE Verify
  BY <1>1, <1>7 DEF Verify
<1>8. CASE Iterate \/ Drop \/ UNCHANGED vars
  BY <1>2, <1>8 DEF Iterate, Drop, vars
<1>9. CASE Forget
  BY <1>1, <1>9 DEF Forget, Pending, Err
<1> QED
  BY <1>3, <1>4, <1>5, <1>6, <1>7, <1>8, <1>9, ExtractNew, NextSteps DEF Steps

(* The fast path (merkle.rs 846-869), which checks nothing of the tree,    *)
(* returns no two shreds with one ShredId, and none with that of a data    *)
(* shred of its FEC set that the caller passed, whatever mixture of        *)
(* sanitized shreds it is given and whatever the codec makes of it.        *)
THEOREM OnlyNew == Spec => []FastGivesNewShreds
<1> DEFINE I == PlaceInv /\ SignOK /\ StubsOK /\ FastGivesNewShreds
<1>1. Init => I
  <2> SUFFICES ASSUME Init PROVE I
    OBVIOUS
  <2>1. SignOK /\ FastGivesNewShreds
    BY DEF Init, SignOK, FastGivesNewShreds, Pending, Err
  <2> QED
    BY <2>1, InitPlace, InitStubs
<1>2. I /\ [Next]_vars => I'
  BY NextPlace, NextSigned, NextStubs, NextNew
<1>3. I => FastGivesNewShreds
  OBVIOUS
<1> QED
  BY <1>1, <1>2, <1>3, PTL DEF Spec

-----------------------------------------------------------------------------
(* The full path.  What the headers were taken from, what holds of the     *)
(* batch once its root was compared, and what the iterator has made of it. *)
HeadedBy(c) ==
    /\ c.type = "code"
    /\ header = HeaderOf(c)
    /\ mode = "full" => merkle_root(c).ok

HeadOK ==
    /\ pc \in {"fill", "decoded"} => outcome = Pending /\ \E c \in Range(input) : HeadedBy(c)
    /\ pc = "decoded" => Len(batch) = NumShards

Hashes == [k \in DOMAIN batch |-> merkle_node(batch[k])]

Sound(k) ==
    /\ k <= header.num_data => batch[k].type = "data"
    /\ batch[k].type = "data" => HeaderMatches(batch[k]) /\ SaneShard(batch[k].shard)

Given ==
    /\ \E c \in Range(input) : HeadedBy(c)
    /\ Len(batch) = NumShards /\ NumShards \in Nat /\ NumShards # 0
    /\ nodes = Tree(Hashes) /\ header.root = Ok(root(nodes))
    /\ get_proof_size(NumShards) = ProofSize
    /\ \A k \in 1..NumShards : Bears(batch[k]) /\ (~mask[k] => Sound(k))

(* A rebuilt shred with its path in the tree of the batch. *)
Yielded(k) == [batch[k] EXCEPT !.proof = Path(Hashes, k - 1)]

Wanting(to) == {k \in 1..to : ~mask[k]}

ItemsOK ==
    /\ cursor \in 0..NumShards
    /\ IsSeq(items) /\ Len(items) = Cardinality(Wanting(cursor))
    /\ \A i \in 1..Len(items) : \E k \in Wanting(cursor) : items[i] = Ok(Yielded(k))

GivenInv ==
    /\ mode \in {"fast", "full"}
    /\ pc = "idle" => ~Iterating
    /\ pc = "iterate" => Iterating
    /\ HeadOK
    /\ ~Iterating => items = <<>> /\ cursor = 0
    /\ Iterating => Given /\ ItemsOK

(* The hashes of a batch, all from one set that is closed under joining. *)
HashesFrom(H) ==
    /\ Closed(H) /\ Hashes \in Seq(H) /\ Len(Hashes) = Len(batch) /\ Len(Hashes) # 0
    /\ LeavesOnly(Hashes)
    /\ \A k \in 1..Len(batch) : Hashes[k] = merkle_node(batch[k]) /\ Hashes[k] \in H

LEMMA HashesAre == ASSUME BatchOK, Len(batch) # 0 PROVE \E H : HashesFrom(H)
<1> DEFINE n == Len(batch)
<1>1. n \in Nat /\ DOMAIN batch = 1..n
  BY DEF BatchOK, IsSeq
<1>2. PICK H : {merkle_node(batch[k]) : k \in DOMAIN batch} \subseteq H /\ Closed(H)
  BY Closure
<1> HIDE DEF n
<1>3. Hashes \in [1..n -> H] /\ \A k \in 1..n : Hashes[k] = merkle_node(batch[k]) /\ Hashes[k] \in H
  BY <1>1, <1>2 DEF Hashes
<1>4. Hashes \in Seq(H) /\ Len(Hashes) = n
  BY <1>1, <1>3
<1>5. LeavesOnly(Hashes)
  BY DEF LeavesOnly, Hashes, merkle_node
<1> QED
  BY <1>2, <1>3, <1>4, <1>5 DEF HashesFrom, n

(* Whom the headers are from: a coding shred of the caller. *)
LEMMA Heads ==
  ASSUME PlaceInv, NEW c \in Range(input), HeadedBy(c)
  PROVE  /\ Parsed(c)
         /\ header.num_data = c.num_data /\ header.num_coding = c.num_coding
         /\ header.signature = c.signature /\ header.root = merkle_root(c)
         /\ NumShards \in Nat /\ NumShards # 0
         /\ erasure_shard_index(c) \in Nat
<1>1. Parsed(c) /\ c.type = "code"
  BY DEF PlaceInv, OrderOK, Range, HeadedBy
<1>2. /\ header.num_data = c.num_data /\ header.num_coding = c.num_coding
      /\ header.signature = c.signature /\ header.root = merkle_root(c)
  BY DEF HeadedBy, HeaderOf
<1>3. c.num_data \in Nat /\ c.num_data > 0 /\ c.num_coding \in Nat /\ c.position \in Nat
  BY <1>1 DEF Parsed
<1>4. erasure_shard_index(c) \in Nat
  BY <1>1, <1>3 DEF erasure_shard_index
<1> QED
  BY <1>1, <1>2, <1>3, <1>4 DEF NumShards

(* A shred that verifies with the root of the batch's tree has a proof of  *)
(* the height of the tree.                                                 *)
LEMMA VerifiedLeads ==
  ASSUME NEW H, HashesFrom(H), NEW s, Parsed(s), erasure_shard_index(s) \in Nat,
         merkle_root(s) = Ok(root(Tree(Hashes)))
  PROVE  Leads(Hashes, erasure_shard_index(s), merkle_node(s), s.proof)
<1>1. s.proof \in Seq(Range(s.proof))
  BY DEF Parsed
<1>2. get_merkle_root(erasure_shard_index(s), get_merkle_node(Content(s)), s.proof)
        = Ok(root(Tree(Hashes)))
  BY DEF merkle_root, merkle_node
<1>3. Leads(Hashes, erasure_shard_index(s), get_merkle_node(Content(s)), s.proof)
  BY <1>1, <1>2, Accepted DEF HashesFrom
<1> QED
  BY <1>3 DEF merkle_node

(* What the check of one shred of the batch comes to. *)
LEMMA NodeTells ==
  ASSUME NEW k
  PROVE  /\ Node(k).ok => Node(k) = Ok(merkle_node(batch[k])) /\ (~mask[k] => Sound(k))
         /\ ~Node(k).ok => Node(k) # Pending
<1>1. CASE mask[k]
  BY <1>1 DEF Node, Ok
<1>2. CASE ~mask[k] /\ Node(k) = Ok(merkle_node(batch[k]))
  <2>1. Sound(k)
    BY <1>2 DEF Node, Sound, Ok, Err
  <2> QED
    BY <1>2, <2>1 DEF Ok
<1>3. CASE ~mask[k] /\ Node(k) # Ok(merkle_node(batch[k]))
  <2>1. Node(k) \in {Err("InvalidRecoveredShred"), Err("Sanitize")}
    BY <1>3 DEF Node
  <2> QED
    BY <2>1 DEF Err, Pending
<1> QED
  BY <1>1, <1>2, <1>3

(* A tree that passes is the tree of the batch, and its root the one that  *)
(* the headers were taken with.                                            *)
LEMMA TreePasses ==
  ASSUME PlaceInv, Len(batch) # 0, NEW tree,
         tree = try_new([k \in DOMAIN batch |-> Node(k)]), VerifyError(tree) = Pending
  PROVE  /\ tree.value = Tree(Hashes) /\ header.root = Ok(root(tree.value))
         /\ \A k \in DOMAIN batch : ~mask[k] => Sound(k)
<1> DEFINE n == Len(batch)
           shreds == [k \in DOMAIN batch |-> Node(k)]
<1>1. n \in Nat /\ n # 0 /\ DOMAIN batch = 1..n
  BY DEF PlaceInv, BatchOK, IsSeq
<1> HIDE DEF n
<1>2. \A k \in 1..n : shreds[k] = Node(k)
  BY <1>1
<1>3. IsSeq(shreds) /\ Len(shreds) = n
  <2>1. shreds = [k \in 1..n |-> shreds[k]]
    BY <1>1
  <2> HIDE DEF shreds
  <2> QED
    BY <1>1, <2>1, FunctionIsSeq
<1>4. tree = try_new(shreds)
  OBVIOUS
<1> HIDE DEF shreds
<1>5. PICK H : HashesFrom(H)
  BY HashesAre DEF PlaceInv
<1>6. ASSUME NEW k \in 1..n
      PROVE  /\ shreds[k].ok => /\ shreds[k] = Ok(merkle_node(batch[k])) /\ merkle_node(batch[k]) \in H
                                /\ ~mask[k] => Sound(k)
             /\ ~shreds[k].ok => shreds[k] # Pending
  <2>1. shreds[k] = Node(k) /\ merkle_node(batch[k]) \in H
    BY <1>2, <1>5 DEF HashesFrom, n
  <2> QED
    BY <2>1, NodeTells
<1>7. \A v : Ok(v).ok /\ Ok(v).value = v
  BY DEF Ok
<1>8. \A k \in 1..n : shreds[k].ok => shreds[k] = Ok(shreds[k].value) /\ shreds[k].value \in H
  BY <1>6, <1>7
<1>9. tree.ok
  <2> SUFFICES ASSUME ~tree.ok PROVE FALSE
    OBVIOUS
  <2>1. PICK k \in 1..n : tree = shreds[k]
    BY <1>1, <1>3, <1>4, TryNewErr DEF IsSeq
  <2>2. tree # Pending
    BY <1>6, <2>1
  <2> QED
    BY <2>2 DEF VerifyError
<1>10. \A k \in 1..n : shreds[k].ok
  BY <1>1, <1>3, <1>4, <1>5, <1>8, <1>9, TryNew DEF IsSeq, HashesFrom
<1>11. tree = Ok(Tree([k \in 1..n |-> shreds[k].value]))
  BY <1>1, <1>3, <1>4, <1>5, <1>8, <1>10, TryNew DEF IsSeq, HashesFrom
<1>12. [k \in 1..n |-> shreds[k].value] = Hashes
  <2>1. \A k \in 1..n : shreds[k].value = merkle_node(batch[k])
    BY <1>6, <1>7, <1>10
  <2>2. Hashes = [k \in 1..n |-> merkle_node(batch[k])]
    BY <1>1 DEF Hashes
  <2> QED
    BY <2>1, <2>2
<1>13. tree.value = Tree(Hashes)
  BY <1>7, <1>11, <1>12
<1>14. header.root = Ok(root(tree.value))
  BY <1>9 DEF VerifyError, RootMatches, Pending, Err
<1> QED
  BY <1>1, <1>6, <1>10, <1>13, <1>14

(* The coding shred that the headers are from leads to that root, so its   *)
(* proof, and with it the proof of every shred of the variant, fits.       *)
LEMMA ProofsFit ==
  ASSUME PlaceInv, NEW c \in Range(input), HeadedBy(c),
         Len(batch) = NumShards, header.root = Ok(root(Tree(Hashes)))
  PROVE  get_proof_size(NumShards) = ProofSize
<1>1. /\ Parsed(c) /\ erasure_shard_index(c) \in Nat /\ NumShards # 0
      /\ merkle_root(c) = Ok(root(Tree(Hashes)))
  BY Heads
<1>2. PICK H : HashesFrom(H)
  BY <1>1, HashesAre DEF PlaceInv
<1>3. Len(c.proof) = Depth(Hashes)
  BY <1>1, <1>2, VerifiedLeads DEF Leads
<1>4. Len(c.proof) = ProofSize
  BY <1>1 DEF Parsed
<1>5. get_proof_size(Len(Hashes)) = Depth(Hashes)
  BY <1>2, ProofSizeIs DEF HashesFrom
<1> QED
  BY <1>2, <1>3, <1>4, <1>5 DEF HashesFrom

(* What the batch has been checked for stays. *)
LEMMA GivenStays ==
  ASSUME Given, UNCHANGED <<input, mode, header, batch, mask, nodes>>
  PROVE  Given'
BY DEF Given, HeadedBy, NumShards, Hashes, Bears, Sound, HeaderMatches

LEMMA NothingWanted == Wanting(0) = {} /\ Cardinality(Wanting(0)) = 0
<1>1. Wanting(0) = {}
  BY DEF Wanting
<1> QED
  BY <1>1, FS_EmptySet

LEMMA VerifyGiven == ASSUME PlaceInv, SignOK, GivenInv, Verify PROVE GivenInv'
<1> DEFINE tree == try_new([k \in DOMAIN batch |-> Node(k)])
<1>1. /\ pc = "decoded" /\ mode = "full"
      /\ UNCHANGED <<input, sorted, mode, todo, header, batch, mask, cursor, items, fast>>
  BY DEF Verify
<1>2. /\ outcome = Pending /\ Len(batch) = NumShards
      /\ \E c \in Range(input) : HeadedBy(c)
  BY <1>1 DEF GivenInv, HeadOK
<1>3. items = <<>> /\ cursor = 0
  BY <1>2 DEF GivenInv, Iterating, Pending, Err
<1>4. pc' \in {"done", "iterate"}
  BY DEF Verify, Return
<1>5. HeadOK'
  BY <1>4 DEF HeadOK
<1>6. CASE VerifyError(tree) # Pending
  <2>1. outcome' = VerifyError(tree) /\ pc' = "done"
    BY <1>6 DEF Verify, Return
  <2>2. ~VerifyError(tree).ok
    BY <1>6 DEF VerifyError, Err
  <2> QED
    BY <1>1, <1>3, <1>5, <2>1, <2>2 DEF GivenInv, Iterating
<1>7. CASE VerifyError(tree) = Pending
  <2>1. nodes' = tree.value /\ outcome' = Ok("iterator") /\ pc' = "iterate"
    BY <1>7 DEF Verify
  <2>2. PICK c \in Range(input) : HeadedBy(c)
    BY <1>2
  <2>3. NumShards \in Nat /\ NumShards # 0
    BY <2>2, Heads
  <2>4. tree.value = Tree(Hashes) /\ header.root = Ok(root(tree.value))
        /\ \A k \in DOMAIN batch : ~mask[k] => Sound(k)
    BY <1>2, <1>7, <2>3, TreePasses
  <2> HIDE DEF tree
  <2>5. get_proof_size(NumShards) = ProofSize
    BY <1>2, <2>2, <2>4, ProofsFit
  <2>6. DOMAIN batch = 1..NumShards
    BY <1>2 DEF PlaceInv, BatchOK, IsSeq
  <2>7. \A k \in 1..NumShards : Bears(batch[k]) /\ (~mask[k] => Sound(k))
    BY <1>1, <2>4, <2>6 DEF SignOK
  <2>8. NumShards' = NumShards /\ Hashes' = Hashes
    BY <1>1 DEF NumShards, Hashes
  <2>9. HeadedBy(c)'
    BY <1>1, <2>2 DEF HeadedBy
  <2>10. (\A k \in 1..NumShards : Bears(batch[k]) /\ (~mask[k] => Sound(k)))'
    BY <1>1, <2>7, <2>8 DEF Bears, Sound, HeaderMatches
  <2>11. Given'
    BY <1>1, <1>2, <2>1, <2>2, <2>3, <2>4, <2>5, <2>8, <2>9, <2>10 DEF Given
  <2>12. ItemsOK'
    <3>1. IsSeq(items') /\ Len(items') = 0
      BY <1>1, <1>3, NothingIn
    <3>2. cursor' = 0 /\ Cardinality(Wanting(cursor')) = 0
      BY <1>1, <1>3, NothingWanted
    <3>3. Wanting(cursor)' = Wanting(cursor')
      BY <1>1 DEF Wanting
    <3> QED
      BY <2>3, <2>8, <3>1, <3>2, <3>3 DEF ItemsOK
  <2> QED
    BY <1>1, <1>5, <2>1, <2>11, <2>12 DEF GivenInv, Iterating, Ok
<1> QED
  BY <1>6, <1>7

(* The proof that the iterator makes of a place is the path of its leaf,   *)
(* and it is one that the shred has room for.                              *)
LEMMA PathOf ==
  ASSUME PlaceInv, Given, NEW k \in 1..NumShards
  PROVE  /\ set_merkle_proof(Proof(k), ProofSize) = Ok(Path(Hashes, k - 1))
         /\ IsSeq(Path(Hashes, k - 1)) /\ Len(Path(Hashes, k - 1)) = Depth(Hashes)
         /\ \A i \in 1..Depth(Hashes) :
              Path(Hashes, k - 1)[i] = Entry(Beside(Hashes, (k - 1), i - 1))
<1> DEFINE index == k - 1
           path == Path(Hashes, index)
           d == Depth(Hashes)
<1>1. PICK H : HashesFrom(H)
  BY HashesAre DEF PlaceInv, Given
<1>2. /\ Closed(H) /\ Hashes \in Seq(H) /\ Len(Hashes) # 0 /\ Len(Hashes) = NumShards
  BY <1>1 DEF HashesFrom, Given
<1>3. index \in 0..Len(Hashes) - 1
  BY <1>2 DEF Given
<1>4. Proof(k) = make_merkle_proof(Tree(Hashes), index, Len(Hashes))
  BY <1>2 DEF Proof, ProofIndex, Given
<1> HIDE DEF index
<1>5. Siblings(Hashes, index, make_merkle_proof(Tree(Hashes), index, Len(Hashes)))
  BY <1>2, <1>3, PathYielded
<1>6. set_merkle_proof(make_merkle_proof(Tree(Hashes), index, Len(Hashes)), get_proof_size(Len(Hashes)))
        = Ok(path)
  BY <1>2, <1>5, PathStored
<1>7. get_proof_size(Len(Hashes)) = ProofSize
  BY <1>2 DEF Given
<1>8. d \in Nat
  BY <1>2, DepthIs
<1>9. path = [i \in 1..d |-> path[i]] /\ \A i \in 1..d : path[i] = Entry(Beside(Hashes, index, i - 1))
  BY DEF Path
<1> HIDE DEF path, d
<1>10. IsSeq(path) /\ Len(path) = d
  BY <1>8, <1>9, FunctionIsSeq
<1> QED
  BY <1>4, <1>6, <1>7, <1>9, <1>10 DEF index, path, d

(* Only the proof of a yielded shred is new. *)
LEMMA YieldedIs ==
  ASSUME PlaceInv, Given, NEW k \in 1..NumShards
  PROVE  LET s == batch[k]
             y == Yielded(k)
         IN  /\ y.proof = Path(Hashes, k - 1)
             /\ y.type = s.type /\ y.shard = s.shard /\ y.index = s.index
             /\ y.fec_set_index = s.fec_set_index /\ y.signature = s.signature
             /\ erasure_shard_index(y) = k - 1
             /\ merkle_node(y) = merkle_node(s)
<1> DEFINE s == batch[k]
           y == Yielded(k)
           path == Path(Hashes, k - 1)
<1>1. k \in DOMAIN batch
  BY DEF Given, PlaceInv, BatchOK, IsSeq
<1>2. Placeable(s) /\ erasure_shard_index(s) = k - 1 /\ Bears(s)
  BY <1>1 DEF Given, PlaceInv, BatchOK
<1>3. y = [s EXCEPT !.proof = path]
  BY DEF Yielded
<1> HIDE DEF s, y, path
<1>4. /\ y.proof = path /\ DOMAIN y = DOMAIN s
      /\ \A f \in DOMAIN s : f # "proof" => y[f] = s[f]
  BY <1>2, <1>3 DEF Placeable
<1>5. /\ y.type = s.type /\ y.shard = s.shard /\ y.index = s.index
      /\ y.fec_set_index = s.fec_set_index /\ y.signature = s.signature
  BY <1>2, <1>4 DEF Placeable, Bears
<1>6. /\ s.type = "code" => y.num_data = s.num_data /\ y.position = s.position
      /\ s.type \in {"data", "code"}
  BY <1>2, <1>4 DEF Placeable
<1>7. erasure_shard_index(y) = k - 1
  BY <1>2, <1>5, <1>6 DEF erasure_shard_index
<1>8. y.chained = s.chained /\ y.num_data = s.num_data /\ y.num_coding = s.num_coding /\ y.position = s.position
  BY <1>3
<1>9. merkle_node(y) = merkle_node(s)
  BY <1>5, <1>8 DEF merkle_node, Content
<1> QED
  BY <1>4, <1>5, <1>7, <1>9 DEF s, y, path

LEMMA YieldedLeads ==
  ASSUME PlaceInv, Given, NEW k \in 1..NumShards
  PROVE  merkle_root(Yielded(k)) = header.root
<1> DEFINE index == k - 1
           path == Path(Hashes, index)
           y == Yielded(k)
<1>1. PICK H : HashesFrom(H)
  BY HashesAre DEF PlaceInv, Given
<1>2. /\ Closed(H) /\ Hashes \in Seq(H) /\ Len(Hashes) # 0 /\ Len(Hashes) = NumShards
      /\ Hashes[k] = merkle_node(batch[k])
  BY <1>1 DEF HashesFrom, Given
<1>3. index \in 0..Len(Hashes) - 1 /\ index + 1 = k
  BY <1>2 DEF Given
<1>4. /\ IsSeq(path) /\ Len(path) = Depth(Hashes)
      /\ \A i \in 1..Depth(Hashes) : path[i] = Entry(Beside(Hashes, index, i - 1))
  BY PathOf
<1>5. y.proof = path /\ erasure_shard_index(y) = index /\ merkle_node(y) = merkle_node(batch[k])
  BY YieldedIs
<1>6. merkle_root(y) = get_merkle_root(index, Hashes[k], path)
  BY <1>2, <1>5 DEF merkle_root
<1> HIDE DEF path, index, y
<1>7. \A i \in 1..Depth(Hashes) : Entry(path[i]) = Entry(Beside(Hashes, index, i - 1))
  BY <1>4, EntryTwice
<1>8. get_merkle_root(index, Hashes[index + 1], path) = Ok(root(Tree(Hashes)))
  BY <1>2, <1>3, <1>4, <1>7, PathLeads DEF IsSeq
<1>9. header.root = Ok(root(Tree(Hashes)))
  BY DEF Given
<1> QED
  BY <1>3, <1>6, <1>8, <1>9 DEF y

(* The iterator goes on by one. *)
LEMMA OneMoreWanted ==
  ASSUME NEW n \in Nat
  PROVE  /\ Wanting(n + 1) = IF mask[n + 1] THEN Wanting(n) ELSE Wanting(n) \cup {n + 1}
         /\ Cardinality(Wanting(n)) \in Nat
         /\ Cardinality(Wanting(n + 1)) =
              IF mask[n + 1] THEN Cardinality(Wanting(n)) ELSE Cardinality(Wanting(n)) + 1
<1>1. \A k : k \in 1..n + 1 <=> k \in 1..n \/ k = n + 1
  OBVIOUS
<1>2. Wanting(n + 1) = IF mask[n + 1] THEN Wanting(n) ELSE Wanting(n) \cup {n + 1}
  BY <1>1 DEF Wanting
<1>3. n + 1 \notin Wanting(n)
  BY DEF Wanting
<1>4. IsFiniteSet(Wanting(n))
  <2>1. IsFiniteSet(1..n) /\ Wanting(n) \subseteq 1..n
    BY FS_Interval DEF Wanting
  <2> QED
    BY <2>1, FS_Subset
<1>5. Cardinality(Wanting(n)) \in Nat
  BY <1>4, FS_CardinalityType
<1>6. Cardinality(Wanting(n) \cup {n + 1}) = Cardinality(Wanting(n)) + 1
  BY <1>3, <1>4, FS_AddElement
<1> QED
  BY <1>2, <1>5, <1>6

LEMMA OneItem ==
  ASSUME NEW q, IsSeq(q), NEW x
  PROVE  /\ IsSeq(Append(q, x)) /\ Len(Append(q, x)) = Len(q) + 1
         /\ \A i \in 1..Len(q) : Append(q, x)[i] = q[i]
         /\ Append(q, x)[Len(q) + 1] = x
<1> DEFINE S == Range(q) \cup {x}
<1>1. q \in Seq(S) /\ x \in S
  BY DEF IsSeq
<1> HIDE DEF S
<1>2. /\ Append(q, x) \in Seq(S) /\ Len(Append(q, x)) = Len(q) + 1
      /\ \A i \in 1..Len(q) : Append(q, x)[i] = q[i]
      /\ Append(q, x)[Len(q) + 1] = x
  BY <1>1
<1>3. IsSeq(Append(q, x))
  BY <1>2, TypedIsSeq
<1> QED
  BY <1>2, <1>3

LEMMA IterateGiven == ASSUME PlaceInv, GivenInv, Iterating, Iterate PROVE GivenInv'
<1> DEFINE k == cursor + 1
           proof == set_merkle_proof(Proof(k), ProofSize)
<1>1. /\ pc = "iterate" /\ cursor < NumShards /\ cursor' = k
      /\ UNCHANGED <<input, sorted, mode, pc, todo, header, batch, mask, nodes, outcome, fast>>
      /\ items' = IF mask[k] THEN items
                  ELSE Append(items, IF proof.ok THEN Ok([batch[k] EXCEPT !.proof = proof.value]) ELSE proof)
  BY DEF Iterate
<1>2. Given /\ ItemsOK
  BY DEF GivenInv
<1>3. cursor \in Nat /\ NumShards \in Nat /\ k \in 1..NumShards
  BY <1>1, <1>2 DEF Given, ItemsOK
<1>4. proof = Ok(Path(Hashes, k - 1))
  BY <1>2, <1>3, PathOf
<1> HIDE DEF proof
<1>5. proof.ok /\ proof.value = Path(Hashes, k - 1)
  BY <1>4 DEF Ok
<1>6. items' = IF mask[k] THEN items ELSE Append(items, Ok(Yielded(k)))
  BY <1>1, <1>5 DEF Yielded
<1>7. /\ Wanting(k) = IF mask[k] THEN Wanting(cursor) ELSE Wanting(cursor) \cup {k}
      /\ Cardinality(Wanting(k)) =
           IF mask[k] THEN Cardinality(Wanting(cursor)) ELSE Cardinality(Wanting(cursor)) + 1
  BY <1>3, OneMoreWanted
<1>8. /\ IsSeq(items) /\ Len(items) = Cardinality(Wanting(cursor))
      /\ \A i \in 1..Len(items) : \E j \in Wanting(cursor) : items[i] = Ok(Yielded(j))
  BY <1>2 DEF ItemsOK
<1>9. /\ IsSeq(items') /\ Len(items') = Cardinality(Wanting(k))
      /\ \A i \in 1..Len(items') : \E j \in Wanting(k) : items'[i] = Ok(Yielded(j))
  <2>1. CASE mask[k]
    BY <1>6, <1>7, <1>8, <2>1
  <2>2. CASE ~mask[k]
    <3> DEFINE x == Ok(Yielded(k))
    <3>1. items' = Append(items, x)
      BY <1>6, <2>2
    <3>2. \E j \in Wanting(k) : x = Ok(Yielded(j))
      BY <1>7, <2>2
    <3> HIDE DEF x
    <3>3. /\ IsSeq(items') /\ Len(items') = Len(items) + 1
          /\ \A i \in 1..Len(items) : items'[i] = items[i]
          /\ items'[Len(items) + 1] = x
      BY <1>8, <3>1, OneItem
    <3>4. Len(items) \in Nat
      BY <1>8 DEF IsSeq
    <3>5. \A i \in 1..Len(items') : i \in 1..Len(items) \/ i = Len(items) + 1
      BY <3>3, <3>4
    <3>6. Wanting(cursor) \subseteq Wanting(k) /\ Len(items') = Cardinality(Wanting(k))
      BY <1>7, <1>8, <2>2, <3>3
    <3> QED
      BY <1>8, <3>2, <3>3, <3>5, <3>6
  <2> QED
    BY <2>1, <2>2
<1>10. /\ NumShards' = NumShards /\ Wanting(cursor)' = Wanting(k)
       /\ \A j : Yielded(j)' = Yielded(j)
  BY <1>1 DEF NumShards, Wanting, Yielded, Hashes
<1>11. ItemsOK'
  <2>1. cursor' \in 0..NumShards'
    BY <1>1, <1>3, <1>10
  <2>2. \A i \in 1..Len(items') : \E j \in Wanting(cursor)' : items'[i] = Ok(Yielded(j)')
    BY <1>9, <1>10
  <2>3. Len(items') = Cardinality(Wanting(cursor)')
    BY <1>9, <1>10
  <2>4. IsSeq(items')
    BY <1>9
  <2> QED
    BY <2>1, <2>2, <2>3, <2>4 DEF ItemsOK, IsSeq, Ok
<1>12. Given'
  BY <1>1, <1>2, GivenStays
<1>13. HeadOK'
  BY <1>1 DEF HeadOK
<1> QED
  BY <1>1, <1>11, <1>12, <1>13 DEF GivenInv, Iterating

LEMMA RootOrErr ==
  ASSUME NEW s, ~merkle_root(s).ok
  PROVE  merkle_root(s) = Err("InvalidMerkleProof")
<1> DEFINE Climb(below, other) == <<below[1] \div 2, Parent(below[1], below[2], other)>>
           top == FoldLeft(Climb, <<erasure_shard_index(s), merkle_node(s)>>, s.proof)
<1>1. merkle_root(s) = IF top[1] = 0 THEN Ok(top[2]) ELSE Err("InvalidMerkleProof")
  BY DEF merkle_root, get_merkle_root
<1> HIDE DEF top
<1> QED
  BY <1>1 DEF Ok

(* The start of a call: no batch yet, and headers of a coding shred that   *)
(* tells a root, if that is asked for.                                     *)
LEMMA StartGiven ==
  ASSUME PlaceInv, GivenInv, ~Iterating, NEW m \in {"fast", "full"}, Start(m), UNCHANGED <<items, cursor>>,
         IsSeq(sorted'), \A i \in DOMAIN sorted' : sorted'[i] \in Range(input')
  PROVE  GivenInv'
<1> DEFINE c == Last(sorted')
<1>1. items' = <<>> /\ cursor' = 0 /\ mode' = m
  BY DEF GivenInv, Start
<1>2. CASE StartError(m) # Pending
  <2>1. outcome' = StartError(m) /\ pc' = "done"
    BY <1>2 DEF Start, Return
  <2>2. ~StartError(m).ok
    BY <1>2 DEF StartError, Err
  <2> QED
    BY <1>1, <2>1, <2>2 DEF GivenInv, HeadOK, Iterating
<1>3. CASE StartError(m) = Pending
  <2>1. outcome' = Pending /\ pc' = "fill" /\ header' = HeaderOf(c)
    BY <1>3 DEF Start
  <2>2. sorted' # <<>> /\ c.type = "code"
    BY <1>3 DEF StartError, Pending, Err
  <2>3. c \in Range(input')
    <3>1. Len(sorted') \in 1..Len(sorted') /\ DOMAIN sorted' = 1..Len(sorted')
      BY <2>2 DEF IsSeq
    <3> QED
      BY <3>1 DEF Last
  <2>4. m = "full" => merkle_root(c).ok
    <3> SUFFICES ASSUME m = "full", ~merkle_root(c).ok PROVE FALSE
      OBVIOUS
    <3>1. StartError(m) = merkle_root(c)
      BY <2>2 DEF StartError
    <3>2. merkle_root(c) = Err("InvalidMerkleProof")
      BY RootOrErr
    <3> HIDE DEF c
    <3>3. Err("InvalidMerkleProof") # Pending
      BY DEF Err, Pending
    <3> QED
      BY <1>3, <3>1, <3>2, <3>3
  <2> HIDE DEF c
  <2>5. PICK d \in Range(input') : d = c
    BY <2>3
  <2>6. HeadedBy(d)'
    BY <1>1, <2>1, <2>2, <2>4, <2>5 DEF HeadedBy
  <2>7. (\E s \in Range(input) : HeadedBy(s))'
    BY <2>6
  <2>8. ~Iterating'
    BY <2>1 DEF Iterating, Pending, Err
  <2> QED
    BY <1>1, <2>1, <2>7, <2>8 DEF GivenInv, HeadOK
<1> QED
  BY <1>2, <1>3

LEMMA CallFastGiven ==
  ASSUME PlaceInv, GivenInv, NEW shreds \in Inputs, CallFast(shreds) PROVE GivenInv'
<1>1. IsSeq(shreds)
  BY RecoveryAssumption DEF IsSeq
<1>2. /\ pc = "idle" /\ input' = shreds /\ sorted' \in SortedOrders(shreds) /\ Start("fast")
      /\ UNCHANGED <<items, cursor>>
  BY DEF CallFast
<1>3. IsSeq(sorted') /\ \A i \in DOMAIN sorted' : sorted'[i] \in Range(shreds)
  BY <1>1, <1>2, SortFacts
<1>4. ~Iterating
  BY <1>2 DEF GivenInv
<1> QED
  BY <1>2, <1>3, <1>4, StartGiven

LEMMA CallFullGiven == ASSUME PlaceInv, GivenInv, CallFull PROVE GivenInv'
<1>1. ~Iterating /\ Start("full") /\ UNCHANGED <<input, sorted, items, cursor>>
  BY DEF CallFull, Iterating
<1>2. IsSeq(sorted') /\ \A i \in DOMAIN sorted' : sorted'[i] \in Range(input')
  BY <1>1 DEF PlaceInv, OrderOK
<1> QED
  BY <1>1, <1>2, StartGiven

(* Steps before the iterator. *)
LEMMA EarlierGiven ==
  ASSUME GivenInv, ~Iterating, ~Iterating', UNCHANGED <<mode, items, cursor>>,
         pc' # "iterate", HeadOK'
  PROVE  GivenInv'
BY DEF GivenInv

LEMMA FillGiven == ASSUME PlaceInv, GivenInv, FillStep PROVE GivenInv'
<1> DEFINE s == Head(todo)
<1>1. pc = "fill" /\ UNCHANGED <<input, mode, header, items, cursor>>
  BY DEF FillStep
<1>2. outcome = Pending /\ \E c \in Range(input) : HeadedBy(c)
  BY <1>1 DEF GivenInv, HeadOK
<1>3. ~Iterating
  BY <1>2 DEF Iterating, Pending, Err
<1>4. CASE FillError(s) # Pending
  <2>1. outcome' = FillError(s) /\ pc' = "done" /\ ~FillError(s).ok
    BY <1>4 DEF FillStep, Return, FillError, Err
  <2> QED
    BY <1>1, <1>3, <2>1, EarlierGiven DEF HeadOK, Iterating
<1>5. CASE FillError(s) = Pending
  <2>1. outcome' = outcome /\ pc' = "fill"
    BY <1>1, <1>5 DEF FillStep
  <2>2. HeadOK'
    BY <1>1, <1>2, <2>1 DEF HeadOK, HeadedBy
  <2> QED
    BY <1>1, <1>3, <2>1, <2>2, EarlierGiven DEF Iterating
<1> QED
  BY <1>4, <1>5

LEMMA DecodeGiven == ASSUME PlaceInv, GivenInv, DecodeStep PROVE GivenInv'
<1> DEFINE all == PaddedBatch(NumShards)
           present == PaddedMask(NumShards)
<1>1. pc = "fill" /\ UNCHANGED <<input, mode, header, items, cursor>>
  BY DEF DecodeStep
<1>2. outcome = Pending /\ \E c \in Range(input) : HeadedBy(c)
  BY <1>1 DEF GivenInv, HeadOK
<1>3. ~Iterating
  BY <1>2 DEF Iterating, Pending, Err
<1>4. CASE DecodeError(present) # Pending
  <2>1. outcome' = DecodeError(present) /\ pc' = "done" /\ ~DecodeError(present).ok
    BY <1>4 DEF DecodeStep, Return, DecodeError, Err, PaddedMask
  <2> QED
    BY <1>1, <1>3, <2>1, EarlierGiven DEF HeadOK, Iterating
<1>5. CASE DecodeError(present) = Pending
  <2>1. outcome' = outcome /\ pc' = "decoded" /\ DOMAIN batch' = DOMAIN all
    BY <1>5 DEF DecodeStep, PaddedBatch, PaddedMask
  <2>2. /\ {header.num_data, header.num_coding, header.first, header.fec_set_index} \subseteq Nat
        /\ Len(batch) <= NumShards /\ NumShards \in Nat
    BY <1>1 DEF PlaceInv, HeaderOK, NumShards
  <2>3. IsSeq(all) /\ Len(all) = NumShards
    BY <2>2, Padded DEF PlaceInv
  <2> HIDE DEF all, present
  <2>4. DOMAIN batch' = 1..NumShards /\ DOMAIN batch' = 1..Len(batch') /\ Len(batch') \in Nat
    <3>1. BatchOK'
      BY DecodePlace DEF PlaceInv
    <3> QED
      BY <2>1, <2>3, <3>1 DEF BatchOK, IsSeq
  <2>5. Len(batch') = NumShards
    BY <2>2, <2>4
  <2>6. HeadOK'
    BY <1>1, <1>2, <2>1, <2>5 DEF HeadOK, HeadedBy, NumShards
  <2> QED
    BY <1>1, <1>3, <2>1, <2>6, EarlierGiven DEF Iterating
<1> QED
  BY <1>4, <1>5

(* Steps after it was returned that leave it alone. *)
LEMMA GivenLater ==
  ASSUME GivenInv, UNCHANGED <<input, mode, header, batch, mask, nodes, cursor, items, outcome>>,
         pc' = "done" \/ pc' = pc
  PROVE  GivenInv'
<1>1. HeadOK'
  BY DEF GivenInv, HeadOK, HeadedBy, NumShards
<1>2. Iterating' = Iterating
  BY DEF Iterating
<1>3. Given => Given'
  BY GivenStays
<1>4. ItemsOK => ItemsOK'
  BY DEF ItemsOK, NumShards, Wanting, Yielded, Hashes
<1> QED
  BY <1>1, <1>2, <1>3, <1>4 DEF GivenInv

LEMMA NextGiven == PlaceInv /\ SignOK /\ GivenInv /\ [Next]_vars => GivenInv'
<1> SUFFICES ASSUME PlaceInv, SignOK, GivenInv, [Next]_vars PROVE GivenInv'
  OBVIOUS
<1>1. CASE \E shreds \in Inputs : CallFast(shreds)
  BY <1>1, CallFastGiven
<1>2. CASE CallFull
  BY <1>2, CallFullGiven
<1>3. CASE FillStep
  BY <1>3, FillGiven
<1>4. CASE DecodeStep
  BY <1>4, DecodeGiven
<1>5. CASE Extract
  <2>1. /\ mode = "fast" /\ mode' = "fast" /\ pc' = "done"
        /\ UNCHANGED <<items, cursor>>
    BY <1>5 DEF Extract, Return
  <2> QED
    BY <2>1, EarlierGiven DEF Iterating, HeadOK
<1>6. CASE Verify
  BY <1>6, VerifyGiven
<1>7. CASE Iterate
  <2>1. Iterating
    BY <1>7 DEF Iterate, GivenInv
  <2> QED
    BY <1>7, <2>1, IterateGiven
<1>8. CASE Drop
  BY <1>8, GivenLater DEF Drop
<1>9. CASE Forget
  BY <1>9 DEF Forget, GivenInv, HeadOK, Iterating, Pending, Err
<1>10. CASE UNCHANGED vars
  BY <1>10, GivenLater DEF vars
<1> QED
  BY <1>1, <1>2, <1>3, <1>4, <1>5, <1>6, <1>7, <1>8, <1>9, <1>10, NextSteps DEF Steps

FullInv == PlaceInv /\ SignOK /\ GivenInv

LEMMA InitFull == Init => FullInv
<1> SUFFICES ASSUME Init PROVE FullInv
  OBVIOUS
<1>1. SignOK /\ GivenInv
  BY DEF Init, SignOK, GivenInv, HeadOK, Iterating, Pending, Err
<1> QED
  BY <1>1, InitPlace DEF FullInv

LEMMA NextFull == FullInv /\ [Next]_vars => FullInv'
BY NextPlace, NextSigned, NextGiven DEF FullInv

LEMMA AlwaysGiven == Spec => []FullInv
BY InitFull, NextFull, PTL DEF Spec

LEMMA ItemsFrom ==
  ASSUME FullInv, NEW i \in DOMAIN items
  PROVE  /\ Given /\ \E k \in 1..NumShards : ~mask[k] /\ items[i] = Ok(Yielded(k))
<1>1. Iterating
  <2> SUFFICES ASSUME ~Iterating PROVE FALSE
    OBVIOUS
  <2>1. items = <<>>
    BY DEF FullInv, GivenInv
  <2> QED
    BY <2>1, NothingIn
<1>2. Given /\ ItemsOK
  BY <1>1 DEF FullInv, GivenInv
<1>3. i \in 1..Len(items)
  BY <1>2 DEF ItemsOK, IsSeq
<1>4. PICK k \in Wanting(cursor) : items[i] = Ok(Yielded(k))
  BY <1>2, <1>3 DEF ItemsOK
<1>5. k \in 1..NumShards /\ ~mask[k]
  BY <1>2 DEF ItemsOK, Given, Wanting
<1> QED
  BY <1>2, <1>4, <1>5

(* Once recover has returned Ok (merkle.rs 736-778), its iterator never    *)
(* yields an Err, and every shred that it yields leads by its own index    *)
(* and proof to the signed root and bears the signature; for every number  *)
(* of shreds and proof size, every mixture of shreds, and whatever the     *)
(* codec does.                                                             *)
THEOREM YieldedVerify == Spec => []YieldedShredsVerify
<1>1. ASSUME FullInv, NEW i \in DOMAIN items
      PROVE  items[i].ok /\ Verified(items[i].value) /\ items[i].value.signature = header.signature
  <2>1. Given
    BY <1>1, ItemsFrom
  <2>2. PICK k \in 1..NumShards : items[i] = Ok(Yielded(k))
    BY <1>1, ItemsFrom
  <2>3. items[i].ok /\ items[i].value = Yielded(k)
    BY <2>2 DEF Ok
  <2>4. merkle_root(Yielded(k)) = header.root
    BY <1>1, <2>1, YieldedLeads DEF FullInv
  <2>5. Yielded(k).signature = batch[k].signature
    BY <1>1, <2>1, YieldedIs DEF FullInv
  <2>6. batch[k].signature = header.signature
    BY <2>1 DEF Given, Bears
  <2> QED
    BY <2>3, <2>4, <2>5, <2>6 DEF Verified
<1>2. FullInv => YieldedShredsVerify
  BY <1>1 DEF YieldedShredsVerify
<1> QED
  BY <1>2, AlwaysGiven, PTL

(* The tree of the shards is as deep as a proof is long.                   *)
LEMMA GivenDepth == ASSUME PlaceInv, Given PROVE Depth(Hashes) = ProofSize
<1>1. PICK H : HashesFrom(H)
  BY HashesAre DEF PlaceInv, Given
<1>2. Len(Hashes) = NumShards /\ get_proof_size(NumShards) = ProofSize
  BY <1>1 DEF HashesFrom, Given
<1>3. get_proof_size(Len(Hashes)) = Depth(Hashes)
  BY <1>1, ProofSizeIs DEF HashesFrom
<1> QED
  BY <1>2, <1>3

(* A yielded shred, data or coding, is within the limits of the parser.    *)
LEMMA YieldedParsed ==
  ASSUME PlaceInv, StubsOK, Given, NEW k \in 1..NumShards, ~mask[k]
  PROVE  Parsed(Yielded(k))
<1> DEFINE s == batch[k]
           y == Yielded(k)
           path == Path(Hashes, k - 1)
           n == k - 1
<1>1. k \in DOMAIN batch /\ n \in Nat /\ n < NumShards
  BY DEF Given, PlaceInv, BatchOK, IsSeq
<1>2. IsStub(s, k)
  BY <1>1 DEF StubsOK
<1>3. PICK c \in Range(input) : HeadedBy(c)
  BY DEF Given
<1>4. Parsed(c) /\ c.type = "code"
  BY <1>3 DEF PlaceInv, OrderOK, Range, HeadedBy
<1>5. /\ header.first = c.index - c.position /\ header.fec_set_index = c.fec_set_index
      /\ header.num_data = c.num_data /\ header.num_coding = c.num_coding
  BY <1>3 DEF HeadedBy, HeaderOf
<1>6. /\ header.first \in Nat /\ header.fec_set_index \in Nat
      /\ header.num_data \in Nat /\ header.num_data > 0 /\ header.num_coding \in Nat
  BY <1>4, <1>5 DEF Parsed
<1>7. NumShards = header.num_data + header.num_coding
  BY DEF NumShards
<1>8. y = [s EXCEPT !.proof = path]
  BY DEF Yielded
<1>9. /\ IsSeq(path) /\ Len(path) = Depth(Hashes)
      /\ \A i \in 1..Depth(Hashes) : path[i] = Entry(Beside(Hashes, n, i - 1))
  BY PathOf
<1>10. Depth(Hashes) = ProofSize
  BY GivenDepth
<1> HIDE DEF s, y, path, n
<1>11. path \in Seq(Range(path)) /\ Len(path) = ProofSize
  BY <1>9, <1>10 DEF IsSeq
<1>12. \A e \in Range(path) : Entry(e) = e
  <2>1. DOMAIN path = 1..Depth(Hashes)
    BY <1>9 DEF IsSeq
  <2> QED
    BY <1>9, <2>1, EntryTwice DEF Range
<1>13. /\ DOMAIN y = DOMAIN s /\ \A f \in DOMAIN s : f # "proof" => y[f] = s[f]
       /\ "proof" \in DOMAIN s => y.proof = path
  BY <1>8
<1>14. ASSUME n >= header.num_data PROVE Parsed(y)
  <2>1. /\ DOMAIN s = CommonFields \cup {"num_data", "num_coding", "position"}
        /\ s.type = "code" /\ s.index = header.first + (n - header.num_data)
        /\ s.num_data = header.num_data /\ s.num_coding = header.num_coding
        /\ s.position = n - header.num_data /\ s.fec_set_index = header.fec_set_index
    BY <1>2, <1>14, StubFields DEF n
  <2>2. /\ y.type = "code" /\ DOMAIN y = CommonFields \cup {"num_data", "num_coding", "position"}
        /\ y.index = header.first + (n - header.num_data) /\ y.fec_set_index = header.fec_set_index
        /\ y.num_data = header.num_data /\ y.num_coding = header.num_coding
        /\ y.position = n - header.num_data /\ y.proof = path
    BY <1>13, <2>1 DEF CommonFields
  <2>3. /\ n - header.num_data \in 0..header.num_coding - 1
        /\ header.first + (n - header.num_data) \in Nat
        /\ n - header.num_data <= header.first + (n - header.num_data)
    BY <1>1, <1>6, <1>7, <1>14
  <2>4. {y.index, y.fec_set_index, y.num_data, y.num_coding} \subseteq Nat
    BY <1>6, <2>2, <2>3
  <2>5. y.num_data > 0 /\ y.position \in 0..y.num_coding - 1 /\ y.position <= y.index
    BY <1>6, <2>2, <2>3
  <2>6. y.proof \in Seq(Range(y.proof)) /\ Len(y.proof) = ProofSize
    BY <1>11, <2>2
  <2>7. \A e \in Range(y.proof) : Entry(e) = e
    BY <1>12, <2>2
  <2> HIDE DEF y
  <2> QED
    BY <2>2, <2>4, <2>5, <2>6, <2>7 DEF Parsed
<1>15. ASSUME ~(n >= header.num_data) PROVE Parsed(y)
  <2>1. /\ DOMAIN s = CommonFields
        /\ s.type = "data" /\ s.index = header.fec_set_index + n
        /\ s.fec_set_index = header.fec_set_index
    BY <1>2, <1>15, StubFields DEF n
  <2>2. /\ y.type = "data" /\ DOMAIN y = CommonFields
        /\ y.index = header.fec_set_index + n /\ y.fec_set_index = header.fec_set_index
        /\ y.proof = path
    BY <1>13, <2>1 DEF CommonFields
  <2>3. /\ header.fec_set_index + n \in Nat
        /\ header.fec_set_index \in 0..header.fec_set_index + n
    BY <1>1, <1>6
  <2>4. y.index \in Nat /\ y.fec_set_index \in 0..y.index
    BY <2>2, <2>3
  <2>5. y.proof \in Seq(Range(y.proof)) /\ Len(y.proof) = ProofSize
    BY <1>11, <2>2
  <2>6. \A e \in Range(y.proof) : Entry(e) = e
    BY <1>12, <2>2
  <2> HIDE DEF y
  <2> QED
    BY <2>2, <2>4, <2>5, <2>6 DEF Parsed
<1>16. Parsed(y)
  BY <1>14, <1>15
<1> QED
  BY <1>16 DEF y

(* What is yielded, data and coding shreds, is within the parser's limits, *)
(* and a data shred is what its own bytes say, header and all (the         *)
(* debug_assert_eq at merkle.rs 766).                                      *)
THEOREM YieldedReparse == Spec => []YieldedShredsReparse
<1>1. ASSUME FullInv, StubsOK, NEW i \in DOMAIN items
      PROVE  LET s == items[i].value
             IN  /\ Parsed(s)
                 /\ s.type = "data" => /\ HeaderIn(s.shard) = [index |-> s.index, fec_set_index |-> s.fec_set_index]
                                       /\ SaneShard(s.shard)
  <2>1. Given
    BY <1>1, ItemsFrom
  <2>2. PICK k \in 1..NumShards : ~mask[k] /\ items[i] = Ok(Yielded(k))
    BY <1>1, ItemsFrom
  <2>3. items[i].value = Yielded(k)
    BY <2>2 DEF Ok
  <2>4. /\ Yielded(k).type = batch[k].type /\ Yielded(k).shard = batch[k].shard
        /\ Yielded(k).index = batch[k].index /\ Yielded(k).fec_set_index = batch[k].fec_set_index
    BY <1>1, <2>1, YieldedIs DEF FullInv
  <2>5. Sound(k)
    BY <2>1, <2>2 DEF Given
  <2>6. Parsed(Yielded(k))
    BY <1>1, <2>1, <2>2, YieldedParsed DEF FullInv
  <2> QED
    BY <2>3, <2>4, <2>5, <2>6 DEF Sound, HeaderMatches
<1>2. FullInv /\ StubsOK => YieldedShredsReparse
  BY <1>1 DEF YieldedShredsReparse
<1>3. Init => StubsOK
  BY InitStubs
<1>4. FullInv /\ StubsOK /\ [Next]_vars => StubsOK'
  BY NextStubs DEF FullInv
<1> QED
  BY <1>2, <1>3, <1>4, AlwaysGiven, PTL DEF Spec

(* If each shred of the caller verifies by itself, the tree that recover   *)
(* rebuilds gives it the proof it carries (the debug_assert at merkle.rs   *)
(* 757): there is only one path that leads to a root.                      *)
THEOREM CarriedMatch == Spec => []CarriedProofsMatch
<1>1. ASSUME FullInv, Iterating, \A n \in DOMAIN input : Verified(input[n]),
             NEW k \in DOMAIN batch, mask[k]
      PROVE  set_merkle_proof(Proof(k), ProofSize) = Ok(batch[k].proof)
  <2> DEFINE s == batch[k]
             path == Path(Hashes, k - 1)
             d == Depth(Hashes)
  <2>1. PlaceInv /\ Given
    BY <1>1 DEF FullInv, GivenInv
  <2>2. k \in 1..NumShards /\ NumShards \in Nat
    BY <2>1 DEF Given, PlaceInv, BatchOK, IsSeq
  <2>3. s \in Range(input) /\ erasure_shard_index(s) = k - 1
    BY <1>1, <2>1 DEF PlaceInv, BatchOK
  <2>4. Parsed(s) /\ Verified(s)
    BY <1>1, <2>1, <2>3 DEF PlaceInv, OrderOK, Range
  <2>5. PICK H : HashesFrom(H)
    BY <2>1, HashesAre DEF PlaceInv, Given
  <2>6. k - 1 \in Nat /\ merkle_root(s) = Ok(root(Tree(Hashes)))
    BY <2>1, <2>2, <2>4 DEF Given, Verified
  <2>7. Leads(Hashes, k - 1, merkle_node(s), s.proof)
    BY <2>3, <2>4, <2>5, <2>6, VerifiedLeads
  <2>8. /\ set_merkle_proof(Proof(k), ProofSize) = Ok(path)
        /\ IsSeq(path) /\ Len(path) = d
        /\ \A i \in 1..d : path[i] = Entry(Beside(Hashes, (k - 1), i - 1))
    BY <2>1, <2>2, PathOf
  <2>9. k - 1 < Len(Hashes)
    BY <2>1, <2>2, <2>5 DEF HashesFrom, Given
  <2> HIDE DEF s, path, d
  <2>10. Len(s.proof) = d /\ \A i \in 1..d : Entry(s.proof[i]) = Entry(Beside(Hashes, (k - 1), i - 1))
    BY <2>7, <2>9 DEF Leads, d
  <2>11. IsSeq(s.proof) /\ \A e \in Range(s.proof) : Entry(e) = e
    BY <2>4 DEF Parsed, IsSeq
  <2>12. \A i \in 1..d : s.proof[i] = path[i]
    <3>1. \A i \in 1..d : s.proof[i] \in Range(s.proof)
      BY <2>10, <2>11 DEF IsSeq
    <3> QED
      BY <2>8, <2>10, <2>11, <3>1
  <2>13. s.proof = path
    <3>1. s.proof = [i \in 1..d |-> s.proof[i]] /\ path = [i \in 1..d |-> path[i]]
      <4>1. ASSUME NEW q, IsSeq(q), Len(q) = d PROVE q = [i \in 1..d |-> q[i]]
        <5>1. q \in Seq(Range(q))
          BY <4>1 DEF IsSeq
        <5> QED
          BY <4>1, <5>1
      <4> QED
        BY <2>8, <2>10, <2>11, <4>1
    <3> QED
      BY <2>12, <3>1
  <2> QED
    BY <2>8, <2>13 DEF s
<1>2. FullInv => CarriedProofsMatch
  BY <1>1 DEF CarriedProofsMatch
<1> QED
  BY <1>2, AlwaysGiven, PTL

-----------------------------------------------------------------------------
(* The service that recover gives. *)
LEMMA SameCardinality == \A S : Service!Cardinality(S) = Cardinality(S)
BY Zenon DEF Service!Cardinality, Cardinality

LEMMA SameRange == \A f : Service!Range(f) = Range(f)
BY DEF Service!Range, Range

LEMMA InitService == Init => Service!Init
BY DEF Init, Service!Init, Stage

(* The block that is given out, place by place. *)
LEMMA SettledIs ==
  ASSUME PlaceInv, Given
  PROVE  /\ DOMAIN Settled = 1..NumShards
         /\ \A k \in 1..NumShards :
              /\ Settled[k] = IF mask[k] THEN batch[k] ELSE Yielded(k)
              /\ erasure_shard_index(Settled[k]) = k - 1
              /\ Settled[k].signature = header.signature
              /\ ~mask[k] => merkle_root(Settled[k]) = header.root
<1>1. DOMAIN batch = 1..NumShards
  BY DEF Given, PlaceInv, BatchOK, IsSeq
<1>2. DOMAIN Settled = 1..NumShards
  BY <1>1 DEF Settled
<1>3. ASSUME NEW k \in 1..NumShards
      PROVE  Settled[k] = IF mask[k] THEN batch[k] ELSE Yielded(k)
  <2>1. set_merkle_proof(Proof(k), ProofSize) = Ok(Path(Hashes, k - 1))
    BY PathOf
  <2>2. set_merkle_proof(Proof(k), ProofSize).value = Path(Hashes, k - 1)
    BY <2>1 DEF Ok
  <2>3. Settled[k] = IF mask[k] THEN batch[k]
                     ELSE [batch[k] EXCEPT !.proof = set_merkle_proof(Proof(k), ProofSize).value]
    BY <1>1 DEF Settled
  <2> QED
    BY <2>2, <2>3 DEF Yielded
<1>4. ASSUME NEW k \in 1..NumShards
      PROVE  /\ erasure_shard_index(Settled[k]) = k - 1
             /\ Settled[k].signature = header.signature
             /\ ~mask[k] => merkle_root(Settled[k]) = header.root
  <2>1. erasure_shard_index(batch[k]) = k - 1 /\ batch[k].signature = header.signature
    BY <1>1 DEF Given, Bears, PlaceInv, BatchOK
  <2>2. /\ erasure_shard_index(Yielded(k)) = k - 1
        /\ Yielded(k).signature = batch[k].signature
        /\ merkle_root(Yielded(k)) = header.root
    BY YieldedIs, YieldedLeads
  <2> QED
    BY <1>3, <2>1, <2>2
<1> QED
  BY <1>2, <1>3, <1>4

(* It completes the caller's shreds, and what is missing of them is what   *)
(* the iterator goes through.                                              *)
Completed ==
    pc = "iterate" =>
      /\ Service!Completes(Settled, input)
      /\ \A k \in 1..NumShards : ~mask[k] <=> Settled[k] \notin Range(input)

LEMMA CompletedIs == FullInv => Completed
<1> SUFFICES ASSUME FullInv, pc = "iterate"
             PROVE  /\ Service!Completes(Settled, input)
                    /\ \A k \in 1..NumShards : ~mask[k] <=> Settled[k] \notin Range(input)
  BY DEF Completed
<1>1. PlaceInv /\ Given
  BY DEF FullInv, GivenInv
<1>2. DOMAIN batch = 1..NumShards /\ DOMAIN mask = 1..NumShards /\ NumShards \in Nat
  BY <1>1 DEF Given, PlaceInv, BatchOK, IsSeq
<1>3. /\ DOMAIN Settled = 1..NumShards
      /\ \A k \in 1..NumShards :
           /\ Settled[k] = IF mask[k] THEN batch[k] ELSE Yielded(k)
           /\ erasure_shard_index(Settled[k]) = k - 1
           /\ Settled[k].signature = header.signature
           /\ ~mask[k] => merkle_root(Settled[k]) = header.root
  BY <1>1, SettledIs
<1>4. \A k \in 1..NumShards : mask[k] => Settled[k] \in Range(input)
  BY <1>1, <1>2, <1>3 DEF PlaceInv, BatchOK
<1>5. ASSUME NEW s \in Range(input) PROVE \E k \in 1..NumShards : mask[k] /\ Settled[k] = s
  <2>1. PICK n \in DOMAIN input : s = input[n]
    BY DEF Range
  <2>2. PICK k \in Chosen(mask) : batch[k] = s
    BY <1>1, <2>1, AllPlaced
  <2>3. k \in 1..NumShards /\ mask[k]
    BY <1>2 DEF Chosen
  <2> QED
    BY <1>3, <2>2, <2>3
<1>6. ASSUME NEW k \in 1..NumShards, ~mask[k], Settled[k] \in Range(input) PROVE FALSE
  <2>1. PICK j \in 1..NumShards : mask[j] /\ Settled[j] = Settled[k]
    BY <1>5, <1>6
  <2>2. j - 1 = k - 1
    BY <1>3, <2>1
  <2>3. j = k
    BY <1>2, <2>2
  <2> QED
    BY <1>6, <2>1, <2>3
<1>7. PICK c \in Range(input) : HeadedBy(c)
  BY <1>1 DEF Given
<1>8. /\ header.num_data = c.num_data /\ header.num_coding = c.num_coding
      /\ header.signature = c.signature /\ header.root = merkle_root(c) /\ c.type = "code"
  BY <1>1, <1>7, Heads DEF HeadedBy
<1>9. DOMAIN Settled = 1..c.num_data + c.num_coding
  BY <1>3, <1>8 DEF NumShards
<1>10. \A k \in DOMAIN Settled :
         /\ Settled[k].signature = c.signature
         /\ Settled[k] \in Range(input) \/ merkle_root(Settled[k]) = merkle_root(c)
  BY <1>3, <1>4, <1>8
<1>11. Range(input) \subseteq Range(Settled)
  BY <1>3, <1>5 DEF Range
<1>12. Cardinality(Range(input)) = Len(input)
  BY <1>1, AllPlaced
<1>13. \A k \in DOMAIN Settled : erasure_shard_index(Settled[k]) = k - 1
  BY <1>3
<1>14. Service!Completes(Settled, input)
  <2>1. Range(input) = Service!Range(input) /\ Range(Settled) = Service!Range(Settled)
    BY SameRange
  <2>2. Service!Cardinality(Range(input)) = Len(input)
    BY <1>12, SameCardinality
  <2>3. \E s \in Range(input) :
          /\ s.type = "code"
          /\ DOMAIN Settled = 1..s.num_data + s.num_coding
          /\ \A k \in DOMAIN Settled :
               /\ Settled[k].signature = s.signature
               /\ Settled[k] \in Range(input) \/ merkle_root(Settled[k]) = merkle_root(s)
    BY <1>7, <1>8, <1>9, <1>10
  <2> QED
    BY ONLY <1>11, <1>13, <2>1, <2>2, <2>3 DEF Service!Completes
<1> QED
  BY <1>4, <1>6, <1>14

(* The caller passed one of the inputs. *)
Passed == pc # "idle" => input \in Inputs

LEMMA NextPassed == ASSUME Passed, [Next]_vars PROVE Passed'
BY NextSteps DEF Passed, Steps, vars, CallFast, CallFull, FillStep, DecodeStep, Extract, Verify, Iterate, Drop, Forget, Return

(* What the service shows at each stage. *)
LEMMA IdleService ==
  ASSUME Stage = "idle", Stage' = "idle"
  PROVE  UNCHANGED Service!vars
BY DEF Service!vars

LEMMA AskedService ==
  ASSUME Stage = "asked", Stage' = "asked", input' = input
  PROVE  UNCHANGED Service!vars
BY DEF Service!vars

LEMMA LeftService ==
  ASSUME Stage # "idle", Stage' = "idle"
  PROVE  Service!Leave
BY DEF Service!Leave

LEMMA SettledStays ==
  ASSUME UNCHANGED <<batch, mask, nodes, header>>
  PROVE  Settled' = Settled /\ NumShards' = NumShards
BY DEF Settled, Proof, NumShards, ProofIndex

LEMMA VerifyService ==
  ASSUME FullInv, FullInv', Completed', Verify, pc' = "iterate"
  PROVE  Service!Accept
<1>1. mode = "full" /\ pc = "decoded" /\ input' = input /\ mode' = "full" /\ items' = items
  BY DEF Verify
<1>2. Stage = "asked" /\ Stage' = "giving"
  BY <1>1 DEF Stage
<1>3. items = <<>>
  BY <1>1 DEF FullInv, GivenInv, HeadOK, Iterating, Pending, Err
<1>4. Service!Completes(Settled', input)
  BY <1>1 DEF Completed
<1> QED
  BY <1>1, <1>2, <1>3, <1>4 DEF Service!Accept

LEMMA IterateService ==
  ASSUME FullInv, Completed, Iterate
  PROVE  Service!Give \/ UNCHANGED Service!vars
<1> DEFINE k == cursor + 1
<1>1. /\ pc = "iterate" /\ cursor < NumShards
      /\ UNCHANGED <<input, mode, pc, header, batch, mask, nodes>>
      /\ items' = IF mask[k] THEN items
                  ELSE Append(items, IF set_merkle_proof(Proof(k), ProofSize).ok
                                     THEN Ok([batch[k] EXCEPT !.proof = set_merkle_proof(Proof(k), ProofSize).value])
                                     ELSE set_merkle_proof(Proof(k), ProofSize))
  BY DEF Iterate
<1>2. Given /\ ItemsOK /\ PlaceInv
  BY <1>1 DEF FullInv, GivenInv
<1>3. cursor \in Nat /\ NumShards \in Nat /\ k \in 1..NumShards
  BY <1>1, <1>2 DEF Given, ItemsOK
<1>4. Stage = "giving" /\ Stage' = "giving"
  BY <1>1 DEF Stage
<1>5. Settled' = Settled
  BY <1>1, SettledStays
<1>6. CASE mask[k]
  BY <1>1, <1>4, <1>5, <1>6 DEF Service!vars
<1>7. CASE ~mask[k]
  <2>1. set_merkle_proof(Proof(k), ProofSize) = Ok(Path(Hashes, k - 1))
    BY <1>2, <1>3, PathOf
  <2>2. /\ set_merkle_proof(Proof(k), ProofSize).ok
        /\ set_merkle_proof(Proof(k), ProofSize).value = Path(Hashes, k - 1)
    BY <2>1 DEF Ok
  <2>3. DOMAIN Settled = 1..NumShards /\ Settled[k] = Yielded(k)
    BY <1>2, <1>3, <1>7, SettledIs
  <2>4. items' = Append(items, [ok |-> TRUE, value |-> Settled[k]])
    <3>1. items' = Append(items, Ok(Yielded(k)))
      BY <1>1, <1>7, <2>2 DEF Yielded
    <3> QED
      BY <2>3, <3>1 DEF Ok
  <2>5. Settled[k] \notin Range(input) /\ \A j \in 1..NumShards : ~mask[j] <=> Settled[j] \notin Range(input)
    BY <1>1, <1>3, <1>7 DEF Completed
  <2>6. Service!Missing = {j \in DOMAIN Settled : Settled[j] \notin Range(input)}
    <3>1. Service!Range(input) = Range(input)
      BY SameRange
    <3> QED
      BY <1>4, <3>1 DEF Service!Missing
  <2>7. {j \in Service!Missing : j < k} = Wanting(cursor)
    BY <1>3, <2>3, <2>5, <2>6 DEF Wanting
  <2>8. Service!Cardinality({j \in Service!Missing : j < k}) = Len(items)
    BY <1>2, <2>7, SameCardinality DEF ItemsOK
  <2>9. k \in Service!Missing
    BY <1>3, <2>3, <2>5, <2>6
  <2> HIDE DEF k
  <2> QED
    BY <1>1, <1>4, <1>5, <2>4, <2>8, <2>9 DEF Service!Give
<1> QED
  BY <1>6, <1>7

LEMMA StepService ==
  ASSUME FullInv, FullInv', Completed, Completed', Passed, Passed', [Next]_vars
  PROVE  [Service!Next]_(Service!vars)
<1>1. CASE \E shreds \in Inputs : CallFast(shreds)
  <2>1. pc = "idle" /\ mode' = "fast" /\ pc' \in {"done", "fill"}
    BY <1>1 DEF CallFast, Start, Return
  <2>2. Stage = "idle" /\ Stage' = "idle"
    BY <2>1 DEF Stage
  <2> QED
    BY <2>2, IdleService
<1>2. CASE CallFull
  <2>1. /\ pc = "done" /\ mode = "fast" /\ mode' = "full" /\ pc' \in {"done", "fill"}
        /\ input' = input
    BY <1>2 DEF CallFull, Start, Return
  <2>2. Stage = "idle" /\ (pc' = "done" => Stage' = "idle") /\ (pc' = "fill" => Stage' = "asked")
    BY <2>1 DEF Stage
  <2>3. CASE pc' = "done"
    BY <2>2, <2>3, IdleService
  <2>4. CASE pc' = "fill"
    <3>1. input' \in Inputs
      BY <2>1 DEF Passed
    <3>2. Service!Ask
      BY <2>2, <2>4, <3>1 DEF Service!Ask
    <3> QED
      BY <3>2 DEF Service!Next
  <2> QED
    BY <2>1, <2>3, <2>4
<1>3. ASSUME FillStep \/ DecodeStep \/ Extract \/ (Verify /\ pc' # "iterate")
      PROVE  [Service!Next]_(Service!vars)
  <2>1. /\ pc \in {"fill", "decoded"} /\ pc' \in {"fill", "decoded", "done"}
        /\ mode' = mode /\ mode \in {"fast", "full"} /\ input' = input
    BY <1>3 DEF FillStep, DecodeStep, Extract, Verify, Return, FullInv, GivenInv
  <2>2. CASE mode = "fast"
    <3>1. Stage = "idle" /\ Stage' = "idle"
      BY <2>1, <2>2 DEF Stage
    <3> QED
      BY <3>1, IdleService
  <2>3. CASE mode = "full" /\ pc' # "done"
    <3>1. Stage = "asked" /\ Stage' = "asked"
      BY <2>1, <2>3 DEF Stage
    <3> QED
      BY <2>1, <3>1, AskedService
  <2>4. CASE mode = "full" /\ pc' = "done"
    <3>1. Stage = "asked" /\ Stage' = "idle"
      BY <2>1, <2>4 DEF Stage
    <3> QED
      BY <3>1, LeftService DEF Service!Next
  <2> QED
    BY <2>1, <2>2, <2>3, <2>4
<1>4. CASE Verify /\ pc' = "iterate"
  BY <1>4, VerifyService DEF Service!Next
<1>5. CASE Iterate
  BY <1>5, IterateService DEF Service!Next
<1>6. CASE Drop
  <2>1. Stage = "giving" /\ Stage' = "idle"
    BY <1>6 DEF Drop, Stage
  <2> QED
    BY <2>1, LeftService DEF Service!Next
<1>7. CASE Forget
  <2>1. Stage = "idle" /\ Stage' = "idle"
    BY <1>7 DEF Forget, Stage
  <2> QED
    BY <2>1, IdleService
<1>8. CASE UNCHANGED vars
  <2>1. UNCHANGED <<input, mode, pc, header, batch, mask, nodes, items>>
    BY <1>8 DEF vars
  <2>2. Settled' = Settled /\ Stage' = Stage
    BY <2>1, SettledStays DEF Stage
  <2> QED
    BY <2>1, <2>2 DEF Service!vars
<1> QED
  BY <1>1, <1>2, <1>3, <1>4, <1>5, <1>6, <1>7, <1>8, NextSteps DEF Steps

(* The lazy iterator hands out a block that is settled when recover        *)
(* returns (merkle.rs 736-778): complete, signed like the caller's coding  *)
(* shred and with them in it, each missing shred once, in order and with   *)
(* a proof of its place, however the caller drains it.                     *)
THEOREM BlockIsSettled == Spec => ImplementsService
<1>1. Init => FullInv /\ Passed
  BY InitFull DEF Init, Passed
<1>2. FullInv /\ Passed /\ [Next]_vars => (FullInv /\ Passed)'
  BY NextFull, NextPassed
<1>3. FullInv /\ Passed /\ (FullInv /\ Passed)' /\ [Next]_vars => [Service!Next]_(Service!vars)
  <2> SUFFICES ASSUME FullInv, Passed, FullInv', Passed', [Next]_vars
               PROVE  [Service!Next]_(Service!vars)
    OBVIOUS
  <2>1. Completed
    BY CompletedIs
  <2>2. FullInv => Completed
    BY CompletedIs
  <2>3. (FullInv => Completed)'
    BY CompletedIs, PTL
  <2> QED
    BY <2>1, <2>3, StepService
<1> QED
  BY <1>1, <1>2, <1>3, InitService, PTL DEF Spec, ImplementsService, Service!Spec

-----------------------------------------------------------------------------
(* The fast path.  Both calls fill and decode the batch as the order of    *)
(* the caller's shreds and the headers of the last of them have it.        *)
At(i) == erasure_shard_index(sorted[i])
Found(k) == \E i \in 1..Len(sorted) : At(i) = k - 1

Whole ==
    [k \in 1..NumShards |->
       IF Found(k) THEN sorted[CHOOSE i \in 1..Len(sorted) : At(i) = k - 1] ELSE make_stub_shred(k - 1)]
Present == [k \in 1..NumShards |-> Found(k)]
Restored ==
    LET shards == Rebuilt(header.num_data,
                          [k \in 1..NumShards |-> [shard |-> Whole[k].shard, present |-> Present[k]]])
    IN  [k \in 1..NumShards |->
           IF Present[k] THEN Whole[k] ELSE [Whole[k] EXCEPT !.shard = shards[k]]]

(* The shreds with which a call comes to a decoded batch. *)
Led == sorted # <<>> /\ Last(sorted).type = "code" /\ header = HeaderOf(Last(sorted))

Acceptable ==
    LET c == Last(sorted)
        all == c.num_data + c.num_coding
    IN  /\ sorted # <<>> /\ c.type = "code"
        /\ \A i \in 1..Len(sorted) : sorted[i].signature = c.signature /\ At(i) < all
        /\ \A i, j \in 1..Len(sorted) : i < j => At(i) < At(j)
        /\ CodecOk(c.num_data, c.num_coding)
        /\ Enough(c.num_data, {k \in 1..all : Found(k)})

(* The batch b with mask m holds the first n shreds and stubs between them. *)
Filled(b, m, n) ==
    /\ \A i \in 1..n : /\ sorted[i].signature = header.signature
                       /\ At(i) < NumShards /\ At(i) + 1 \in 1..Len(b)
                       /\ m[At(i) + 1] /\ b[At(i) + 1] = sorted[i]
    /\ \A i, j \in 1..n : i < j => At(i) < At(j)
    /\ Len(b) = IF n = 0 THEN 0 ELSE At(n) + 1
    /\ \A k \in 1..Len(b) : IF m[k] THEN \E i \in 1..n : At(i) = k - 1
                                    ELSE b[k] = make_stub_shred(k - 1)

Taken == Len(sorted) - Len(todo)

(* What the fast call answers from the decoded batch. *)
Extracted(k) == ~Found(k) /\ k <= header.num_data /\ Restored[k].type = "data" /\ HeaderMatches(Restored[k])
Answer(r) ==
    \E wanted \in InOrder({k \in 1..NumShards : Extracted(k)}) :
      r = Ok([i \in DOMAIN wanted |-> Restored[wanted[i]]])

FastInv ==
    /\ pc \in {"fill", "decoded"} \/ Iterating => Led
    /\ pc = "fill" =>
         /\ Taken \in 0..Len(sorted)
         /\ \A i \in 1..Len(todo) : todo[i] = sorted[Taken + i]
         /\ Filled(batch, mask, Taken)
    /\ pc = "decoded" \/ Iterating => Acceptable /\ batch = Restored /\ mask = Present
    /\ mode = "fast" /\ pc = "done" /\ Acceptable => Led /\ Answer(outcome)
    /\ mode = "full" /\ (pc \in {"fill", "decoded"} \/ Iterating) /\ Acceptable => Answer(fast)

LEMMA LedStays ==
  ASSUME UNCHANGED <<sorted, header>>
  PROVE  /\ Led' <=> Led
         /\ Acceptable' <=> Acceptable
         /\ Restored' = Restored /\ Present' = Present /\ NumShards' = NumShards
         /\ \A r : Answer(r)' <=> Answer(r)
<1>1. NumShards' = NumShards /\ (Led' <=> Led)
  BY DEF NumShards, Led, HeaderOf
<1>2. \A k : (Found(k))' <=> Found(k)
  BY DEF Found, At
<1>3. Acceptable' <=> Acceptable
  BY DEF Acceptable, Found, At
<1>4. \A i : (make_stub_shred(i))' = make_stub_shred(i)
  BY DEF make_stub_shred, StubPosition
<1>5. Whole' = Whole
  BY <1>1, <1>4 DEF Whole, Found, At
<1>6. Present' = Present
  BY <1>1 DEF Present, Found, At
<1>7. Restored' = Restored
  BY <1>1, <1>5, <1>6 DEF Restored
<1>8. \A k : (Extracted(k))' <=> Extracted(k)
  BY <1>2, <1>7 DEF Extracted, HeaderMatches
<1>9. {k \in 1..NumShards : Extracted(k)}' = {k \in 1..NumShards : Extracted(k)}
  BY <1>1, <1>8
<1>10. \A r : Answer(r)' <=> Answer(r)
  BY <1>7, <1>9 DEF Answer
<1> QED
  BY <1>1, <1>3, <1>6, <1>7, <1>10

LEMMA FilledStays ==
  ASSUME UNCHANGED <<sorted, header>>, NEW b, NEW m, NEW n, Filled(b, m, n)
  PROVE  Filled(b, m, n)'
<1>1. NumShards' = NumShards /\ \A i : (At(i))' = At(i) /\ (make_stub_shred(i))' = make_stub_shred(i)
  BY DEF NumShards, At, make_stub_shred, StubPosition
<1> QED
  BY <1>1 DEF Filled

(* A padded batch, place by place. *)
LEMMA PaddedIs ==
  ASSUME BatchOK, NEW to \in Nat, Len(batch) <= to,
         {header.num_data, header.num_coding, header.first, header.fec_set_index} \subseteq Nat,
         NEW k \in 1..to
  PROVE  /\ PaddedBatch(to)[k] = IF k <= Len(batch) THEN batch[k] ELSE make_stub_shred(k - 1)
         /\ PaddedMask(to)[k] = IF k <= Len(batch) THEN mask[k] ELSE FALSE
<1> DEFINE n == Len(batch)
           st == Stubs(n, to)
           ab == Absent(n, to)
<1>1. IsSeq(batch) /\ IsSeq(mask) /\ Len(mask) = n /\ n \in Nat
  BY DEF BatchOK, IsSeq
<1>2. IsSeq(st) /\ Len(st) = to - n /\ IsSeq(ab) /\ Len(ab) = to - n
  BY <1>1, StubsFacts
<1>3. \A i \in 1..to - n : st[i] = make_stub_shred(n + i - 1) /\ ab[i] = FALSE
  BY DEF Stubs, Absent
<1>4. PaddedBatch(to) = batch \o st /\ PaddedMask(to) = mask \o ab
  BY <1>1 DEF PaddedBatch, PaddedMask
<1> HIDE DEF st, ab
<1>5. /\ \A i \in 1..n : (batch \o st)[i] = batch[i]
      /\ \A i \in n + 1..n + (to - n) : (batch \o st)[i] = st[i - n]
  BY <1>1, <1>2, Joined
<1>6. /\ \A i \in 1..n : (mask \o ab)[i] = mask[i]
      /\ \A i \in n + 1..n + (to - n) : (mask \o ab)[i] = ab[i - n]
  BY <1>1, <1>2, Joined
<1>7. CASE k <= n
  <2>1. k \in 1..n
    BY <1>1, <1>7
  <2> QED
    BY <1>4, <1>5, <1>6, <1>7, <2>1
<1>8. CASE ~(k <= n)
  <2>1. k - n \in 1..to - n /\ k \in n + 1..n + (to - n) /\ n + (k - n) - 1 = k - 1
    BY <1>1, <1>8
  <2>2. st[k - n] = make_stub_shred(k - 1) /\ ab[k - n] = FALSE
    BY <1>3, <2>1
  <2>3. (batch \o st)[k] = st[k - n] /\ (mask \o ab)[k] = ab[k - n]
    BY <1>5, <1>6, <2>1
  <2> QED
    BY <1>4, <1>8, <2>2, <2>3
<1> QED
  BY <1>7, <1>8

(* One more shred after the gap before it. *)
LEMMA FilledOneMore ==
  ASSUME BatchOK, NEW n \in Nat, Filled(batch, mask, n),
         \A i \in 1..n : At(i) \in Nat,
         NumShards \in Nat, At(n + 1) \in Len(batch)..NumShards - 1,
         sorted[n + 1].signature = header.signature,
         NEW b, NEW m, Len(b) = At(n + 1) + 1,
         b[At(n + 1) + 1] = sorted[n + 1], m[At(n + 1) + 1] = TRUE,
         \A k \in 1..At(n + 1) :
           /\ b[k] = IF k <= Len(batch) THEN batch[k] ELSE make_stub_shred(k - 1)
           /\ m[k] = IF k <= Len(batch) THEN mask[k] ELSE FALSE
  PROVE  Filled(b, m, n + 1)
<1> DEFINE a == At(n + 1)
<1>1. Len(batch) \in Nat /\ a \in Nat /\ Len(batch) <= a /\ a < NumShards
  BY DEF BatchOK, IsSeq
<1>2. \A i \in 1..n + 1 : i \in 1..n \/ i = n + 1
  OBVIOUS
<1>3. ASSUME NEW i \in 1..n
      PROVE  /\ sorted[i].signature = header.signature
             /\ At(i) < NumShards /\ At(i) + 1 \in 1..Len(b) /\ At(i) < a
             /\ m[At(i) + 1] /\ b[At(i) + 1] = sorted[i]
  <2>1. /\ sorted[i].signature = header.signature
        /\ At(i) < NumShards /\ At(i) + 1 \in 1..Len(batch)
        /\ mask[At(i) + 1] /\ batch[At(i) + 1] = sorted[i]
    BY DEF Filled
  <2>2. At(i) + 1 \in 1..a /\ At(i) + 1 <= Len(batch) /\ At(i) + 1 \in 1..a + 1 /\ At(i) < a
    BY <1>1, <2>1
  <2>3. b[At(i) + 1] = batch[At(i) + 1] /\ m[At(i) + 1] = mask[At(i) + 1]
    BY <2>2
  <2> QED
    BY <2>1, <2>2, <2>3
<1>4. /\ sorted[n + 1].signature = header.signature
      /\ a < NumShards /\ a + 1 \in 1..Len(b) /\ m[a + 1] /\ b[a + 1] = sorted[n + 1]
  BY <1>1
<1>5. \A i \in 1..n + 1 : /\ sorted[i].signature = header.signature
                          /\ At(i) < NumShards /\ At(i) + 1 \in 1..Len(b)
                          /\ m[At(i) + 1] /\ b[At(i) + 1] = sorted[i]
  BY <1>2, <1>3, <1>4
<1>6. ASSUME NEW i \in 1..n + 1, NEW j \in 1..n + 1, i < j PROVE At(i) < At(j)
  <2>1. i \in 1..n /\ (j \in 1..n \/ j = n + 1)
    BY <1>6
  <2>2. CASE j \in 1..n
    BY <1>6, <2>1, <2>2 DEF Filled
  <2>3. CASE j = n + 1
    BY <1>3, <2>1, <2>3
  <2> QED
    BY <2>1, <2>2, <2>3
<1>7. Len(b) = IF n + 1 = 0 THEN 0 ELSE At(n + 1) + 1
  OBVIOUS
<1>8. ASSUME NEW k \in 1..Len(b)
      PROVE  IF m[k] THEN \E i \in 1..n + 1 : At(i) = k - 1 ELSE b[k] = make_stub_shred(k - 1)
  <2>1. k \in 1..a + 1
    OBVIOUS
  <2>2. CASE k = a + 1
    <3>1. m[k] /\ n + 1 \in 1..n + 1 /\ At(n + 1) = k - 1
      BY <1>1, <2>2
    <3> QED
      BY <3>1
  <2>3. CASE k \in 1..Len(batch)
    <3>1. k \in 1..a /\ k <= Len(batch)
      BY <1>1, <2>3
    <3>2. b[k] = batch[k] /\ m[k] = mask[k]
      BY <3>1
    <3>3. IF mask[k] THEN \E i \in 1..n : At(i) = k - 1 ELSE batch[k] = make_stub_shred(k - 1)
      BY <2>3 DEF Filled
    <3>4. \A i \in 1..n : i \in 1..n + 1
      OBVIOUS
    <3> QED
      BY <3>2, <3>3, <3>4
  <2>4. CASE k \in 1..a /\ ~(k <= Len(batch))
    <3>1. b[k] = make_stub_shred(k - 1) /\ m[k] = FALSE
      BY <2>4
    <3> QED
      BY <3>1
  <2>5. k = a + 1 \/ k \in 1..Len(batch) \/ (k \in 1..a /\ ~(k <= Len(batch)))
    BY <1>1, <2>1
  <2> QED
    BY <2>2, <2>3, <2>4, <2>5
<1> QED
  BY <1>5, <1>6, <1>7, <1>8 DEF Filled

(* All shreds placed and stubs up to the end: the batch that is decoded.   *)
LEMMA FilledIsWhole ==
  ASSUME BatchOK, IsSeq(sorted), Filled(batch, mask, Len(sorted)),
         \A i \in 1..Len(sorted) : At(i) \in Nat,
         {header.num_data, header.num_coding, header.first, header.fec_set_index} \subseteq Nat,
         Len(batch) <= NumShards
  PROVE  PaddedBatch(NumShards) = Whole /\ PaddedMask(NumShards) = Present
<1> DEFINE n == Len(sorted)
<1>1. NumShards \in Nat /\ n \in Nat /\ Len(batch) \in Nat
  BY DEF NumShards, BatchOK, IsSeq
<1>10. \A k \in 1..Len(batch) : mask[k] \in BOOLEAN
  <2>1. DOMAIN batch = 1..Len(batch)
    BY DEF BatchOK, IsSeq
  <2> QED
    BY <2>1, Zenon DEF BatchOK
<1>2. ASSUME NEW i \in 1..n, NEW j \in 1..n, At(i) = At(j) PROVE i = j
  <2>1. (i < j => At(i) < At(j)) /\ (j < i => At(j) < At(i))
    BY DEF Filled
  <2>2. At(i) \in Nat /\ At(j) \in Nat /\ i \in Nat /\ j \in Nat
    BY <1>1
  <2> QED
    BY <1>2, <2>1, <2>2
<1>3. ASSUME NEW i \in 1..n PROVE At(i) + 1 \in 1..Len(batch) /\ mask[At(i) + 1] /\ batch[At(i) + 1] = sorted[i]
  BY DEF Filled
<1>4. ASSUME NEW k \in 1..NumShards, NEW i \in 1..n, At(i) = k - 1
      PROVE  Whole[k] = sorted[i]
  <2>1. Found(k)
    BY <1>4 DEF Found
  <2> DEFINE c == CHOOSE j \in 1..n : At(j) = k - 1
  <2>2. c \in 1..n /\ At(c) = k - 1
    BY <1>4
  <2>3. Whole[k] = sorted[c]
    BY <2>1 DEF Whole
  <2> HIDE DEF c
  <2>4. c = i
    BY <1>2, <1>4, <2>2
  <2> QED
    BY <2>3, <2>4
<1>5. ASSUME NEW k \in 1..NumShards
      PROVE  PaddedBatch(NumShards)[k] = Whole[k] /\ PaddedMask(NumShards)[k] = Present[k]
  <2>1. /\ PaddedBatch(NumShards)[k] = IF k <= Len(batch) THEN batch[k] ELSE make_stub_shred(k - 1)
        /\ PaddedMask(NumShards)[k] = IF k <= Len(batch) THEN mask[k] ELSE FALSE
    BY <1>1, PaddedIs
  <2>2. CASE Found(k)
    <3>1. PICK i \in 1..n : At(i) = k - 1
      BY <2>2 DEF Found
    <3>2. k = At(i) + 1 /\ k <= Len(batch) /\ k \in 1..Len(batch)
      BY <1>1, <1>3, <3>1
    <3>3. Whole[k] = sorted[i] /\ batch[k] = sorted[i] /\ mask[k]
      BY <1>3, <1>4, <3>1, <3>2
    <3>4. mask[k] \in BOOLEAN
      BY <1>10, <3>2, Zenon
    <3>5. mask[k] = TRUE
      BY <3>3, <3>4, Zenon
    <3>6. Found(k) = TRUE
      <4>1. Found(k) \in BOOLEAN
        BY DEF Found
      <4> QED
        BY <2>2, <4>1, Zenon
    <3>7. Present[k] = TRUE
      BY <3>6, Zenon DEF Present
    <3> QED
      BY <2>1, <3>2, <3>3, <3>5, <3>7
  <2>3. CASE ~Found(k)
    <3>1. Whole[k] = make_stub_shred(k - 1)
      BY <2>3 DEF Whole
    <3>2. Present[k] = FALSE
      <4>1. Found(k) \in BOOLEAN
        BY DEF Found
      <4>2. Found(k) = FALSE
        BY <2>3, <4>1, Zenon
      <4> QED
        BY <4>2, Zenon DEF Present
    <3>3. CASE k <= Len(batch)
      <4>1. k \in 1..Len(batch)
        BY <1>1, <3>3
      <4>2. mask[k] \in BOOLEAN
        BY <1>10, <4>1, Zenon
      <4>3. ~mask[k] /\ batch[k] = make_stub_shred(k - 1)
        <5>1. IF mask[k] THEN \E i \in 1..n : At(i) = k - 1 ELSE batch[k] = make_stub_shred(k - 1)
          BY <4>1 DEF Filled
        <5> QED
          BY <2>3, <5>1 DEF Found
      <4>4. mask[k] = FALSE
        BY <4>2, <4>3, Zenon
      <4> QED
        BY <2>1, <3>1, <3>2, <3>3, <4>3, <4>4
    <3>4. CASE ~(k <= Len(batch))
      BY <2>1, <3>1, <3>2, <3>4
    <3> QED
      BY <3>3, <3>4
  <2> QED
    BY <2>2, <2>3
<1>6. /\ IsSeq(PaddedBatch(NumShards)) /\ Len(PaddedBatch(NumShards)) = NumShards
      /\ IsSeq(PaddedMask(NumShards)) /\ Len(PaddedMask(NumShards)) = NumShards
  BY <1>1, Padded
<1>7. ASSUME NEW q, IsSeq(q), Len(q) = NumShards PROVE q = [k \in 1..NumShards |-> q[k]]
  <2>1. q \in Seq(Range(q))
    BY <1>7 DEF IsSeq
  <2> QED
    BY <1>7, <2>1
<1>8. /\ PaddedBatch(NumShards) = [k \in 1..NumShards |-> PaddedBatch(NumShards)[k]]
      /\ PaddedMask(NumShards) = [k \in 1..NumShards |-> PaddedMask(NumShards)[k]]
  BY <1>6, <1>7
<1>9. Whole = [k \in 1..NumShards |-> Whole[k]] /\ Present = [k \in 1..NumShards |-> Present[k]]
  BY DEF Whole, Present
<1> QED
  BY ONLY <1>5, <1>8, <1>9

(* The caller's shreds tell their places. *)
LEMMA PlacesKnown ==
  ASSUME PlaceInv
  PROVE  IsSeq(sorted) /\ Len(sorted) \in Nat /\ \A i \in 1..Len(sorted) : Parsed(sorted[i]) /\ At(i) \in Nat
<1>1. IsSeq(sorted) /\ Len(sorted) \in Nat /\ DOMAIN sorted = 1..Len(sorted)
  BY DEF PlaceInv, OrderOK, IsSeq
<1>2. ASSUME NEW i \in 1..Len(sorted) PROVE Parsed(sorted[i]) /\ At(i) \in Nat
  <2>1. sorted[i] \in Range(input)
    BY <1>1 DEF PlaceInv, OrderOK
  <2>2. Parsed(sorted[i])
    BY <2>1 DEF PlaceInv, OrderOK, Range
  <2>3. Placeable(sorted[i])
    BY <2>2, ParsedPlaceable
  <2> QED
    BY <2>2, <2>3 DEF Placeable, At
<1> QED
  BY <1>1, <1>2

(* What the headers say of a call that has come past its start. *)
LEMMA LedBy ==
  ASSUME PlaceInv, Led
  PROVE  /\ header.num_data = Last(sorted).num_data /\ header.num_coding = Last(sorted).num_coding
         /\ header.signature = Last(sorted).signature
         /\ NumShards = Last(sorted).num_data + Last(sorted).num_coding
         /\ header.num_data \in Nat /\ header.num_coding \in Nat /\ NumShards \in Nat
<1>1. /\ header.num_data = Last(sorted).num_data /\ header.num_coding = Last(sorted).num_coding
      /\ header.signature = Last(sorted).signature
  BY DEF Led, HeaderOf
<1>2. Len(sorted) \in 1..Len(sorted) /\ Last(sorted) = sorted[Len(sorted)]
  BY PlacesKnown DEF Led, Last, IsSeq
<1>3. Parsed(Last(sorted)) /\ Last(sorted).type = "code"
  BY <1>2, PlacesKnown DEF Led
<1>4. header.num_data \in Nat /\ header.num_coding \in Nat
  BY <1>1, <1>3 DEF Parsed
<1> QED
  BY <1>1, <1>4 DEF NumShards

LEMMA StartFast ==
  ASSUME PlaceInv', NEW m \in {"fast", "full"}, Start(m),
         m = "full" => sorted' = sorted /\ fast' = outcome /\ mode = "fast" /\ pc = "done" /\ FastInv
  PROVE  FastInv'
<1>1. mode' = m
  BY DEF Start
<1>2. CASE StartError(m) # Pending
  <2>1. outcome' = StartError(m) /\ pc' = "done"
    BY <1>2 DEF Start, Return
  <2>2. ~StartError(m).ok
    BY <1>2 DEF StartError, Err
  <2>3. m = "fast" => ~Acceptable'
    BY <1>2 DEF StartError, Acceptable
  <2> QED
    BY <1>1, <2>1, <2>2, <2>3 DEF FastInv, Iterating
<1>3. CASE StartError(m) = Pending
  <2>1. /\ outcome' = Pending /\ pc' = "fill" /\ header' = HeaderOf(Last(sorted'))
        /\ todo' = sorted' /\ batch' = <<>> /\ mask' = <<>>
    BY <1>3 DEF Start
  <2>2. sorted' # <<>> /\ Last(sorted').type = "code"
    BY <1>3 DEF StartError, Pending, Err
  <2>3. Led'
    BY <2>1, <2>2 DEF Led, HeaderOf
  <2>4. ~Iterating'
    BY <2>1 DEF Iterating, Pending, Err
  <2>5. Len(sorted') \in Nat
    BY DEF PlaceInv, OrderOK, IsSeq
  <2>6. Taken' = 0
    BY <2>1, <2>5 DEF Taken
  <2>7. Filled(batch, mask, Taken)'
    BY <2>1, <2>6 DEF Filled
  <2>8. (\A i \in 1..Len(todo) : todo[i] = sorted[Taken + i])'
    BY <2>1, <2>5, <2>6
  <2>9. m = "full" /\ Acceptable' => Answer(fast)'
    <3> SUFFICES ASSUME m = "full", Acceptable' PROVE Answer(fast)'
      OBVIOUS
    <3>1. Acceptable
      BY DEF Acceptable, Found, At
    <3>2. Led /\ Answer(outcome)
      BY <3>1 DEF FastInv
    <3>3. header' = header
      BY <2>1, <3>2 DEF Led
    <3>4. \A r : Answer(r)' <=> Answer(r)
      BY <3>3, LedStays
    <3>5. PICK r : r = outcome
      OBVIOUS
    <3>6. Answer(r)'
      BY <3>2, <3>4, <3>5
    <3> QED
      BY <3>5, <3>6 DEF Answer
  <2>10. (Taken \in 0..Len(sorted))'
    BY <2>5, <2>6
  <2> QED
    BY <1>1, <2>1, <2>3, <2>4, <2>7, <2>8, <2>9, <2>10 DEF FastInv
<1> QED
  BY <1>2, <1>3

LEMMA FillFast == ASSUME PlaceInv, GivenInv, FastInv, FillStep PROVE FastInv'
<1> DEFINE s == Head(todo)
           at == erasure_shard_index(s)
           n == Taken
<1>1. pc = "fill" /\ todo # <<>> /\ UNCHANGED <<sorted, mode, header, fast>>
  BY DEF FillStep
<1>2. /\ Led /\ n \in 0..Len(sorted)
      /\ \A i \in 1..Len(todo) : todo[i] = sorted[n + i]
      /\ Filled(batch, mask, n)
  BY <1>1 DEF FastInv
<1>3. /\ IsSeq(sorted) /\ Len(sorted) \in Nat
      /\ \A i \in 1..Len(sorted) : Parsed(sorted[i]) /\ At(i) \in Nat
  BY PlacesKnown
<1>4. /\ Len(todo) \in Nat /\ Len(todo) > 0 /\ s = todo[1]
      /\ Len(Tail(todo)) = Len(todo) - 1 /\ \A i \in 1..Len(todo) - 1 : Tail(todo)[i] = todo[i + 1]
  <2>1. todo \in Seq(Range(todo))
    BY DEF PlaceInv, OrderOK, IsSeq
  <2> QED
    BY <1>1, <2>1
<1>5. n \in Nat /\ n + 1 \in 1..Len(sorted) /\ s = sorted[n + 1] /\ at = At(n + 1)
  BY <1>2, <1>3, <1>4 DEF Taken, At
<1>6. ~Iterating
  BY <1>1 DEF GivenInv, HeadOK, Iterating, Pending, Err
<1>7. /\ header.num_data = Last(sorted).num_data /\ header.num_coding = Last(sorted).num_coding
      /\ header.signature = Last(sorted).signature
      /\ NumShards = Last(sorted).num_data + Last(sorted).num_coding
      /\ NumShards \in Nat
  BY <1>2, LedBy
<1>8. Len(batch) \in Nat
  BY DEF PlaceInv, BatchOK, IsSeq
<1> HIDE DEF s, at, n
<1>9. CASE FillError(s) # Pending
  <2>1. outcome' = FillError(s) /\ pc' = "done"
    BY <1>9 DEF FillStep, Return, s
  <2>2. ~outcome'.ok
    BY <1>9, <2>1 DEF FillError, Err
  <2>3. ~Acceptable
    <3>1. CASE s.signature # header.signature
      BY <1>5, <1>7, <3>1 DEF Acceptable
    <3>2. CASE at \notin Len(batch)..NumShards - 1
      <4>1. at >= NumShards \/ at < Len(batch)
        BY <1>3, <1>5, <1>7, <1>8, <3>2
      <4>2. CASE at >= NumShards
        BY <1>3, <1>5, <1>7, <4>2 DEF Acceptable
      <4>3. CASE at < Len(batch)
        <5>1. n # 0 /\ Len(batch) = At(n) + 1
          BY <1>2, <1>3, <1>5, <4>3 DEF Filled
        <5>2. n \in 1..Len(sorted) /\ n < n + 1
          BY <1>2, <1>5, <5>1
        <5>3. ~(At(n) < At(n + 1))
          BY <1>3, <1>5, <4>3, <5>1, <5>2
        <5> QED
          BY <1>5, <5>2, <5>3 DEF Acceptable
      <4> QED
        BY <4>1, <4>2, <4>3
    <3> QED
      BY <1>9, <3>1, <3>2 DEF FillError, at
  <2>4. ~Acceptable'
    BY <1>1, <2>3, LedStays
  <2> QED
    BY <1>1, <1>6, <2>1, <2>2, <2>4 DEF FastInv, Iterating
<1>10. CASE FillError(s) = Pending
  <2> DEFINE b == PaddedBatch(at)
             m == PaddedMask(at)
  <2>1. /\ batch' = b \o <<s>> /\ mask' = m \o <<TRUE>>
        /\ todo' = Tail(todo) /\ pc' = "fill" /\ outcome' = outcome
    BY <1>1, <1>10 DEF FillStep, PaddedBatch, PaddedMask, s, at
  <2>2. {header.num_data, header.num_coding, header.first, header.fec_set_index} \subseteq Nat
    BY <1>1 DEF PlaceInv, HeaderOK
  <2>3. at \in Len(batch)..NumShards - 1 /\ at \in Nat /\ s.signature = header.signature
    BY <1>7, <1>8, <1>10 DEF FillError, Pending, Err, at
  <2>4. IsSeq(b) /\ IsSeq(m) /\ Len(b) = at /\ Len(m) = at
    BY <2>2, <2>3, <1>8, Padded DEF PlaceInv
  <2>5. \A k \in 1..at : /\ b[k] = IF k <= Len(batch) THEN batch[k] ELSE make_stub_shred(k - 1)
                         /\ m[k] = IF k <= Len(batch) THEN mask[k] ELSE FALSE
    <3>1. BatchOK /\ Len(batch) <= at /\ at \in Nat
      BY <1>8, <2>3 DEF PlaceInv
    <3> QED
      BY <2>2, <3>1, PaddedIs, Zenon
  <2> HIDE DEF b, m
  <2>6. /\ Len(batch') = at + 1 /\ batch'[at + 1] = s
        /\ \A k \in 1..at : batch'[k] = b[k]
    BY <2>1, <2>4, Appended
  <2>7. /\ mask'[at + 1] = TRUE /\ \A k \in 1..at : mask'[k] = m[k]
    <3>1. /\ IsSeq(m \o <<TRUE>>) /\ Len(m \o <<TRUE>>) = Len(m) + 1
          /\ \A k \in 1..Len(m) : (m \o <<TRUE>>)[k] = m[k]
          /\ (m \o <<TRUE>>)[Len(m) + 1] = TRUE
      BY <2>4, Appended, Zenon
    <3> QED
      BY <2>1, <2>4, <3>1
  <2>8. \A i \in 1..n : At(i) \in Nat
    BY <1>2, <1>3
  <2>9. Filled(batch', mask', n + 1)
    <3>1. PICK bb : bb = batch'
      OBVIOUS
    <3>2. PICK mm : mm = mask'
      OBVIOUS
    <3>3. \A k \in 1..At(n + 1) : /\ bb[k] = IF k <= Len(batch) THEN batch[k] ELSE make_stub_shred(k - 1)
                                  /\ mm[k] = IF k <= Len(batch) THEN mask[k] ELSE FALSE
      BY <1>5, <2>5, <2>6, <2>7, <3>1, <3>2, Zenon
    <3>4. /\ Len(bb) = At(n + 1) + 1 /\ bb[At(n + 1) + 1] = sorted[n + 1]
      BY <1>5, <2>6, <3>1
    <3>5. mm[At(n + 1) + 1] = TRUE
      BY <1>5, <2>7, <3>2
    <3>6. At(n + 1) \in Len(batch)..NumShards - 1 /\ sorted[n + 1].signature = header.signature
      BY <1>5, <2>3
    <3>7. Filled(bb, mm, n + 1)
      BY <1>2, <1>5, <1>7, <2>8, <3>3, <3>4, <3>5, <3>6, FilledOneMore DEF PlaceInv
    <3> QED
      BY <3>1, <3>2, <3>7
  <2>10. Taken' = n + 1
    BY <1>1, <1>3, <1>4, <2>1 DEF Taken, n
  <2>11. Filled(batch, mask, Taken)'
    <3>1. PICK bb : bb = batch'
      OBVIOUS
    <3>2. PICK mm : mm = mask'
      OBVIOUS
    <3>3. PICK nn : nn = n + 1
      OBVIOUS
    <3>4. Filled(bb, mm, nn)'
      BY <1>1, <2>9, <3>1, <3>2, <3>3, FilledStays
    <3> QED
      BY <2>10, <3>1, <3>2, <3>3, <3>4 DEF Filled
  <2>12. (\A i \in 1..Len(todo) : todo[i] = sorted[Taken + i])'
    <3>1. ASSUME NEW i \in 1..Len(todo) - 1 PROVE Tail(todo)[i] = sorted[n + 1 + i]
      <4>1. i + 1 \in 1..Len(todo) /\ n + (i + 1) = n + 1 + i
        BY <1>4, <1>5
      <4> QED
        BY <1>2, <1>4, <4>1
    <3> QED
      BY <1>1, <1>4, <2>1, <2>10, <3>1
  <2>13. Led' /\ (Acceptable' => Acceptable) /\ \A r : Answer(r)' <=> Answer(r)
    BY <1>1, <1>2, LedStays
  <2>14. mode' = "full" /\ Acceptable' => Answer(fast)'
    <3> SUFFICES ASSUME mode' = "full", Acceptable' PROVE Answer(fast)'
      OBVIOUS
    <3>1. Answer(fast)
      BY <1>1, <2>13 DEF FastInv
    <3>2. PICK r : r = fast
      OBVIOUS
    <3>3. Answer(r)'
      BY <2>13, <3>1, <3>2
    <3> QED
      BY <1>1, <3>2, <3>3 DEF Answer
  <2>15. ~Iterating'
    BY <1>1, <1>6, <2>1 DEF Iterating
  <2>16. (Taken \in 0..Len(sorted))'
    BY <1>1, <1>3, <1>5, <2>10
  <2> QED
    BY <2>1, <2>11, <2>12, <2>13, <2>14, <2>15, <2>16 DEF FastInv
<1> QED
  BY <1>9, <1>10

LEMMA DecodeFast == ASSUME PlaceInv, GivenInv, FastInv, DecodeStep PROVE FastInv'
<1> DEFINE present == PaddedMask(NumShards)
<1>1. pc = "fill" /\ todo = <<>> /\ UNCHANGED <<sorted, mode, header, fast>>
  BY DEF DecodeStep
<1>2. Led /\ Filled(batch, mask, Taken)
  BY <1>1 DEF FastInv
<1>3. Len(sorted) \in Nat /\ IsSeq(sorted) /\ \A i \in 1..Len(sorted) : At(i) \in Nat
  BY PlacesKnown
<1>4. Taken = Len(sorted)
  <2>1. Len(todo) = 0
    BY <1>1
  <2> QED
    BY <1>3, <2>1 DEF Taken
<1>5. /\ {header.num_data, header.num_coding, header.first, header.fec_set_index} \subseteq Nat
      /\ Len(batch) <= NumShards /\ BatchOK
  BY <1>1 DEF PlaceInv, HeaderOK
<1>6. PaddedBatch(NumShards) = Whole /\ PaddedMask(NumShards) = Present
  BY <1>2, <1>3, <1>4, <1>5, FilledIsWhole
<1>7. /\ header.num_data = Last(sorted).num_data /\ header.num_coding = Last(sorted).num_coding
      /\ header.signature = Last(sorted).signature
      /\ NumShards = Last(sorted).num_data + Last(sorted).num_coding
      /\ NumShards \in Nat
  BY <1>2, LedBy
<1>8. {k \in DOMAIN present : present[k]} = {k \in 1..NumShards : Found(k)}
  BY <1>6 DEF Present
<1>9. ~Iterating
  BY <1>1 DEF GivenInv, HeadOK, Iterating, Pending, Err
<1>10. mode \in {"fast", "full"}
  BY DEF GivenInv
<1>11. CASE DecodeError(present) # Pending
  <2>1. outcome' = DecodeError(present) /\ pc' = "done"
    BY <1>11 DEF DecodeStep, Return, PaddedMask
  <2>2. ~outcome'.ok
    BY <1>11, <2>1 DEF DecodeError, Err
  <2>3. ~Acceptable
    BY <1>7, <1>8, <1>11 DEF DecodeError, Acceptable
  <2>4. ~Acceptable'
    BY <1>1, <2>3, LedStays
  <2> QED
    BY <1>1, <2>1, <2>2, <2>4 DEF FastInv, Iterating
<1>12. CASE DecodeError(present) = Pending
  <2>1. pc' = "decoded" /\ mask' = Present /\ outcome' = outcome
    BY <1>6, <1>12 DEF DecodeStep, PaddedMask
  <2>2. batch' = Restored
    <3> DEFINE all == PaddedBatch(NumShards)
               shards == Rebuilt(header.num_data, [k \in DOMAIN all |-> [shard |-> all[k].shard, present |-> present[k]]])
    <3>1. batch' = [k \in DOMAIN all |->
                     IF present[k] THEN all[k] ELSE [all[k] EXCEPT !.shard = shards[k]]]
      BY <1>12 DEF DecodeStep, PaddedMask, PaddedBatch
    <3>2. all = Whole /\ present = Present /\ DOMAIN Whole = 1..NumShards
      BY <1>6 DEF Whole
    <3> QED
      BY <3>1, <3>2 DEF Restored
  <2>3. Acceptable
    <3>1. Enough(header.num_data, {k \in 1..NumShards : Found(k)})
      BY <1>8, <1>12 DEF DecodeError, Pending, Err
    <3>2. CodecOk(header.num_data, header.num_coding)
      BY <1>12 DEF DecodeError, Pending, Err
    <3>3. /\ \A i \in 1..Len(sorted) : sorted[i].signature = header.signature /\ At(i) < NumShards
          /\ \A i, j \in 1..Len(sorted) : i < j => At(i) < At(j)
      BY <1>2, <1>4 DEF Filled
    <3> QED
      BY <1>2, <1>7, <3>1, <3>2, <3>3 DEF Acceptable, Led
  <2>4. /\ Led' /\ Acceptable' /\ Restored' = Restored /\ Present' = Present
        /\ \A r : Answer(r)' <=> Answer(r)
    BY <1>1, <1>2, <2>3, LedStays
  <2>5. mode' = "full" => Answer(fast)'
    <3> SUFFICES ASSUME mode' = "full" PROVE Answer(fast)'
      OBVIOUS
    <3>1. Answer(fast)
      BY <1>1, <2>3 DEF FastInv
    <3>2. PICK r : r = fast
      OBVIOUS
    <3>3. Answer(r)'
      BY <2>4, <3>1, <3>2
    <3> QED
      BY <1>1, <3>2, <3>3 DEF Answer
  <2>6. ~Iterating'
    BY <1>1, <1>9, <2>1 DEF Iterating
  <2> QED
    BY <2>1, <2>2, <2>4, <2>5, <2>6 DEF FastInv
<1> QED
  BY <1>11, <1>12

LEMMA ExtractFast == ASSUME PlaceInv, GivenInv, FastInv, Extract PROVE FastInv'
<1>1. /\ pc = "decoded" /\ mode = "fast" /\ mode' = "fast" /\ pc' = "done"
      /\ UNCHANGED <<sorted, header>>
  BY DEF Extract, Return
<1>2. Led /\ batch = Restored /\ mask = Present
  BY <1>1 DEF FastInv
<1>3. DOMAIN batch = 1..NumShards
  BY <1>2 DEF Restored
<1>4. \A k \in 1..NumShards : mask[k] <=> Found(k)
  BY <1>2 DEF Present
<1>5. {k \in DOMAIN batch : Wanted(k)} = {k \in 1..NumShards : Extracted(k)}
  BY <1>2, <1>3, <1>4 DEF Wanted, Extracted
<1>6. \E wanted \in InOrder({k \in DOMAIN batch : Wanted(k)}) :
        outcome' = Ok([i \in DOMAIN wanted |-> batch[wanted[i]]])
  BY DEF Extract, Return
<1>7. PICK r : r = outcome'
  OBVIOUS
<1>8. Answer(r)
  BY <1>2, <1>5, <1>6, <1>7 DEF Answer
<1>9. Led' /\ Answer(r)'
  BY <1>1, <1>2, <1>8, LedStays
<1>10. Answer(outcome)'
  BY <1>7, <1>9 DEF Answer
<1> QED
  BY <1>1, <1>9, <1>10 DEF FastInv, Iterating

(* Steps after the decoding: the batch is as it was. *)
LEMMA LaterFast ==
  ASSUME FastInv, UNCHANGED <<sorted, mode, header, batch, mask, fast>>,
         mode = "full", pc # "fill", pc' # "fill",
         pc' = "decoded" \/ Iterating' => pc = "decoded" \/ Iterating
  PROVE  FastInv'
<1>1. /\ Led' <=> Led
      /\ Acceptable' <=> Acceptable
      /\ Restored' = Restored /\ Present' = Present
      /\ \A r : Answer(r)' <=> Answer(r)
  BY LedStays
<1>2. (pc \in {"fill", "decoded"} \/ Iterating)' /\ Acceptable => Answer(fast)'
  <2> SUFFICES ASSUME (pc \in {"fill", "decoded"} \/ Iterating)', Acceptable PROVE Answer(fast)'
    OBVIOUS
  <2>1. Answer(fast)
    BY DEF FastInv
  <2>2. PICK r : r = fast
    OBVIOUS
  <2>3. Answer(r)'
    BY <1>1, <2>1, <2>2
  <2> QED
    BY <2>2, <2>3 DEF Answer
<1> QED
  BY <1>1, <1>2 DEF FastInv

LEMMA NextFast == ASSUME FullInv, FullInv', FastInv, [Next]_vars PROVE FastInv'
<1>1. CASE \E shreds \in Inputs : CallFast(shreds)
  BY <1>1, StartFast DEF CallFast, FullInv
<1>2. CASE CallFull
  BY <1>2, StartFast DEF CallFull, FullInv
<1>3. CASE FillStep
  BY <1>3, FillFast DEF FullInv
<1>4. CASE DecodeStep
  BY <1>4, DecodeFast DEF FullInv
<1>5. CASE Extract
  BY <1>5, ExtractFast DEF FullInv
<1>6. CASE Verify
  <2>1. /\ mode = "full" /\ pc = "decoded" /\ pc' \in {"done", "iterate"}
        /\ UNCHANGED <<sorted, mode, header, batch, mask, fast>>
    BY <1>6 DEF Verify, Return
  <2> QED
    BY <2>1, LaterFast
<1>7. CASE Iterate \/ Drop
  <2>1. /\ mode = "full" /\ pc = "iterate" /\ pc' \in {"done", "iterate"} /\ Iterating
        /\ UNCHANGED <<sorted, mode, header, batch, mask, fast>>
    BY <1>7 DEF Iterate, Drop, FullInv, GivenInv, Iterating
  <2> QED
    BY <2>1, LaterFast
<1>8. CASE Forget
  BY <1>8 DEF Forget, FastInv, Iterating
<1>9. CASE UNCHANGED vars
  <2>1. UNCHANGED <<sorted, mode, pc, todo, header, batch, mask, outcome, fast>>
    BY <1>9 DEF vars
  <2>2. /\ Led' <=> Led
        /\ Acceptable' <=> Acceptable
        /\ Restored' = Restored /\ Present' = Present
        /\ \A r : Answer(r)' <=> Answer(r)
    BY <2>1, LedStays
  <2>3. Filled(batch, mask, Taken) => Filled(batch, mask, Taken)'
    BY <2>1 DEF Filled, Taken, At, NumShards, make_stub_shred, StubPosition
  <2>4. (Iterating' <=> Iterating) /\ Taken' = Taken
    BY <2>1 DEF Iterating, Taken
  <2>5. (Answer(outcome) => Answer(outcome)') /\ (Answer(fast) => Answer(fast)')
    <3>1. PICK r : r = outcome
      OBVIOUS
    <3>2. PICK f : f = fast
      OBVIOUS
    <3>3. (Answer(r) => Answer(r)') /\ (Answer(f) => Answer(f)')
      BY <2>2
    <3> QED
      BY <2>1, <3>1, <3>2, <3>3 DEF Answer
  <2> QED
    BY <2>1, <2>2, <2>3, <2>4, <2>5 DEF FastInv
<1> QED
  BY <1>1, <1>2, <1>3, <1>4, <1>5, <1>6, <1>7, <1>8, <1>9, NextSteps DEF Steps

(* What the fast path, which makes no Merkle check, recovers is what the   *)
(* full one does from the same shreds, whenever that one succeeds (merkle. *)
(* rs 781-950).                                                            *)
THEOREM FastAgrees == Spec => []FastPathAgrees
<1>1. Init => FullInv /\ FastInv
  <2> SUFFICES ASSUME Init PROVE FullInv /\ FastInv
    OBVIOUS
  <2>1. FastInv
    BY DEF Init, FastInv, Iterating
  <2> QED
    BY <2>1, InitFull
<1>2. FullInv /\ FastInv /\ [Next]_vars => (FullInv /\ FastInv)'
  BY NextFull, NextFast
<1>3. FullInv /\ FastInv => FastPathAgrees
  <2> SUFFICES ASSUME FullInv, FastInv, Iterating
               PROVE  \E missing \in InOrder({k \in 1..header.num_data : ~mask[k]}) :
                        fast = Ok([i \in DOMAIN missing |-> batch[missing[i]]])
    BY DEF FastPathAgrees
  <2>1. Led /\ Acceptable /\ batch = Restored /\ mask = Present /\ Answer(fast)
    BY DEF FastInv, Iterating
  <2>2. Given /\ PlaceInv
    BY DEF FullInv, GivenInv
  <2>3. header.num_data \in Nat /\ header.num_data <= NumShards /\ NumShards \in Nat
    BY <2>1, <2>2, LedBy DEF NumShards
  <2>4. \A k \in 1..NumShards : mask[k] <=> Found(k)
    BY <2>1 DEF Present
  <2>5. \A k \in 1..header.num_data : k \in 1..NumShards /\ k <= header.num_data
    BY <2>3
  <2>6. ASSUME NEW k \in 1..header.num_data, ~mask[k] PROVE Extracted(k)
    <3>1. Sound(k) /\ ~Found(k) /\ k <= header.num_data
      BY <2>2, <2>4, <2>5, <2>6 DEF Given
    <3> QED
      BY <2>1, <3>1 DEF Sound, Extracted
  <2>7. ASSUME NEW k \in 1..NumShards, Extracted(k) PROVE k \in 1..header.num_data /\ ~mask[k]
    <3>1. ~Found(k) /\ k <= header.num_data
      BY <2>7 DEF Extracted
    <3> QED
      BY <2>3, <2>4, <3>1
  <2>8. {k \in 1..header.num_data : ~mask[k]} = {k \in 1..NumShards : Extracted(k)}
    BY <2>5, <2>6, <2>7
  <2> QED
    BY <2>1, <2>8 DEF Answer
<1> QED
  BY <1>1, <1>2, <1>3, PTL DEF Spec

-----------------------------------------------------------------------------
(* What sound blocks give back.  The shreds are taken in order, and all of *)
(* them are.                                                               *)
SortInv ==
    pc # "idle" =>
      /\ IsSortedInput(sorted)
      /\ \A i \in DOMAIN input : \E j \in DOMAIN sorted : sorted[j] = input[i]

LEMMA SortKeeps ==
  ASSUME NEW s, IsSeq(s), NEW t \in SortedOrders(s)
  PROVE  IsSortedInput(t) /\ \A i \in DOMAIN s : \E j \in DOMAIN t : t[j] = s[i]
<1>1. CASE IsSortedInput(s)
  BY <1>1 DEF SortedOrders
<1>2. CASE ~IsSortedInput(s)
  <2>1. IsSortedInput(t)
    BY <1>2 DEF SortedOrders
  <2>2. PICK p \in Bijection(DOMAIN s, DOMAIN s) : t = [i \in DOMAIN s |-> s[p[i]]]
    BY <1>2 DEF SortedOrders
  <2>3. ASSUME NEW i \in DOMAIN s PROVE \E j \in DOMAIN t : t[j] = s[i]
    <3>1. PICK j \in DOMAIN s : p[j] = i
      BY <2>2 DEF Bijection, Surjection
    <3> QED
      BY <2>2, <3>1
  <2> QED
    BY <2>1, <2>3
<1> QED
  BY <1>1, <1>2

LEMMA NextSorted == ASSUME PlaceInv, SortInv, [Next]_vars PROVE SortInv'
<1>1. CASE \E shreds \in Inputs : CallFast(shreds)
  <2>1. PICK shreds \in Inputs : CallFast(shreds)
    BY <1>1
  <2>2. input' = shreds /\ sorted' \in SortedOrders(shreds) /\ IsSeq(shreds)
    BY <2>1, RecoveryAssumption DEF CallFast, IsSeq
  <2>3. PICK t : t = sorted'
    OBVIOUS
  <2>4. IsSortedInput(t) /\ \A i \in DOMAIN shreds : \E j \in DOMAIN t : t[j] = shreds[i]
    BY <2>2, <2>3, SortKeeps
  <2> QED
    BY <2>2, <2>3, <2>4 DEF SortInv, IsSortedInput
<1>2. CASE Forget
  BY <1>2 DEF Forget, SortInv
<1>3. CASE CallFull \/ FillStep \/ DecodeStep \/ Extract \/ Verify \/ Iterate \/ Drop \/ UNCHANGED vars
  <2>1. UNCHANGED <<input, sorted>> /\ (pc' # "idle" => pc # "idle")
    BY <1>3 DEF CallFull, FillStep, DecodeStep, Extract, Verify, Iterate, Drop, vars
  <2> QED
    BY <2>1 DEF SortInv, IsSortedInput
<1> QED
  BY <1>1, <1>2, <1>3, NextSteps DEF Steps

(* What is said of a well-made block, place by place. *)
Element(block, k) ==
    LET s == block[k]
        last == Last(block)
    IN  /\ Parsed(s) /\ erasure_shard_index(s) = k - 1
        /\ s = [f \in DOMAIN s |-> s[f]]
        /\ s.type = "data" <=> k <= last.num_data
        /\ s.signature = last.signature /\ s.chained = last.chained
        /\ s.fec_set_index = last.fec_set_index
        /\ s.type = "code" => /\ s.num_data = last.num_data /\ s.num_coding = last.num_coding
                              /\ s.index - s.position = last.index - last.position
        /\ s.type = "data" => HeaderMatches(s) /\ SaneShard(s.shard)

LEMMA BlockIs ==
  ASSUME NEW block, WellMade(block)
  PROVE  /\ IsSeq(block) /\ Len(block) \in Nat /\ Len(block) # 0 /\ DOMAIN block = 1..Len(block)
         /\ Last(block) = block[Len(block)] /\ Last(block).type = "code"
         /\ Last(block).num_data \in Nat /\ Last(block).num_data > 0 /\ Last(block).num_coding \in Nat
         /\ Len(block) = Last(block).num_data + Last(block).num_coding
         /\ CodecOk(Last(block).num_data, Last(block).num_coding)
         /\ \A k \in 1..Len(block) : Element(block, k)
<1>1. block \in Seq(Range(block)) /\ block # <<>>
  BY DEF WellMade
<1>2. /\ IsSeq(block) /\ Len(block) \in Nat /\ Len(block) # 0 /\ DOMAIN block = 1..Len(block)
      /\ Last(block) = block[Len(block)]
  BY <1>1 DEF IsSeq, Last
<1>3. /\ Last(block).type = "code" /\ Len(block) = Last(block).num_data + Last(block).num_coding
      /\ CodecOk(Last(block).num_data, Last(block).num_coding)
  BY DEF WellMade
<1>4. \A k \in 1..Len(block) : Element(block, k)
  BY DEF WellMade, Element
<1>5. Parsed(Last(block))
  BY <1>2, <1>4 DEF Element
<1>6. Last(block).num_data \in Nat /\ Last(block).num_data > 0 /\ Last(block).num_coding \in Nat
  BY <1>3, <1>5 DEF Parsed
<1> QED
  BY <1>2, <1>3, <1>4, <1>6

(* The sort order is the order of places. *)
LEMMA LeTellsPlace ==
  ASSUME NEW block, WellMade(block), NEW j \in 1..Len(block), NEW k \in 1..Len(block),
         is_le(block[j], block[k])
  PROVE  j <= k
<1>1. Element(block, j) /\ Element(block, k) /\ Last(block).num_data \in Nat /\ Len(block) \in Nat
  BY BlockIs
<1> DEFINE a == block[j]
           b == block[k]
           d == Last(block).num_data
<1>2. /\ Parsed(a) /\ Parsed(b)
      /\ erasure_shard_index(a) = j - 1 /\ erasure_shard_index(b) = k - 1
      /\ a.type = "data" <=> j <= d
      /\ b.type = "data" <=> k <= d
      /\ a.fec_set_index = b.fec_set_index
      /\ a.type = "code" /\ b.type = "code" => /\ a.num_data = d /\ b.num_data = d
                                               /\ a.index - a.position = b.index - b.position
  BY <1>1 DEF Element
<1> HIDE DEF a, b, d
<1>3. d \in Nat /\ j \in Nat /\ k \in Nat /\ is_le(a, b)
  BY <1>1 DEF a, b, d
<1>4. CASE a.type = "data" /\ b.type = "data"
  <2>1. a.index <= b.index
    BY <1>3, <1>4 DEF is_le
  <2>2. /\ a.index - a.fec_set_index = j - 1 /\ b.index - b.fec_set_index = k - 1
        /\ a.index \in Nat /\ b.index \in Nat /\ a.fec_set_index \in Nat
    BY <1>2, <1>4 DEF erasure_shard_index, Parsed
  <2> QED
    BY <1>2, <1>3, <2>1, <2>2
<1>5. CASE a.type = "code" /\ b.type = "code"
  <2>1. a.index <= b.index
    BY <1>3, <1>5 DEF is_le
  <2>2. /\ d + a.position = j - 1 /\ d + b.position = k - 1
        /\ a.index \in Nat /\ b.index \in Nat /\ a.position \in Nat /\ b.position \in Nat
    BY <1>2, <1>5 DEF erasure_shard_index, Parsed
  <2>3. a.index - a.position = b.index - b.position
    BY <1>2, <1>5
  <2> QED
    BY <1>3, <2>1, <2>2, <2>3
<1>6. CASE a.type = "data" /\ b.type = "code"
  BY <1>2, <1>3, <1>6
<1>7. CASE a.type = "code" /\ b.type = "data"
  BY <1>3, <1>7 DEF is_le
<1>8. a.type \in {"data", "code"} /\ b.type \in {"data", "code"}
  BY <1>2 DEF Parsed
<1> QED
  BY <1>4, <1>5, <1>6, <1>7, <1>8

(* The caller's shreds of one block, in the order they are taken in: each  *)
(* is the one of its place, the places grow, and the last one is coding.   *)
InBlock(block) ==
    /\ sorted # <<>> /\ Last(sorted).type = "code"
    /\ \E k \in 1..Len(block) : Last(sorted) = block[k]
    /\ \A i \in 1..Len(sorted) : At(i) + 1 \in 1..Len(block) /\ sorted[i] = block[At(i) + 1]
    /\ \A i, j \in 1..Len(sorted) : i < j => At(i) < At(j)
    /\ \A k \in 1..Len(block) : Found(k) <=> k \in Held(block)

LEMMA GrowingPlaces ==
  ASSUME NEW n \in Nat, NEW f, \A i \in 1..n : f[i] \in Nat,
         \A i \in 1..n - 1 : f[i] < f[i + 1]
  PROVE  \A i, j \in 1..n : i < j => f[i] < f[j]
<1> DEFINE S == {d \in Nat : \A i \in 1..n : i + d + 1 \in 1..n => f[i] < f[i + d + 1]}
<1>1. 0 \in S
  <2>1. ASSUME NEW i \in 1..n, i + 0 + 1 \in 1..n PROVE f[i] < f[i + 0 + 1]
    <3>1. i \in 1..n - 1 /\ i + 0 + 1 = i + 1
      BY <2>1
    <3> QED
      BY <3>1
  <2> QED
    BY <2>1
<1>2. ASSUME NEW d \in Nat, d \in S PROVE d + 1 \in S
  <2>1. ASSUME NEW i \in 1..n, i + (d + 1) + 1 \in 1..n PROVE f[i] < f[i + (d + 1) + 1]
    <3>1. i + d + 1 \in 1..n /\ i + d + 1 \in 1..n - 1 /\ (i + d + 1) + 1 = i + (d + 1) + 1
      BY <2>1
    <3>2. f[i] < f[i + d + 1] /\ f[i + d + 1] < f[(i + d + 1) + 1]
      BY <1>2, <3>1
    <3>3. f[i] \in Nat /\ f[i + d + 1] \in Nat /\ f[(i + d + 1) + 1] \in Nat
      BY <2>1, <3>1
    <3>4. f[i] < f[(i + d + 1) + 1]
      BY <3>2, <3>3
    <3> QED
      BY <3>1, <3>4
  <2> QED
    BY <2>1
<1>3. Nat \subseteq S
  <2> HIDE DEF S
  <2> QED
    BY <1>1, <1>2, SetInduction
<1> QED
  <2>1. ASSUME NEW i \in 1..n, NEW j \in 1..n, i < j PROVE f[i] < f[j]
    <3>1. j - i - 1 \in Nat /\ i + (j - i - 1) + 1 = j
      BY <2>1
    <3>2. j - i - 1 \in S
      BY <1>3, <3>1
    <3> QED
      BY <3>1, <3>2
  <2> QED
    BY <2>1

LEMMA GenuineInBlock ==
  ASSUME PlaceInv, SortInv, pc # "idle", NEW block, WellMade(block), Genuine(block)
  PROVE  InBlock(block)
<1> DEFINE n == Len(block)
           m == Len(sorted)
           f == [i \in 1..m |-> At(i) + 1]
<1>1. /\ IsSeq(block) /\ n \in Nat /\ n # 0 /\ DOMAIN block = 1..n
      /\ \A k \in 1..n : Element(block, k)
  BY BlockIs
<1>2. /\ IsSeq(sorted) /\ m \in Nat /\ DOMAIN sorted = 1..m
      /\ m = Len(input) /\ DOMAIN input = 1..m
      /\ \A i \in 1..m : At(i) \in Nat /\ sorted[i] \in Range(input)
  BY PlacesKnown DEF PlaceInv, OrderOK, IsSeq
<1>3. /\ \A i \in 1..m - 1 : is_le(sorted[i], sorted[i + 1])
      /\ \A i \in 1..m : \E j \in 1..m : sorted[j] = input[i]
  BY <1>2 DEF SortInv, IsSortedInput
<1>4. \A k \in 1..n : erasure_shard_index(block[k]) = k - 1
  BY <1>1 DEF Element
<1>5. ASSUME NEW i \in 1..m PROVE At(i) + 1 \in 1..n /\ sorted[i] = block[At(i) + 1]
  <2>1. PICK j \in 1..m : sorted[i] = input[j]
    BY <1>2 DEF Range
  <2>2. PICK k \in 1..n : block[k] = sorted[i]
    BY <1>1, <1>2, <2>1 DEF Genuine
  <2>3. At(i) = k - 1
    BY <1>4, <2>2 DEF At
  <2>4. At(i) + 1 = k
    BY <1>1, <2>3
  <2> QED
    BY <2>2, <2>4
<1>6. ASSUME NEW k PROVE k \in Held(block) <=> k \in 1..n /\ \E i \in 1..m : At(i) + 1 = k
  <2>1. ASSUME k \in Held(block) PROVE k \in 1..n /\ \E i \in 1..m : At(i) + 1 = k
    <3>1. k \in 1..n /\ \E i \in 1..m : block[k] = input[i]
      BY <1>1, <1>2, <2>1 DEF Held
    <3>2. PICK i \in 1..m : block[k] = input[i]
      BY <3>1
    <3>3. PICK j \in 1..m : sorted[j] = input[i]
      BY <1>3
    <3>4. At(j) = k - 1
      BY <1>4, <3>1, <3>2, <3>3 DEF At
    <3>5. At(j) + 1 = k
      BY <1>1, <3>1, <3>4
    <3> QED
      BY <3>1, <3>5
  <2>2. ASSUME k \in 1..n, NEW i \in 1..m, At(i) + 1 = k PROVE k \in Held(block)
    <3>1. sorted[i] = block[k] /\ sorted[i] \in Range(input)
      BY <1>2, <1>5, <2>2
    <3>2. PICK j \in DOMAIN input : sorted[i] = input[j]
      BY <3>1 DEF Range
    <3> QED
      BY <1>1, <2>2, <3>1, <3>2 DEF Held
  <2> QED
    BY <2>1, <2>2
<1>7. f \in Surjection(1..m, Held(block))
  <2>1. \A i \in 1..m : f[i] \in Held(block)
    BY <1>5, <1>6
  <2>2. \A k \in Held(block) : \E i \in 1..m : f[i] = k
    BY <1>6
  <2>3. f \in [1..m -> Held(block)]
    BY <2>1
  <2> QED
    BY <2>2, <2>3 DEF Surjection
<1>8. IsFiniteSet(1..m) /\ Cardinality(1..m) = m
  <2>1. 1 \in Int /\ m \in Int
    BY <1>2
  <2>2. /\ IsFiniteSet(1..m)
        /\ Cardinality(1..m) = IF 1 > m THEN 0 ELSE m - 1 + 1
    BY <2>1, FS_Interval, Zenon
  <2> QED
    BY <1>2, <2>2
<1>9. Cardinality(Held(block)) = m
  BY <1>2 DEF Genuine
<1>10. f \in Injection(1..m, Held(block))
  <2>1. Cardinality(Held(block)) = Cardinality(1..m) <=> f \in Injection(1..m, Held(block))
    <3> HIDE DEF f
    <3> QED
      BY <1>7, <1>8, FS_Surjection
  <2> QED
    BY <1>8, <1>9, <2>1
<1>11. ASSUME NEW i \in 1..m, NEW j \in 1..m, At(i) = At(j) PROVE i = j
  <2>1. f[i] = f[j]
    BY <1>11
  <2>2. \A x, y \in 1..m : f[x] = f[y] => x = y
    <3> HIDE DEF f
    <3> QED
      BY <1>10 DEF Injection, IsInjective
  <2> HIDE DEF f
  <2> QED
    BY <2>1, <2>2
<1>12. ASSUME NEW i \in 1..m - 1 PROVE At(i) < At(i + 1)
  <2>1. i \in 1..m /\ i + 1 \in 1..m /\ i # i + 1
    BY <1>2
  <2>2. is_le(block[At(i) + 1], block[At(i + 1) + 1])
    BY <1>3, <1>5, <2>1
  <2>3. At(i) + 1 \in 1..n /\ At(i + 1) + 1 \in 1..n
    BY <1>5, <2>1
  <2>4. \A a, b \in 1..n : is_le(block[a], block[b]) => a <= b
    BY LeTellsPlace
  <2>5. At(i) + 1 <= At(i + 1) + 1
    <3>1. PICK a \in 1..n : a = At(i) + 1
      BY <2>3
    <3>2. PICK b \in 1..n : b = At(i + 1) + 1
      BY <2>3
    <3>3. is_le(block[a], block[b])
      BY <2>2, <3>1, <3>2
    <3>4. a <= b
      BY <2>4, <3>3
    <3> QED
      BY <3>1, <3>2, <3>4
  <2>6. At(i) # At(i + 1) /\ At(i) \in Nat /\ At(i + 1) \in Nat
    BY <1>2, <1>11, <2>1
  <2> QED
    BY <2>5, <2>6
<1>13. \A i, j \in 1..m : i < j => At(i) < At(j)
  <2> DEFINE g == [i \in 1..m |-> At(i)]
  <2>1. \A i \in 1..m : g[i] = At(i) /\ g[i] \in Nat
    BY <1>2
  <2>2. \A i \in 1..m - 1 : g[i] < g[i + 1]
    <3>1. \A i \in 1..m - 1 : i \in 1..m /\ i + 1 \in 1..m
      BY <1>2
    <3> QED
      BY <1>12, <2>1, <3>1
  <2> HIDE DEF g
  <2>3. \A i, j \in 1..m : i < j => g[i] < g[j]
    BY <1>2, <2>1, <2>2, GrowingPlaces
  <2> QED
    BY <2>1, <2>3
<1>14. \A k \in 1..n : Found(k) <=> k \in Held(block)
  <2>1. ASSUME NEW k \in 1..n PROVE (\E i \in 1..m : At(i) = k - 1) <=> (\E i \in 1..m : At(i) + 1 = k)
    <3>1. k \in Int /\ \A i \in 1..m : At(i) \in Nat
      BY <1>2
    <3>2. \A a \in Nat : a = k - 1 <=> a + 1 = k
      BY <3>1
    <3>3. \A i \in 1..m : At(i) = k - 1 <=> At(i) + 1 = k
      BY <3>1, <3>2
    <3> QED
      BY <3>3
  <2> QED
    BY <1>6, <2>1 DEF Found
<1>15. sorted # <<>> /\ Last(sorted).type = "code" /\ \E k \in 1..n : Last(sorted) = block[k]
  <2>1. PICK k \in Held(block) : block[k].type = "code"
    BY DEF Genuine
  <2>2. PICK i \in 1..m : At(i) + 1 = k /\ k \in 1..n
    BY <1>6
  <2>3. m # 0 /\ m \in 1..m /\ sorted # <<>> /\ Last(sorted) = sorted[m]
    BY <1>2, <2>2 DEF Last
  <2>4. At(i) <= At(m)
    <3>0. i \in 1..m /\ m \in Nat
      BY <1>2, <2>2
    <3> HIDE DEF m
    <3>1. i = m \/ i < m
      BY <3>0
    <3>2. At(i) \in Nat /\ At(m) \in Nat
      BY <1>2, <2>2, <2>3
    <3>3. i < m => At(i) < At(m)
      BY <1>13, <2>2, <2>3
    <3> QED
      BY <3>1, <3>2, <3>3
  <2> DEFINE l == At(m) + 1
  <2>5. l \in 1..n /\ sorted[m] = block[l] /\ k <= l
    BY <1>2, <1>5, <2>2, <2>3, <2>4
  <2> HIDE DEF l
  <2>6. Element(block, k) /\ Element(block, l) /\ Last(block).num_data \in Nat
    BY <1>1, <2>2, <2>5, BlockIs
  <2>7. ~(k <= Last(block).num_data)
    BY <2>1, <2>6 DEF Element
  <2>8. ~(l <= Last(block).num_data)
    BY <2>2, <2>5, <2>6, <2>7
  <2>9. block[l].type = "code"
    BY <2>6, <2>8 DEF Element, Parsed
  <2> QED
    BY <2>3, <2>5, <2>9
<1> QED
  BY <1>5, <1>13, <1>14, <1>15 DEF InBlock

(* The headers are those of the block, whichever coding shred is the last. *)
TreeOf(block) == try_new([k \in 1..Len(block) |-> Ok(merkle_node(block[k]))]).value

HeadOf(block) ==
    LET last == Last(block)
    IN  /\ header.num_data = last.num_data /\ header.num_coding = last.num_coding
        /\ header.signature = last.signature /\ header.chained = last.chained
        /\ header.fec_set_index = last.fec_set_index
        /\ header.first = last.index - last.position
        /\ header.root = Ok(root(TreeOf(block)))
        /\ NumShards = Len(block)

LEMMA RootIs ==
  ASSUME NEW block, WellMade(block), NEW k \in 1..Len(block)
  PROVE  merkle_root(block[k]) = Ok(root(TreeOf(block)))
BY DEF WellMade, TreeOf

LEMMA HeadersAre ==
  ASSUME NEW block, WellMade(block), InBlock(block), Led
  PROVE  HeadOf(block)
<1>1. PICK k \in 1..Len(block) : Last(sorted) = block[k]
  BY DEF InBlock
<1> DEFINE s == block[k]
<1>2. header = HeaderOf(s) /\ s.type = "code"
  BY <1>1 DEF Led
<1>3. Element(block, k) /\ Len(block) = Last(block).num_data + Last(block).num_coding
  BY BlockIs
<1>4. merkle_root(s) = Ok(root(TreeOf(block)))
  BY RootIs
<1>5. /\ header.signature = s.signature /\ header.first = s.index - s.position
      /\ header.fec_set_index = s.fec_set_index /\ header.num_data = s.num_data
      /\ header.num_coding = s.num_coding /\ header.root = merkle_root(s) /\ header.chained = s.chained
  BY <1>2 DEF HeaderOf
<1> QED
  BY <1>2, <1>3, <1>4, <1>5 DEF Element, HeadOf, NumShards

(* What a stub lacks of its shred. *)
LEMMA StubOf ==
  ASSUME NEW block, WellMade(block), HeadOf(block), NEW k \in 1..Len(block)
  PROVE  make_stub_shred(k - 1) = [block[k] EXCEPT !.shard = <<>>, !.proof = <<>>]
<1> DEFINE s == block[k]
           d == Last(block).num_data
           stub == make_stub_shred(k - 1)
<1>1. /\ Element(block, k) /\ d \in Nat /\ Len(block) \in Nat
  BY BlockIs
<1>2. /\ Parsed(s) /\ erasure_shard_index(s) = k - 1
      /\ s.type = "data" <=> k <= d
      /\ header.signature = s.signature /\ header.chained = s.chained /\ header.fec_set_index = s.fec_set_index
      /\ header.num_data = d
      /\ s.type = "code" => /\ header.num_data = s.num_data /\ header.num_coding = s.num_coding
                            /\ header.first = s.index - s.position
  BY <1>1 DEF Element, HeadOf
<1> HIDE DEF s, d
<1>3. CASE s.type = "data"
  <2>1. k <= d /\ ~(k - 1 >= header.num_data)
    BY <1>1, <1>2, <1>3
  <2>2. s.index = header.fec_set_index + (k - 1)
    <3>1. s.index - s.fec_set_index = k - 1 /\ s.index \in Nat /\ s.fec_set_index \in Nat
      BY <1>2, <1>3 DEF erasure_shard_index, Parsed
    <3> QED
      BY <1>2, <3>1
  <2>3. stub = [type |-> s.type, signature |-> s.signature,
                index |-> s.index, fec_set_index |-> s.fec_set_index,
                shard |-> <<>>, chained |-> s.chained, proof |-> <<>>]
    BY <1>2, <1>3, <2>1, <2>2 DEF make_stub_shred
  <2>4. DOMAIN s = {"type", "signature", "index", "fec_set_index", "shard", "chained", "proof"}
    BY <1>2, <1>3 DEF Parsed, CommonFields
  <2> HIDE DEF stub
  <2>5. stub = [f \in DOMAIN s |-> IF f \in {"shard", "proof"} THEN <<>> ELSE s[f]]
    BY <2>3, <2>4, SMTT(60)
  <2>6. stub = [s EXCEPT !.shard = <<>>, !.proof = <<>>]
    BY <2>4, <2>5
  <2> QED
    BY <2>6 DEF stub, s
<1>4. CASE s.type = "code"
  <2>1. k - 1 >= header.num_data
    BY <1>1, <1>2, <1>4
  <2>2. s.position = StubPosition(k - 1) /\ s.index = header.first + StubPosition(k - 1)
    <3>1. s.num_data + s.position = k - 1 /\ s.index \in Nat /\ s.position \in Nat /\ s.num_data = d
      BY <1>2, <1>4 DEF erasure_shard_index, Parsed
    <3>2. header.first = s.index - s.position
      BY <1>2, <1>4
    <3> QED
      BY <1>1, <1>2, <3>1, <3>2 DEF StubPosition
  <2>3. stub = [type |-> s.type, signature |-> s.signature,
                index |-> s.index, fec_set_index |-> s.fec_set_index,
                num_data |-> s.num_data, num_coding |-> s.num_coding,
                position |-> s.position,
                shard |-> <<>>, chained |-> s.chained, proof |-> <<>>]
    BY <1>2, <1>4, <2>1, <2>2 DEF make_stub_shred
  <2>4. DOMAIN s = {"type", "signature", "index", "fec_set_index", "shard", "chained", "proof",
                    "num_data", "num_coding", "position"}
    BY <1>2, <1>4 DEF Parsed, CommonFields
  <2> HIDE DEF stub
  <2>5. stub = [f \in DOMAIN s |-> IF f \in {"shard", "proof"} THEN <<>> ELSE s[f]]
    BY <2>3, <2>4, SMTT(60)
  <2>6. stub = [s EXCEPT !.shard = <<>>, !.proof = <<>>]
    BY <2>4, <2>5
  <2> QED
    BY <2>6 DEF stub, s
<1>5. s.type \in {"data", "code"}
  BY <1>2 DEF Parsed
<1> QED
  BY <1>3, <1>4, <1>5

(* The batch with the stubs is the block with holes. *)
Lacks(block, I) ==
    [k \in 1..Len(block) |-> [shard |-> IF k \in I THEN block[k].shard ELSE <<>>, present |-> k \in I]]

LEMMA CodecRestores ==
  ASSUME NEW block, WellMade(block), NEW I \in SUBSET (1..Len(block))
  PROVE  /\ Enough(Last(block).num_data, I) <=> Cardinality(I) >= Last(block).num_data
         /\ Enough(Last(block).num_data, I) =>
              \A k \in (1..Len(block)) \ I :
                Rebuilt(Last(block).num_data, Lacks(block, I))[k] = block[k].shard
BY DEF WellMade, Lacks

LEMMA WholeIs ==
  ASSUME NEW block, WellMade(block), HeadOf(block), InBlock(block), NEW k \in 1..Len(block),
         \A i \in 1..Len(sorted) : At(i) \in Nat
  PROVE  /\ k \in Held(block) => Whole[k] = block[k]
         /\ k \notin Held(block) => Whole[k] = [block[k] EXCEPT !.shard = <<>>, !.proof = <<>>]
<1>1. NumShards = Len(block) /\ (Found(k) <=> k \in Held(block)) /\ Len(block) \in Nat
  BY BlockIs DEF HeadOf, InBlock
<1>2. CASE Found(k)
  <2> DEFINE i == CHOOSE i \in 1..Len(sorted) : At(i) = k - 1
  <2>1. i \in 1..Len(sorted) /\ At(i) = k - 1
    BY <1>2 DEF Found
  <2>2. Whole[k] = sorted[i]
    BY <1>1, <1>2 DEF Whole
  <2> HIDE DEF i
  <2>3. At(i) + 1 = k
    BY <1>1, <2>1
  <2>4. sorted[i] = block[At(i) + 1]
    BY <2>1 DEF InBlock
  <2> QED
    BY <1>1, <1>2, <2>2, <2>3, <2>4
<1>3. CASE ~Found(k)
  <2>1. Whole[k] = make_stub_shred(k - 1)
    BY <1>1, <1>3 DEF Whole
  <2> QED
    BY <1>1, <1>3, <2>1, StubOf
<1> QED
  BY <1>2, <1>3

LEMMA RestoredIs ==
  ASSUME NEW block, WellMade(block), HeadOf(block), InBlock(block),
         \A i \in 1..Len(sorted) : At(i) \in Nat,
         Enough(Last(block).num_data, Held(block))
  PROVE  /\ DOMAIN Restored = 1..Len(block)
         /\ \A k \in 1..Len(block) :
              /\ k \in Held(block) => Restored[k] = block[k]
              /\ k \notin Held(block) => Restored[k] = [block[k] EXCEPT !.proof = <<>>]
<1> DEFINE n == Len(block)
           I == Held(block)
           d == Last(block).num_data
           erased == [k \in 1..NumShards |-> [shard |-> Whole[k].shard, present |-> Present[k]]]
           shards == Rebuilt(header.num_data, erased)
<1>1. NumShards = n /\ header.num_data = d
  BY DEF HeadOf
<1>2. I \in SUBSET (1..n) /\ \A k \in 1..n : Element(block, k)
  BY BlockIs DEF Held
<1>3. ASSUME NEW k \in 1..n
      PROVE  /\ Present[k] = (k \in I)
             /\ k \in I => Whole[k] = block[k]
             /\ k \notin I => Whole[k] = [block[k] EXCEPT !.shard = <<>>, !.proof = <<>>]
  <2>1. /\ k \in I => Whole[k] = block[k]
        /\ k \notin I => Whole[k] = [block[k] EXCEPT !.shard = <<>>, !.proof = <<>>]
    BY WholeIs
  <2>2. Present[k] = Found(k)
    BY <1>1 DEF Present
  <2>3. Found(k) = (k \in I)
    <3>1. Found(k) <=> k \in I
      BY DEF InBlock
    <3>2. Found(k) \in BOOLEAN
      BY DEF Found
    <3> HIDE DEF I
    <3>3. PICK found : found = Found(k)
      OBVIOUS
    <3>4. PICK there : there = (k \in I)
      OBVIOUS
    <3>5. there \in BOOLEAN /\ found \in BOOLEAN /\ (found <=> there)
      BY <3>1, <3>2, <3>3, <3>4
    <3>6. found = there
      BY <3>5
    <3> QED
      BY <3>3, <3>4, <3>6
  <2> QED
    BY <2>1, <2>2, <2>3, Zenon
<1>4. ASSUME NEW k \in 1..n
      PROVE  /\ block[k] = [f \in DOMAIN block[k] |-> block[k][f]]
             /\ {"shard", "proof"} \subseteq DOMAIN block[k]
  BY <1>2 DEF Element, Parsed, CommonFields
<1> HIDE DEF n, I, d
<1>5. erased = Lacks(block, I)
  <2>1. ASSUME NEW k \in 1..n
        PROVE  Whole[k].shard = (IF k \in I THEN block[k].shard ELSE <<>>) /\ Present[k] = (k \in I)
    <3>1. Present[k] = (k \in I)
      BY <1>3, Zenon
    <3>2. CASE k \in I
      BY <1>3, <3>1, <3>2, Zenon
    <3>3. CASE k \notin I
      <4> DEFINE s == block[k]
      <4>1. Whole[k] = [s EXCEPT !.shard = <<>>, !.proof = <<>>] /\ "shard" \in DOMAIN s
        BY <1>3, <1>4, <3>3
      <4> HIDE DEF s
      <4>2. Whole[k].shard = <<>>
        BY <4>1
      <4> QED
        BY <3>1, <3>3, <4>2, Zenon
    <3> QED
      BY <3>2, <3>3
  <2>2. \A k \in 1..n : [shard |-> Whole[k].shard, present |-> Present[k]]
                          = [shard |-> IF k \in I THEN block[k].shard ELSE <<>>, present |-> k \in I]
    BY <2>1, Zenon
  <2> QED
    BY <1>1, <2>2, Zenon DEF Lacks, n
<1>6. \A k \in 1..n : k \notin I => shards[k] = block[k].shard
  <2>1. Enough(d, I)
    BY DEF d, I
  <2>2. \A k \in (1..n) \ I : Rebuilt(d, Lacks(block, I))[k] = block[k].shard
    <3>1. I \in SUBSET (1..Len(block))
      BY <1>2 DEF n
    <3> QED
      BY <2>1, <3>1, CodecRestores DEF n, d
  <2> QED
    BY <1>1, <1>5, <2>2
<1>7. Restored = [k \in 1..n |-> IF Present[k] THEN Whole[k] ELSE [Whole[k] EXCEPT !.shard = shards[k]]]
  BY <1>1 DEF Restored
<1> HIDE DEF shards
<1>8. ASSUME NEW k \in 1..n
      PROVE  /\ k \in I => Restored[k] = block[k]
             /\ k \notin I => Restored[k] = [block[k] EXCEPT !.proof = <<>>]
  <2>1. Present[k] <=> k \in I
    BY <1>3, Zenon
  <2>2. CASE k \in I
    BY <1>3, <1>7, <2>1, <2>2
  <2>3. CASE k \notin I
    <3> DEFINE s == block[k]
               w == Whole[k]
               r == Restored[k]
    <3>1. r = [w EXCEPT !.shard = s.shard]
      BY <1>6, <1>7, <2>1, <2>3
    <3>2. w = [s EXCEPT !.shard = <<>>, !.proof = <<>>]
      BY <1>3, <2>3
    <3>3. s = [f \in DOMAIN s |-> s[f]] /\ {"shard", "proof"} \subseteq DOMAIN s
      BY <1>4
    <3> HIDE DEF s, w, r
    <3>4. r = [s EXCEPT !.proof = <<>>]
      BY <3>1, <3>2, <3>3
    <3> QED
      BY <2>3, <3>4 DEF s, r
  <2> QED
    BY <2>2, <2>3
<1> QED
  BY <1>7, <1>8 DEF n, I

(* What the iterator has yielded, in order. *)
ItemsInOrder ==
    Iterating =>
      \E q \in InOrder(Wanting(cursor)) : items = [i \in DOMAIN q |-> Ok(Yielded(q[i]))]

LEMMA NothingYielded == ASSUME GivenInv, cursor = 0 PROVE ItemsInOrder
<1> SUFFICES ASSUME Iterating
             PROVE  \E q \in InOrder(Wanting(0)) : items = [i \in DOMAIN q |-> Ok(Yielded(q[i]))]
  BY DEF ItemsInOrder
<1>1. Wanting(0) = {} /\ Cardinality(Wanting(0)) = 0
  BY NothingWanted
<1>2. IsSeq(items) /\ Len(items) = 0
  BY <1>1 DEF GivenInv, ItemsOK
<1> DEFINE q == [i \in 1..0 |-> 0]
<1>3. DOMAIN q = {} /\ q \in [1..0 -> {}]
  OBVIOUS
<1>4. q \in InOrder(Wanting(0))
  BY <1>1, <1>3 DEF InOrder
<1>5. items = [i \in 1..0 |-> Ok(Yielded(q[i]))]
  <2>1. items \in Seq(Range(items))
    BY <1>2 DEF IsSeq
  <2>2. items = [i \in 1..0 |-> items[i]]
    BY <1>2, <2>1
  <2> HIDE DEF q
  <2> QED
    BY <2>2
<1> HIDE DEF q
<1>6. items = [i \in DOMAIN q |-> Ok(Yielded(q[i]))]
  BY <1>3, <1>5
<1> QED
  BY <1>4, <1>6

(* A larger number at the end of an order. *)
LEMMA InOrderOneMore ==
  ASSUME NEW S, NEW n \in Nat, S \subseteq 1..n, Cardinality(S) \in Nat,
         Cardinality(S \cup {n + 1}) = Cardinality(S) + 1, NEW q \in InOrder(S)
  PROVE  [i \in 1..Cardinality(S) + 1 |-> IF i \in 1..Cardinality(S) THEN q[i] ELSE n + 1]
           \in InOrder(S \cup {n + 1})
<1> DEFINE c == Cardinality(S)
           T == S \cup {n + 1}
           p == [i \in 1..c + 1 |-> IF i \in 1..c THEN q[i] ELSE n + 1]
<1>1. q \in [1..c -> S] /\ \A i, j \in 1..c : i < j => q[i] < q[j]
  BY DEF InOrder
<1>2. c \in Nat /\ Cardinality(T) = c + 1
  OBVIOUS
<1> HIDE DEF c, T
<1>3. p \in [1..c + 1 -> T] /\ DOMAIN p = 1..c + 1
  BY <1>1 DEF T
<1>4. ASSUME NEW i \in 1..c + 1, NEW j \in 1..c + 1, i < j PROVE p[i] < p[j]
  <2>1. i \in 1..c /\ (j \in 1..c \/ j \notin 1..c)
    BY <1>2, <1>4
  <2>2. p[i] = q[i] /\ q[i] \in S /\ q[i] \in 1..n
    BY <1>1, <2>1
  <2>3. CASE j \in 1..c
    BY <1>1, <1>4, <2>1, <2>2, <2>3
  <2>4. CASE j \notin 1..c
    <3>1. p[j] = n + 1
      BY <2>4
    <3> QED
      BY <2>2, <3>1
  <2> QED
    BY <2>3, <2>4
<1>5. p \in {r \in [1..c + 1 -> T] : \A i, j \in DOMAIN r : i < j => r[i] < r[j]}
  <2> HIDE DEF p
  <2> QED
    BY <1>3, <1>4
<1>6. p \in InOrder(T)
  BY <1>2, <1>5 DEF InOrder
<1> QED
  BY <1>6 DEF c, T

LEMMA IterateInOrder ==
  ASSUME PlaceInv, GivenInv, Iterating, ItemsInOrder, Iterate PROVE ItemsInOrder'
<1> DEFINE k == cursor + 1
<1>1. /\ pc = "iterate" /\ cursor < NumShards /\ cursor' = k
      /\ UNCHANGED <<input, sorted, mode, pc, todo, header, batch, mask, nodes, outcome, fast>>
      /\ items' = IF mask[k] THEN items
                  ELSE Append(items, IF set_merkle_proof(Proof(k), ProofSize).ok
                                     THEN Ok([batch[k] EXCEPT !.proof = set_merkle_proof(Proof(k), ProofSize).value])
                                     ELSE set_merkle_proof(Proof(k), ProofSize))
  BY DEF Iterate
<1>2. Given /\ ItemsOK
  BY DEF GivenInv
<1>3. cursor \in Nat /\ NumShards \in Nat /\ k \in 1..NumShards
  BY <1>1, <1>2 DEF Given, ItemsOK
<1>4. set_merkle_proof(Proof(k), ProofSize) = Ok(Path(Hashes, k - 1))
  BY <1>2, <1>3, PathOf
<1>5. /\ set_merkle_proof(Proof(k), ProofSize).ok
      /\ set_merkle_proof(Proof(k), ProofSize).value = Path(Hashes, k - 1)
  BY <1>4 DEF Ok
<1>6. items' = IF mask[k] THEN items ELSE Append(items, Ok(Yielded(k)))
  BY <1>1, <1>5 DEF Yielded
<1>7. /\ Wanting(k) = IF mask[k] THEN Wanting(cursor) ELSE Wanting(cursor) \cup {k}
      /\ Cardinality(Wanting(cursor)) \in Nat
      /\ Cardinality(Wanting(k)) =
           IF mask[k] THEN Cardinality(Wanting(cursor)) ELSE Cardinality(Wanting(cursor)) + 1
  BY <1>3, OneMoreWanted
<1>8. PICK q \in InOrder(Wanting(cursor)) : items = [i \in DOMAIN q |-> Ok(Yielded(q[i]))]
  BY DEF ItemsInOrder
<1>9. \E p \in InOrder(Wanting(k)) : items' = [i \in DOMAIN p |-> Ok(Yielded(p[i]))]
  <2>1. CASE mask[k]
    BY <1>6, <1>7, <1>8, <2>1
  <2>2. CASE ~mask[k]
    <3> DEFINE S == Wanting(cursor)
               c == Cardinality(S)
               p == [i \in 1..c + 1 |-> IF i \in 1..c THEN q[i] ELSE cursor + 1]
               x == Ok(Yielded(k))
    <3>1. S \subseteq 1..cursor /\ c \in Nat /\ Cardinality(S \cup {cursor + 1}) = c + 1
      BY <1>7, <2>2 DEF Wanting
    <3>2. p \in InOrder(Wanting(k))
      <4>1. p \in InOrder(S \cup {cursor + 1})
        <5> HIDE DEF S
        <5> QED
          BY <1>3, <1>8, <3>1, InOrderOneMore DEF S
      <4>2. Wanting(k) = S \cup {cursor + 1}
        BY <1>7, <2>2
      <4> QED
        BY <4>1, <4>2
    <3>3. DOMAIN q = 1..c
      BY <1>8 DEF InOrder
    <3>4. items' = Append(items, x) /\ IsSeq(items)
      BY <1>2, <1>6, <2>2 DEF ItemsOK
    <3> HIDE DEF x
    <3>5. /\ IsSeq(items') /\ Len(items') = Len(items) + 1
          /\ \A i \in 1..Len(items) : items'[i] = items[i]
          /\ items'[Len(items) + 1] = x
      BY <3>4, OneItem
    <3>6. Len(items) = c
      BY <1>2 DEF ItemsOK
    <3> HIDE DEF c, S
    <3>7. items' = [i \in 1..c + 1 |-> items'[i]]
      <4>1. items' \in Seq(Range(items')) /\ Len(items') = c + 1
        BY <3>5, <3>6 DEF IsSeq
      <4> QED
        BY <4>1
    <3>8. ASSUME NEW i \in 1..c + 1 PROVE items'[i] = Ok(Yielded(p[i]))
      <4>1. CASE i \in 1..c
        <5>1. items'[i] = items[i] /\ items[i] = Ok(Yielded(q[i])) /\ p[i] = q[i]
          BY <1>8, <3>3, <3>5, <3>6, <4>1
        <5> QED
          BY <5>1
      <4>2. CASE i \notin 1..c
        <5>1. i = c + 1 /\ p[i] = k
          BY <3>1, <4>2
        <5> QED
          BY <3>5, <3>6, <5>1 DEF x
      <4> QED
        BY <4>1, <4>2
    <3>9. DOMAIN p = 1..c + 1
      OBVIOUS
    <3> HIDE DEF p
    <3>10. items' = [i \in DOMAIN p |-> Ok(Yielded(p[i]))]
      BY <3>7, <3>8, <3>9
    <3> QED
      BY <3>2, <3>10
  <2> QED
    BY <2>1, <2>2
<1>10. Wanting(cursor)' = Wanting(k) /\ \A j : Yielded(j)' = Yielded(j)
  BY <1>1 DEF Wanting, Yielded, Hashes
<1>11. PICK p \in InOrder(Wanting(k)) : items' = [i \in DOMAIN p |-> Ok(Yielded(p[i]))]
  BY <1>9
<1>12. items' = [i \in DOMAIN p |-> Ok(Yielded(p[i]))']
  BY <1>10, <1>11 DEF Ok
<1>13. p \in InOrder(Wanting(cursor)')
  BY <1>10, <1>11
<1> QED
  BY <1>12, <1>13 DEF ItemsInOrder, InOrder

LEMMA NextInOrder ==
  ASSUME FullInv, FullInv', ItemsInOrder, [Next]_vars PROVE ItemsInOrder'
<1>1. CASE mode' = "fast"
  BY <1>1 DEF ItemsInOrder, Iterating
<1>2. CASE cursor' = 0
  <2>1. GivenInv' /\ cursor' = 0
    BY <1>2 DEF FullInv
  <2>2. (GivenInv /\ cursor = 0 => ItemsInOrder)'
    <3>1. GivenInv /\ cursor = 0 => ItemsInOrder
      BY NothingYielded
    <3> QED
      BY NothingYielded, PTL
  <2> QED
    BY <2>1, <2>2
<1>3. CASE Iterate
  BY <1>3, IterateInOrder DEF FullInv, GivenInv, Iterate
<1>4. CASE UNCHANGED <<mode, outcome, cursor, items, batch, mask>>
  <2>1. Wanting(cursor)' = Wanting(cursor) /\ \A j : Yielded(j)' = Yielded(j)
    BY <1>4 DEF Wanting, Yielded, Hashes
  <2> QED
    BY <1>4, <2>1 DEF ItemsInOrder, Iterating, InOrder, Ok
<1>5. CASE CallFull \/ FillStep \/ DecodeStep \/ Verify
  <2>1. ~Iterating /\ cursor' = cursor
    BY <1>5 DEF CallFull, FillStep, DecodeStep, Verify, Iterating, FullInv, GivenInv, HeadOK, Pending, Err
  <2>2. cursor = 0
    BY <2>1 DEF FullInv, GivenInv
  <2> QED
    BY <1>2, <2>1, <2>2
<1>6. CASE (\E shreds \in Inputs : CallFast(shreds)) \/ Extract \/ Forget
  <2>1. mode' = "fast"
    BY <1>6 DEF CallFast, Start, Extract, Forget
  <2> QED
    BY <1>1, <2>1
<1>7. CASE Drop \/ UNCHANGED vars
  BY <1>4, <1>7 DEF Drop, vars
<1> QED
  BY <1>3, <1>5, <1>6, <1>7, NextSteps DEF Steps

(* How a call with genuine shreds has ended. *)
Ended(block) ==
    (pc = "done" /\ Genuine(block)) =>
      IF Len(input) < Last(block).num_data THEN outcome = Err("TooFewShardsPresent")
      ELSE outcome.ok

GenuineAreIn ==
    \A block \in SoundBlocks :
      PlaceInv /\ SortInv /\ pc # "idle" /\ Genuine(block) => InBlock(block)

LEMMA SoundInBlock == GenuineAreIn
BY GenuineInBlock, SoundAssumption DEF GenuineAreIn

(* Genuine shreds are accepted if and only if they are enough. *)
LEMMA EnoughIsAcceptable ==
  ASSUME PlaceInv, NEW block, WellMade(block), Genuine(block), InBlock(block)
  PROVE  /\ Acceptable <=> Len(input) >= Last(block).num_data
         /\ Acceptable <=> Enough(Last(block).num_data, Held(block))
<1> DEFINE n == Len(block)
           d == Last(block).num_data
<1>1. /\ n \in Nat /\ DOMAIN block = 1..n /\ n = d + Last(block).num_coding
      /\ CodecOk(d, Last(block).num_coding)
      /\ \A k \in 1..n : Element(block, k)
  BY BlockIs
<1>2. PICK l \in 1..n : Last(sorted) = block[l]
  BY DEF InBlock
<1>3. /\ sorted # <<>> /\ Last(sorted).type = "code"
      /\ \A i \in 1..Len(sorted) : At(i) + 1 \in 1..n /\ sorted[i] = block[At(i) + 1]
      /\ \A i, j \in 1..Len(sorted) : i < j => At(i) < At(j)
      /\ \A k \in 1..n : Found(k) <=> k \in Held(block)
  BY DEF InBlock
<1>4. /\ Last(sorted).num_data = d /\ Last(sorted).num_coding = Last(block).num_coding
      /\ Last(sorted).signature = Last(block).signature
  BY <1>1, <1>2, <1>3 DEF Element
<1>5. Held(block) \subseteq 1..n
  BY <1>1 DEF Held
<1>6. {k \in 1..n : Found(k)} = Held(block)
  BY <1>3, <1>5
<1>7. \A i \in 1..Len(sorted) : At(i) \in Nat
  BY PlacesKnown
<1>8. \A i \in 1..Len(sorted) : sorted[i].signature = Last(sorted).signature /\ At(i) < n
  <2>1. ASSUME NEW i \in 1..Len(sorted) PROVE sorted[i].signature = Last(block).signature /\ At(i) < n
    <3>1. At(i) + 1 \in 1..n /\ sorted[i] = block[At(i) + 1] /\ At(i) \in Nat
      BY <1>3, <1>7
    <3>2. Element(block, At(i) + 1)
      BY <1>1, <3>1
    <3>3. block[At(i) + 1].signature = Last(block).signature
      BY <3>2 DEF Element
    <3> QED
      BY <1>1, <3>1, <3>3
  <2> QED
    BY <1>4, <2>1
<1>9. Acceptable <=> Enough(d, Held(block))
  <2>1. Last(sorted).num_data + Last(sorted).num_coding = n
    BY <1>1, <1>4
  <2>2. Acceptable <=> Enough(d, {k \in 1..n : Found(k)})
    <3> HIDE DEF n, d
    <3> QED
      BY <1>1, <1>3, <1>4, <1>8, <2>1 DEF Acceptable
  <2> QED
    BY <1>6, <2>2
<1>10. Enough(d, Held(block)) <=> Cardinality(Held(block)) >= d
  BY <1>5, CodecRestores
<1>11. Cardinality(Held(block)) = Len(input)
  BY DEF Genuine
<1> QED
  BY <1>9, <1>10, <1>11

LEMMA StartGoesOn ==
  ASSUME NEW block, WellMade(block), NEW k \in 1..Len(block), NEW m, Start(m),
         sorted' # <<>>, Last(sorted').type = "code", Last(sorted') = block[k]
  PROVE  pc' = "fill"
<1>1. merkle_root(Last(sorted')).ok
  <2>1. PICK c : c = Last(sorted')
    OBVIOUS
  <2>2. merkle_root(c) = Ok(root(TreeOf(block)))
    BY <2>1, RootIs
  <2>3. merkle_root(c).ok
    BY <2>2 DEF Ok
  <2> QED
    BY <2>1, <2>3 DEF merkle_root
<1>2. StartError(m) = Pending
  BY <1>1 DEF StartError
<1> QED
  BY <1>2 DEF Start

LEMMA FillGoesOn ==
  ASSUME PlaceInv, FastInv, NEW block, WellMade(block), InBlock(block), FillStep
  PROVE  pc' = "fill"
<1> DEFINE s == Head(todo)
           at == erasure_shard_index(s)
           n == Taken
<1>1. pc = "fill" /\ todo # <<>>
  BY DEF FillStep
<1>2. /\ Led /\ n \in 0..Len(sorted)
      /\ \A i \in 1..Len(todo) : todo[i] = sorted[n + i]
      /\ Filled(batch, mask, n)
  BY <1>1 DEF FastInv
<1>3. /\ IsSeq(sorted) /\ Len(sorted) \in Nat
      /\ \A i \in 1..Len(sorted) : At(i) \in Nat
  BY PlacesKnown
<1>4. HeadOf(block)
  BY <1>2, HeadersAre
<1>5. Len(todo) \in Nat /\ Len(todo) > 0 /\ s = todo[1]
  <2>1. todo \in Seq(Range(todo))
    BY DEF PlaceInv, OrderOK, IsSeq
  <2> QED
    BY <1>1, <2>1
<1>6. n \in Nat /\ n + 1 \in 1..Len(sorted) /\ s = sorted[n + 1] /\ at = At(n + 1)
  BY <1>2, <1>3, <1>5 DEF Taken, At
<1> HIDE DEF s, at, n
<1>7. At(n + 1) + 1 \in 1..Len(block) /\ s = block[At(n + 1) + 1] /\ at \in Nat
  BY <1>3, <1>6 DEF InBlock
<1>8. s.signature = header.signature
  <2>1. Element(block, At(n + 1) + 1)
    BY <1>7, BlockIs
  <2> QED
    BY <1>4, <1>7, <2>1 DEF Element, HeadOf
<1>9. Len(batch) \in Nat /\ Len(batch) <= at
  <2>1. CASE n = 0
    BY <1>2, <1>7, <2>1 DEF Filled
  <2>2. CASE n # 0
    <3>1. n \in 1..Len(sorted) /\ n < n + 1 /\ Len(batch) = At(n) + 1
      BY <1>2, <1>6, <2>2 DEF Filled
    <3>2. At(n) < At(n + 1) /\ At(n) \in Nat
      BY <1>3, <1>6, <3>1 DEF InBlock
    <3> QED
      BY <1>6, <1>7, <3>1, <3>2
  <2> QED
    BY <2>1, <2>2
<1>10. NumShards = Len(block) /\ Len(block) \in Nat
  BY <1>4, BlockIs DEF HeadOf
<1>11. at \in Len(batch)..NumShards - 1
  BY <1>6, <1>7, <1>9, <1>10
<1>12. FillError(s) = Pending
  BY <1>8, <1>11 DEF FillError, at
<1> QED
  BY <1>1, <1>12 DEF FillStep, s

LEMMA DecodeEnds ==
  ASSUME PlaceInv, FastInv, NEW block, WellMade(block), Genuine(block), InBlock(block), DecodeStep
  PROVE  \/ pc' = "decoded"
         \/ outcome' = Err("TooFewShardsPresent") /\ Len(input) < Last(block).num_data
<1> DEFINE present == PaddedMask(NumShards)
           d == Last(block).num_data
<1>1. pc = "fill" /\ todo = <<>>
  BY DEF DecodeStep
<1>2. Led /\ Filled(batch, mask, Taken)
  BY <1>1 DEF FastInv
<1>3. Len(sorted) \in Nat /\ IsSeq(sorted) /\ \A i \in 1..Len(sorted) : At(i) \in Nat
  BY PlacesKnown
<1>4. Taken = Len(sorted)
  <2>1. Len(todo) = 0
    BY <1>1
  <2> QED
    BY <1>3, <2>1 DEF Taken
<1>5. /\ {header.num_data, header.num_coding, header.first, header.fec_set_index} \subseteq Nat
      /\ Len(batch) <= NumShards /\ BatchOK
  BY <1>1 DEF PlaceInv, HeaderOK
<1>6. PaddedMask(NumShards) = Present
  BY <1>2, <1>3, <1>4, <1>5, FilledIsWhole
<1>7. HeadOf(block)
  BY <1>2, HeadersAre
<1>8. {k \in DOMAIN present : present[k]} = Held(block)
  <2>1. {k \in DOMAIN present : present[k]} = {k \in 1..NumShards : Found(k)}
    BY <1>6 DEF Present
  <2>2. NumShards = Len(block) /\ Held(block) \subseteq 1..Len(block)
    BY <1>7, BlockIs DEF HeadOf, Held
  <2> QED
    BY <2>1, <2>2 DEF InBlock
<1>9. CodecOk(header.num_data, header.num_coding) /\ header.num_data = d
  BY <1>7, BlockIs DEF HeadOf
<1>10. CASE Enough(d, Held(block))
  <2>1. DecodeError(present) = Pending
    BY <1>8, <1>9, <1>10 DEF DecodeError
  <2> QED
    BY <2>1 DEF DecodeStep, PaddedMask
<1>11. CASE ~Enough(d, Held(block))
  <2>1. DecodeError(present) = Err("TooFewShardsPresent")
    BY <1>8, <1>9, <1>11 DEF DecodeError
  <2>2. outcome' = Err("TooFewShardsPresent")
    BY <2>1 DEF DecodeStep, PaddedMask, Return, Pending, Err
  <2>3. ~(Len(input) >= d) /\ d \in Nat /\ Len(input) \in Nat
    <3>1. Acceptable <=> Enough(d, Held(block))
      BY EnoughIsAcceptable
    <3>2. Acceptable <=> Len(input) >= d
      BY EnoughIsAcceptable
    <3>3. d \in Nat /\ Len(input) \in Nat
      BY BlockIs DEF PlaceInv, OrderOK, IsSeq
    <3> QED
      BY <1>11, <3>1, <3>2, <3>3
  <2> QED
    BY <2>2, <2>3
<1> QED
  BY <1>10, <1>11

(* Without its proof a shred is the same for all else.                     *)
LEMMA Bare ==
  ASSUME NEW s, Parsed(s), NEW proof
  PROVE  LET bare == [s EXCEPT !.proof = proof]
         IN  /\ bare.type = s.type /\ bare.shard = s.shard
             /\ bare.index = s.index /\ bare.fec_set_index = s.fec_set_index
             /\ merkle_node(bare) = merkle_node(s)
<1> DEFINE bare == [s EXCEPT !.proof = proof]
<1>1. DOMAIN bare = DOMAIN s /\ \A f \in DOMAIN s : f # "proof" => bare[f] = s[f]
  OBVIOUS
<1> HIDE DEF bare
<1>2. /\ bare.type = s.type /\ bare.shard = s.shard /\ bare.chained = s.chained
      /\ bare.index = s.index /\ bare.fec_set_index = s.fec_set_index
  BY <1>1 DEF Parsed, CommonFields
<1>3. s.type = "data" \/ /\ s.type = "code"
                         /\ bare.num_data = s.num_data /\ bare.num_coding = s.num_coding
                         /\ bare.position = s.position
  BY <1>1 DEF Parsed, CommonFields
<1>4. merkle_node(bare) = merkle_node(s)
  BY <1>2, <1>3 DEF merkle_node, Content
<1> QED
  BY <1>2, <1>4 DEF bare

(* What has been decoded is the block, but for the rebuilt shreds' proofs. *)
BatchIs(block) ==
    /\ DOMAIN batch = 1..Len(block) /\ DOMAIN mask = 1..Len(block)
    /\ \A k \in 1..Len(block) :
         /\ mask[k] <=> k \in Held(block)
         /\ k \in Held(block) => batch[k] = block[k]
         /\ k \notin Held(block) => batch[k] = [block[k] EXCEPT !.proof = <<>>]

LEMMA DecodedIs ==
  ASSUME PlaceInv, FastInv, pc = "decoded" \/ Iterating,
         NEW block, WellMade(block), Genuine(block), InBlock(block)
  PROVE  /\ HeadOf(block) /\ BatchIs(block)
         /\ Len(input) >= Last(block).num_data
<1>1. Led /\ Acceptable /\ batch = Restored /\ mask = Present
  BY DEF FastInv
<1>2. HeadOf(block)
  BY <1>1, HeadersAre
<1>3. Len(input) >= Last(block).num_data /\ Enough(Last(block).num_data, Held(block))
  BY <1>1, EnoughIsAcceptable
<1>4. \A i \in 1..Len(sorted) : At(i) \in Nat
  BY PlacesKnown
<1>5. /\ DOMAIN Restored = 1..Len(block)
      /\ \A k \in 1..Len(block) :
           /\ k \in Held(block) => Restored[k] = block[k]
           /\ k \notin Held(block) => Restored[k] = [block[k] EXCEPT !.proof = <<>>]
  BY <1>2, <1>3, <1>4, RestoredIs
<1>6. NumShards = Len(block)
  BY <1>2 DEF HeadOf
<1>7. DOMAIN Present = 1..Len(block) /\ \A k \in 1..Len(block) : Present[k] <=> Found(k)
  BY <1>6 DEF Present
<1>8. \A k \in 1..Len(block) : Found(k) <=> k \in Held(block)
  BY DEF InBlock
<1>9. BatchIs(block)
  BY <1>1, <1>5, <1>7, <1>8 DEF BatchIs
<1> QED
  BY <1>2, <1>3, <1>9

LEMMA SameNodes ==
  ASSUME NEW block, WellMade(block), BatchIs(block)
  PROVE  /\ \A k \in 1..Len(block) : merkle_node(batch[k]) = merkle_node(block[k])
         /\ Hashes = [k \in 1..Len(block) |-> merkle_node(block[k])]
<1>1. ASSUME NEW k \in 1..Len(block) PROVE merkle_node(batch[k]) = merkle_node(block[k])
  <2>1. Element(block, k)
    BY BlockIs
  <2>2. Parsed(block[k])
    BY <2>1 DEF Element
  <2>3. merkle_node([block[k] EXCEPT !.proof = <<>>]) = merkle_node(block[k])
    BY <2>2, Bare
  <2> QED
    BY <2>3 DEF BatchIs
<1> QED
  BY <1>1 DEF BatchIs, Hashes

LEMMA NodesPass ==
  ASSUME NEW block, WellMade(block), HeadOf(block), BatchIs(block), NEW k \in 1..Len(block)
  PROVE  Node(k) = Ok(merkle_node(block[k]))
<1> DEFINE s == batch[k]
           t == block[k]
<1>1. merkle_node(s) = merkle_node(t)
  BY SameNodes
<1>2. CASE k \in Held(block)
  BY <1>1, <1>2 DEF BatchIs, Node
<1>3. CASE k \notin Held(block)
  <2>1. Element(block, k) /\ Last(block).num_data \in Nat /\ Len(block) \in Nat
    BY BlockIs
  <2>2. /\ Parsed(t)
        /\ t.type = "data" <=> k <= Last(block).num_data
        /\ t.type = "data" => HeaderMatches(t) /\ SaneShard(t.shard)
    BY <2>1 DEF Element
  <2>3. s = [t EXCEPT !.proof = <<>>] /\ ~mask[k]
    BY <1>3 DEF BatchIs
  <2>4. s.type = t.type /\ s.shard = t.shard /\ s.index = t.index /\ s.fec_set_index = t.fec_set_index
    BY <2>2, <2>3, Bare
  <2>5. t.type \in {"data", "code"} /\ header.num_data = Last(block).num_data
    BY <2>2 DEF Parsed, HeadOf
  <2> HIDE DEF s, t
  <2>6. HeaderMatches(s) /\ (s.type = "data" => SaneShard(s.shard))
    BY <2>2, <2>4 DEF HeaderMatches
  <2>7. ~(k <= header.num_data /\ s.type # "data")
    BY <2>2, <2>4, <2>5
  <2>8. ~(k > header.num_data /\ s.type # "code")
    BY <2>1, <2>2, <2>4, <2>5
  <2>9. Node(k) = Ok(merkle_node(s))
    BY <2>3, <2>6, <2>7, <2>8 DEF Node, s
  <2> QED
    BY <1>1, <2>9 DEF s, t
<1> QED
  BY <1>2, <1>3

LEMMA VerifyEnds ==
  ASSUME PlaceInv, FastInv, NEW block, WellMade(block), Genuine(block), InBlock(block), Verify
  PROVE  pc' = "iterate"
<1> DEFINE n == Len(block)
           shreds == [k \in 1..n |-> Ok(merkle_node(block[k]))]
           tree == try_new([k \in DOMAIN batch |-> Node(k)])
<1>1. pc = "decoded"
  BY DEF Verify
<1>2. HeadOf(block) /\ BatchIs(block)
  BY <1>1, DecodedIs
<1>3. [k \in DOMAIN batch |-> Node(k)] = shreds
  <2>1. DOMAIN batch = 1..n /\ \A k \in 1..n : Node(k) = Ok(merkle_node(block[k]))
    BY <1>2, NodesPass DEF BatchIs
  <2> QED
    BY <2>1
<1>4. n \in Nat /\ n # 0
  BY BlockIs
<1>5. PICK H : HashesFrom(H)
  <2>1. BatchOK
    BY DEF PlaceInv
  <2>2. Len(batch) = n
    BY <1>2, <1>4, <2>1 DEF BatchIs, BatchOK, IsSeq
  <2> QED
    BY <1>4, <2>1, <2>2, HashesAre
<1>6. Hashes = [k \in 1..n |-> merkle_node(block[k])] /\ \A k \in 1..n : merkle_node(block[k]) \in H
  <2>1. Hashes = [k \in 1..n |-> merkle_node(block[k])]
    BY <1>2, SameNodes
  <2>2. Hashes \in Seq(H)
    BY <1>5 DEF HashesFrom
  <2>3. DOMAIN Hashes = 1..n
    BY <2>1
  <2>4. \A k \in 1..n : Hashes[k] \in H
    BY <2>2, <2>3
  <2> QED
    BY <2>1, <2>4
<1>7. tree.ok
  <2>1. Closed(H)
    BY <1>5 DEF HashesFrom
  <2>2. \A k \in 1..n : shreds[k] = Ok(merkle_node(block[k]))
    OBVIOUS
  <2>3. shreds = [k \in 1..n |-> shreds[k]]
    OBVIOUS
  <2> HIDE DEF shreds, n
  <2>4. shreds \in Seq(Range(shreds)) /\ Len(shreds) = n
    BY <1>4, <2>3, FunctionIsSeq DEF IsSeq
  <2>5. \A v : Ok(v).ok /\ Ok(v).value = v
    BY DEF Ok
  <2>6. \A k \in 1..n : shreds[k].ok /\ shreds[k] = Ok(shreds[k].value) /\ shreds[k].value \in H
    BY <1>6, <2>2, <2>5
  <2>7. try_new(shreds) = Ok(Tree([i \in 1..n |-> shreds[i].value]))
    BY <1>4, <2>1, <2>4, <2>6, TryNew
  <2>8. tree = try_new(shreds)
    BY <1>3
  <2> QED
    BY <2>5, <2>7, <2>8
<1>8. tree.value = TreeOf(block)
  BY <1>3 DEF TreeOf
<1> HIDE DEF tree
<1>9. RootMatches(tree.value)
  BY <1>2, <1>8 DEF RootMatches, HeadOf
<1>10. VerifyError(tree) = Pending
  BY <1>7, <1>9 DEF VerifyError
<1> QED
  BY <1>10 DEF Verify, tree

LEMMA StartEnds ==
  ASSUME PlaceInv', SortInv', pc' # "idle", NEW m, Start(m),
         NEW block \in SoundBlocks, Genuine(block)'
  PROVE  pc' = "fill"
<1>1. (PlaceInv /\ SortInv /\ pc # "idle" /\ Genuine(block) => InBlock(block))'
  <2>1. GenuineAreIn
    BY SoundInBlock
  <2>2. GenuineAreIn'
    BY SoundInBlock, PTL
  <2> QED
    BY <2>2 DEF GenuineAreIn
<1>2. InBlock(block)'
  BY <1>1
<1>3. /\ sorted' # <<>> /\ Last(sorted').type = "code"
      /\ \E k \in 1..Len(block) : Last(sorted') = block[k]
  BY <1>2 DEF InBlock
<1>4. PICK k \in 1..Len(block) : Last(sorted') = block[k]
  BY <1>3
<1>5. WellMade(block)
  BY SoundAssumption
<1> QED
  BY <1>3, <1>4, <1>5, StartGoesOn

LEMMA NextEnded ==
  ASSUME FullInv, FullInv', SortInv, SortInv', FastInv, [Next]_vars,
         NEW block \in SoundBlocks, Ended(block)
  PROVE  Ended(block)'
<1> SUFFICES ASSUME pc' = "done", Genuine(block)'
             PROVE  IF Len(input') < Last(block).num_data THEN outcome' = Err("TooFewShardsPresent")
                    ELSE outcome'.ok
  BY DEF Ended
<1>1. PlaceInv /\ GivenInv /\ PlaceInv'
  BY DEF FullInv
<1>2. WellMade(block)
  BY SoundAssumption
<1>3. pc # "idle" /\ UNCHANGED <<input, sorted>> => Genuine(block) /\ InBlock(block)
  <2> SUFFICES ASSUME pc # "idle", UNCHANGED <<input, sorted>> PROVE Genuine(block) /\ InBlock(block)
    OBVIOUS
  <2>1. Genuine(block)
    BY DEF Genuine, Held
  <2> QED
    BY <1>1, <2>1, SoundInBlock DEF GenuineAreIn
<1>4. CASE (\E shreds \in Inputs : CallFast(shreds)) \/ CallFull
  <2>1. \E m : Start(m)
    BY <1>4 DEF CallFast, CallFull
  <2>2. pc' = "fill"
    BY <1>1, <2>1, StartEnds
  <2> QED
    BY <2>2
<1>5. CASE FillStep
  <2>1. Genuine(block) /\ InBlock(block)
    BY <1>3, <1>5 DEF FillStep
  <2>2. pc' = "fill"
    BY <1>1, <1>2, <1>5, <2>1, FillGoesOn
  <2> QED
    BY <2>2
<1>6. CASE DecodeStep
  <2>1. Genuine(block) /\ InBlock(block) /\ input' = input
    BY <1>3, <1>6 DEF DecodeStep
  <2>2. \/ pc' = "decoded"
        \/ outcome' = Err("TooFewShardsPresent") /\ Len(input) < Last(block).num_data
    BY <1>1, <1>2, <1>6, <2>1, DecodeEnds
  <2> QED
    BY <2>1, <2>2
<1>7. Len(input) \in Nat /\ Last(block).num_data \in Nat
  BY <1>1, <1>2, BlockIs DEF PlaceInv, OrderOK, IsSeq
<1>8. CASE Extract
  <2>1. Genuine(block) /\ InBlock(block) /\ input' = input /\ pc = "decoded"
    BY <1>3, <1>8 DEF Extract
  <2>2. Len(input) >= Last(block).num_data
    BY <1>1, <1>2, <2>1, DecodedIs
  <2>3. outcome'.ok
    BY <1>8 DEF Extract, Return, Ok
  <2> QED
    BY <1>7, <2>1, <2>2, <2>3
<1>9. CASE Verify
  <2>1. Genuine(block) /\ InBlock(block)
    BY <1>3, <1>9 DEF Verify
  <2>2. pc' = "iterate"
    BY <1>1, <1>2, <1>9, <2>1, VerifyEnds
  <2> QED
    BY <2>2
<1>10. CASE Iterate
  BY <1>10 DEF Iterate
<1>11. CASE Drop
  <2>1. Genuine(block) /\ InBlock(block) /\ input' = input /\ pc = "iterate" /\ outcome' = outcome
    BY <1>3, <1>11 DEF Drop
  <2>2. Iterating
    BY <1>1, <2>1 DEF GivenInv
  <2>3. Len(input) >= Last(block).num_data
    BY <1>1, <1>2, <2>1, <2>2, DecodedIs
  <2> QED
    BY <1>7, <2>1, <2>2, <2>3 DEF Iterating
<1>12. CASE Forget
  BY <1>12 DEF Forget
<1>13. CASE UNCHANGED vars
  <2>1. pc = "done" /\ UNCHANGED <<input, sorted, outcome>>
    BY <1>13 DEF vars
  <2> QED
    BY <1>3, <2>1 DEF Ended
<1> QED
  BY <1>4, <1>5, <1>6, <1>8, <1>9, <1>10, <1>11, <1>12, <1>13, NextSteps DEF Steps

(* What a genuine fast call has found.                                     *)
LEMMA FastGivesBack ==
  ASSUME FullInv, FastInv, pc = "done", mode = "fast",
         NEW block, WellMade(block), Genuine(block), InBlock(block),
         ~(Len(input) < Last(block).num_data)
  PROVE  \E missing \in InOrder((1..Last(block).num_data) \ Held(block)) :
           outcome = Ok([i \in DOMAIN missing |-> [block[missing[i]] EXCEPT !.proof = <<>>]])
<1> DEFINE d == Last(block).num_data
           n == Len(block)
           M == (1..d) \ Held(block)
<1>1. PlaceInv
  BY DEF FullInv
<1>2. /\ d \in Nat /\ n \in Nat /\ d <= n
      /\ Len(input) \in Nat /\ \A k \in 1..n : Element(block, k)
  BY <1>1, BlockIs DEF PlaceInv, OrderOK, IsSeq
<1>3. Acceptable /\ Enough(d, Held(block))
  BY <1>1, <1>2, EnoughIsAcceptable
<1>4. Led /\ Answer(outcome)
  BY <1>3 DEF FastInv
<1>5. HeadOf(block)
  BY <1>4, HeadersAre
<1>6. \A i \in 1..Len(sorted) : At(i) \in Nat
  BY <1>1, PlacesKnown
<1>7. \A k \in 1..n : k \notin Held(block) => Restored[k] = [block[k] EXCEPT !.proof = <<>>]
  BY <1>3, <1>5, <1>6, RestoredIs
<1>8. ASSUME NEW k \in 1..n PROVE Extracted(k) <=> k \in M
  <2>1. /\ Found(k) <=> k \in Held(block)
        /\ header.num_data = d
    BY <1>5 DEF InBlock, HeadOf
  <2>2. CASE k \in Held(block)
    BY <2>1, <2>2 DEF Extracted
  <2>3. CASE k \notin Held(block)
    <3> DEFINE t == block[k]
    <3>1. /\ Parsed(t)
          /\ t.type = "data" <=> k <= d
          /\ t.type = "data" => HeaderMatches(t)
      BY <1>2 DEF Element
    <3>2. Restored[k] = [t EXCEPT !.proof = <<>>]
      BY <1>7, <2>3
    <3>3. /\ Restored[k].type = t.type /\ Restored[k].shard = t.shard
          /\ Restored[k].index = t.index /\ Restored[k].fec_set_index = t.fec_set_index
      BY <3>1, <3>2, Bare
    <3> HIDE DEF t
    <3>4. Extracted(k) <=> k <= d
      BY <2>1, <2>3, <3>1, <3>3 DEF Extracted, HeaderMatches
    <3> QED
      BY <1>2, <2>3, <3>4
  <2> QED
    BY <2>2, <2>3
<1>9. {k \in 1..NumShards : Extracted(k)} = M
  <2>1. NumShards = n /\ M \subseteq 1..n
    BY <1>2, <1>5 DEF HeadOf
  <2> HIDE DEF M
  <2> QED
    BY <1>8, <2>1
<1>10. PICK q \in InOrder(M) : outcome = Ok([i \in DOMAIN q |-> Restored[q[i]]])
  BY <1>4, <1>9 DEF Answer
<1>11. \A i \in DOMAIN q : Restored[q[i]] = [block[q[i]] EXCEPT !.proof = <<>>]
  <2>1. \A i \in DOMAIN q : q[i] \in M
    BY <1>10 DEF InOrder
  <2>2. \A k \in M : k \in 1..n /\ k \notin Held(block)
    BY <1>2
  <2> QED
    BY <1>7, <2>1, <2>2
<1>12. [i \in DOMAIN q |-> Restored[q[i]]] = [i \in DOMAIN q |-> [block[q[i]] EXCEPT !.proof = <<>>]]
  BY <1>11
<1> QED
  BY <1>10, <1>12

(* With its path back, a rebuilt shred is the one the leader made.         *)
LEMMA YieldedGivenBack ==
  ASSUME PlaceInv, Given, NEW block, WellMade(block), HeadOf(block), BatchIs(block),
         NEW k \in 1..Len(block), k \notin Held(block)
  PROVE  Yielded(k) = block[k]
<1> DEFINE s == block[k]
           path == Path(Hashes, k - 1)
           d == Depth(Hashes)
<1>1. k \in 1..NumShards /\ NumShards = Len(block) /\ Len(block) \in Nat
  BY BlockIs DEF HeadOf
<1>2. Element(block, k)
  BY BlockIs
<1>3. Parsed(s) /\ erasure_shard_index(s) = k - 1 /\ s = [f \in DOMAIN s |-> s[f]]
  BY <1>2 DEF Element
<1>4. PICK H : HashesFrom(H)
  BY HashesAre DEF PlaceInv, Given
<1>5. k - 1 \in Nat /\ merkle_root(s) = Ok(root(Tree(Hashes)))
  <2>1. merkle_root(s) = Ok(root(TreeOf(block)))
    BY RootIs
  <2> QED
    BY <1>1, <2>1 DEF HeadOf, Given
<1>6. Leads(Hashes, k - 1, merkle_node(s), s.proof)
  BY <1>3, <1>4, <1>5, VerifiedLeads
<1>7. /\ IsSeq(path) /\ Len(path) = d
      /\ \A i \in 1..d : path[i] = Entry(Beside(Hashes, (k - 1), i - 1))
  BY <1>1, PathOf
<1>8. k - 1 < Len(Hashes)
  BY <1>1, <1>4 DEF HashesFrom, Given
<1> HIDE DEF s, path, d
<1>9. Len(s.proof) = d /\ \A i \in 1..d : Entry(s.proof[i]) = Entry(Beside(Hashes, (k - 1), i - 1))
  BY <1>6, <1>8 DEF Leads, d
<1>10. IsSeq(s.proof) /\ \A e \in Range(s.proof) : Entry(e) = e
  BY <1>3 DEF Parsed, IsSeq
<1>11. \A i \in 1..d : s.proof[i] = path[i]
  <2>1. \A i \in 1..d : s.proof[i] \in Range(s.proof)
    BY <1>9, <1>10 DEF IsSeq
  <2> QED
    BY <1>7, <1>9, <1>10, <2>1
<1>12. s.proof = path
  <2>1. ASSUME NEW q, IsSeq(q), Len(q) = d PROVE q = [i \in 1..d |-> q[i]]
    <3>1. q \in Seq(Range(q))
      BY <2>1 DEF IsSeq
    <3> QED
      BY <2>1, <3>1
  <2>2. s.proof = [i \in 1..d |-> s.proof[i]] /\ path = [i \in 1..d |-> path[i]]
    BY <1>7, <1>9, <1>10, <2>1
  <2> QED
    BY <1>11, <2>2
<1>13. Yielded(k) = [batch[k] EXCEPT !.proof = path]
  BY DEF Yielded, path
<1>14. batch[k] = [s EXCEPT !.proof = <<>>]
  BY DEF BatchIs, s
<1>15. "proof" \in DOMAIN s
  BY <1>3 DEF Parsed, CommonFields
<1>16. [s EXCEPT !.proof = path] = s
  BY <1>3, <1>12, <1>15
<1>17. [[s EXCEPT !.proof = <<>>] EXCEPT !.proof = path] = [s EXCEPT !.proof = path]
  BY <1>15
<1> QED
  BY <1>13, <1>14, <1>16, <1>17 DEF s

LEMMA FullGivesBack ==
  ASSUME FullInv, FastInv, ItemsInOrder, Iterating,
         NEW block, WellMade(block), Genuine(block), InBlock(block), cursor = Len(block)
  PROVE  \E missing \in InOrder((1..Len(block)) \ Held(block)) :
           items = [i \in DOMAIN missing |-> Ok(block[missing[i]])]
<1> DEFINE n == Len(block)
           M == (1..n) \ Held(block)
<1>1. PlaceInv /\ Given
  BY DEF FullInv, GivenInv
<1>2. HeadOf(block) /\ BatchIs(block)
  BY <1>1, DecodedIs
<1>3. \A k \in 1..n : mask[k] <=> k \in Held(block)
  BY <1>2 DEF BatchIs
<1>4. Wanting(cursor) = M
  BY <1>3 DEF Wanting
<1>5. PICK q \in InOrder(M) : items = [i \in DOMAIN q |-> Ok(Yielded(q[i]))]
  BY <1>4 DEF ItemsInOrder
<1>6. \A i \in DOMAIN q : Yielded(q[i]) = block[q[i]]
  <2>1. \A i \in DOMAIN q : q[i] \in M
    BY <1>5 DEF InOrder
  <2>2. \A k \in M : Yielded(k) = block[k]
    BY <1>1, <1>2, YieldedGivenBack
  <2> QED
    BY <2>1, <2>2
<1>7. items = [i \in DOMAIN q |-> Ok(block[q[i]])]
  BY <1>5, <1>6
<1> QED
  BY <1>5, <1>7

(* From the shreds of one block, whatever the order they come in, a call   *)
(* gives back exactly the ones that are missing, in the order of the set   *)
(* and equal to what the leader signed, if they are as many as the block   *)
(* has data shreds and one of them is coding; with fewer it reports that   *)
(* (merkle.rs 687-778, 889-948).                                           *)
THEOREM GivesAllBack == Spec => []RecoveryComplete
<1> DEFINE I == FullInv /\ SortInv /\ FastInv /\ ItemsInOrder /\ \A block \in SoundBlocks : Ended(block)
<1>1. Init => I
  <2> SUFFICES ASSUME Init PROVE I
    OBVIOUS
  <2>1. FastInv /\ SortInv /\ ItemsInOrder /\ \A block \in SoundBlocks : Ended(block)
    BY DEF Init, FastInv, SortInv, ItemsInOrder, Ended, Iterating
  <2> QED
    BY <2>1, InitFull
<1>2. I /\ [Next]_vars => I'
  <2> SUFFICES ASSUME I, [Next]_vars PROVE I'
    OBVIOUS
  <2>1. FullInv'
    BY NextFull
  <2>2. SortInv'
    BY NextSorted DEF FullInv
  <2>3. FastInv'
    BY <2>1, NextFast
  <2>4. ItemsInOrder'
    BY <2>1, NextInOrder
  <2>5. \A block \in SoundBlocks : Ended(block)'
    BY <2>1, <2>2, NextEnded
  <2>6. SoundBlocks' = SoundBlocks
    OBVIOUS
  <2> QED
    BY <2>1, <2>2, <2>3, <2>4, <2>5
<1>3. I => RecoveryComplete
  <2> SUFFICES ASSUME I, NEW block \in SoundBlocks, pc = "done", Genuine(block)
               PROVE  GivesBack(block)
    BY DEF RecoveryComplete, GivesBack
  <2>1. WellMade(block) /\ InBlock(block) /\ Ended(block)
    BY SoundInBlock, SoundAssumption DEF FullInv, GenuineAreIn
  <2>2. CASE Len(input) < Last(block).num_data
    BY <2>1, <2>2 DEF Ended, GivesBack
  <2>3. CASE ~(Len(input) < Last(block).num_data)
    <3>1. outcome.ok
      BY <2>1, <2>3 DEF Ended
    <3>2. ASSUME mode = "fast"
          PROVE  \E missing \in InOrder((1..Last(block).num_data) \ Held(block)) :
                   outcome = Ok([i \in DOMAIN missing |-> [block[missing[i]] EXCEPT !.proof = <<>>]])
      BY <2>1, <2>3, <3>2, FastGivesBack
    <3>3. ASSUME mode = "full", cursor = Len(block)
          PROVE  \E missing \in InOrder((1..Len(block)) \ Held(block)) :
                   items = [i \in DOMAIN missing |-> Ok(block[missing[i]])]
      BY <2>1, <3>1, <3>3, FullGivesBack DEF Iterating
    <3> QED
      BY <2>3, <3>1, <3>2, <3>3 DEF GivesBack
  <2> QED
    BY <2>2, <2>3
<1> QED
  BY <1>1, <1>2, <1>3, PTL DEF Spec
=============================================================================
