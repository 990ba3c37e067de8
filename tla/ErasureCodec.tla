---------------------------- MODULE ErasureCodec ----------------------------
(***************************************************************************)
(* The Reed-Solomon library as recover uses it (merkle.rs 725-727,         *)
(* 851-853): a systematic code that rebuilds a set of shards from any      *)
(* `data` of them.  Column by column, the shards are the values of one     *)
(* polynomial of degree below `data` at the points 0, 1, 2, ...; the real  *)
(* library does the same over GF(2^8), here it is the field of the P       *)
(* integers modulo a small prime.                                          *)
(***************************************************************************)
EXTENDS Naturals, Sequences, FiniteSets, FiniteSetsExt

CONSTANT P      \* the size of the field, a prime

ASSUME FieldAssumption == P \in Nat /\ P > 1 /\ \A d \in 2..P - 1 : P % d # 0

Field == 0..P - 1

Minus(a, b) == (a + P - b) % P
Recip(a) == CHOOSE b \in Field : (a * b) % P = 1

(* The value at x of the polynomial through the points (i, y[i]), i \in I. *)
Interpolate(I, y, x) ==
    LET Weight(i) == FoldSet(LAMBDA j, acc : (acc * Minus(x, j) * Recip(Minus(i, j))) % P,
                             1, I \ {i})
    IN  FoldSet(LAMBDA i, acc : (acc + y[i] * Weight(i)) % P, 0, I)

(* The shards that reconstruct starts from: the first `data` present ones. *)
FirstPresent(data, present) ==
    {i \in present : Cardinality({j \in present : j < i}) < data}

(* reconstruct(shards): shards[i + 1] is [shard, present], a shard being a *)
(* tuple of field elements.  Present shards stay as they are, consistent   *)
(* with the others or not.                                                 *)
CanReconstruct(data, present) == Cardinality(present) >= data

Rebuild(data, shards) ==
    LET present == {i \in 0..Len(shards) - 1 : shards[i + 1].present}
        basis == FirstPresent(data, present)
        columns == UNION {DOMAIN shards[i + 1].shard : i \in basis}
    IN  [k \in DOMAIN shards |->
          IF shards[k].present THEN shards[k].shard
          ELSE [c \in columns |->
                  Interpolate(basis, [i \in basis |-> shards[i + 1].shard[c]], k - 1)]]
=============================================================================
