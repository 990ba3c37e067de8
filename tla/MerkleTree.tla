----------------------------- MODULE MerkleTree -----------------------------
(***************************************************************************)
(* The Merkle tree over the shreds of an erasure batch (merkle_tree.rs)    *)
(* and the way a shred carries and checks its path (merkle.rs 352-374,     *)
(* 587-606): pure functions, with the tree as one flat vector of nodes,    *)
(* leaves first, and all the index arithmetic on it.                       *)
(*                                                                         *)
(* SHA-256 is taken as collision-free: a hash is the tuple of what was     *)
(* hashed.  A proof entry is a hash cut to its first 20 bytes, and nodes   *)
(* are cut in the same way before they are joined.                         *)
(***************************************************************************)
EXTENDS Naturals, SequencesExt

(* Result values. *)
Ok(v) == [ok |-> TRUE, value |-> v]
Err(e) == [ok |-> FALSE, error |-> e]

-----------------------------------------------------------------------------
(* Hashes.                                                                 *)
SIZE_OF_MERKLE_ROOT == 32
SIZE_OF_MERKLE_PROOF_ENTRY == 20

MERKLE_HASH_PREFIX_LEAF == "0 SOLANA_MERKLE_SHREDS_LEAF"
MERKLE_HASH_PREFIX_NODE == "1 SOLANA_MERKLE_SHREDS_NODE"

hashv(parts) == [of |-> parts, bytes |-> SIZE_OF_MERKLE_ROOT]

(* &node[..SIZE_OF_MERKLE_PROOF_ENTRY] *)
Entry(node) == [node EXCEPT !.bytes = SIZE_OF_MERKLE_PROOF_ENTRY]

join_nodes(node, other) ==
    hashv(<<MERKLE_HASH_PREFIX_NODE, Entry(node), Entry(other)>>)

(* The leaf of a shred, of the payload from the signature to the proof. *)
get_merkle_node(content) == hashv(<<MERKLE_HASH_PREFIX_LEAF, content>>)

-----------------------------------------------------------------------------
(* Building the tree.                                                      *)
Smaller(a, b) == IF a <= b THEN a ELSE b

(* (size + 1) >> 1, the size of the next layer.  Slip: rounded down. *)
HalfRoundedDown(size) == size \div 2
Half(size) == (size + 1) \div 2

(* The loop body of try_new: the joins of the last `size` nodes, where the *)
(* last one of an odd layer is joined with itself.                         *)
AddLayer(nodes, size) ==
    LET offset == Len(nodes) - size
        At(index) == nodes[index + 1]
    IN  nodes \o [i \in 1..Half(size) |->
          LET index == offset + 2 * (i - 1)
          IN  join_nodes(At(index), At(Smaller(index + 1, offset + size - 1)))]

(* successors(init, |&k| (k > 2).then_some((k + 1) >> 1)) *)
InnerSizes[size \in Nat] ==
    IF size <= 1 THEN <<>> ELSE <<size>> \o InnerSizes[Half(size)]

(* try_new of a non-empty sequence of Result<Hash>. *)
try_new(shreds) ==
    LET bad == SelectInSeq(shreds, LAMBDA s : ~s.ok)
    IN  IF shreds = <<>> THEN Err("EmptyIterator")
        ELSE IF bad # 0 THEN shreds[bad]
        ELSE Ok(FoldLeft(AddLayer, [i \in DOMAIN shreds |-> shreds[i].value],
                         InnerSizes[Len(shreds)]))

root(nodes) == Last(nodes)

get_merkle_tree_size[k \in Nat] ==
    IF k > 1 THEN k + get_merkle_tree_size[Half(k)] ELSE k

-----------------------------------------------------------------------------
(* Proofs.                                                                 *)

(* The sibling the iterator looks up.  Slip: without the .min(size - 1).   *)
UnclampedProofSibling(index, size) == IF index % 2 = 0 THEN index + 1 ELSE index - 1
ProofSibling(index, size) ==
    Smaller(IF index % 2 = 0 THEN index + 1 ELSE index - 1, size - 1)

(* The iterator has reached the root.  Slip: not checked.                  *)
StopsAnywhere(offset, len) == TRUE
AtRoot(offset, len) == offset + 1 = len

(* The items make_merkle_proof yields up to the end or to the first Err;   *)
(* past an Err the iterator repeats it and no caller reads on.             *)
make_merkle_proof(nodes, claimed, leaves) ==
    LET Items[it \in Nat \X Nat \X Nat] ==
          LET offset == it[1]
              size == it[2]
              index == it[3]
              at == offset + ProofSibling(index, size)
          IN  IF size > 1
              THEN IF at < Len(nodes)
                   THEN <<Ok(Entry(nodes[at + 1]))>>
                          \o Items[<<offset + size, Half(size), index \div 2>>]
                   ELSE <<Err("InvalidMerkleProof")>>
              ELSE IF AtRoot(offset, Len(nodes)) THEN <<>>
              ELSE <<Err("InvalidMerkleProof")>>
    IN  IF claimed >= leaves THEN Items[<<Len(nodes), 0, claimed>>]
        ELSE Items[<<0, leaves, claimed>>]

(* Slip: the side a node is joined on is not taken from its index. *)
AlwaysLeft(index, node, other) == join_nodes(node, other)

Parent(index, node, other) ==
    IF index % 2 = 0 THEN join_nodes(node, other) ELSE join_nodes(other, node)

(* The fold over the proof must use the index up. *)
get_merkle_root(claimed, leaf, proof) ==
    LET Climb(below, other) == <<below[1] \div 2, Parent(below[1], below[2], other)>>
        top == FoldLeft(Climb, <<claimed, leaf>>, proof)
    IN  IF top[1] = 0 THEN Ok(top[2]) ELSE Err("InvalidMerkleProof")

(* The number of bits of n; leading_zeros of a usize. *)
Bits[n \in Nat] == IF n = 0 THEN 0 ELSE 1 + Bits[n \div 2]

is_power_of_two[n \in Nat] == n = 1 \/ (n > 1 /\ n % 2 = 0 /\ is_power_of_two[n \div 2])

get_proof_size(num_shreds) ==
    LET bits == Bits[num_shreds]
    IN  IF is_power_of_two[num_shreds] THEN bits - 1 ELSE bits

(* set_merkle_proof: what the proof field of a shred with room for         *)
(* proof_size entries holds after the items have been written to it.       *)
set_merkle_proof(items, proof_size) ==
    LET bad == SelectInSeq(items, LAMBDA i : ~i.ok)
    IN  IF bad # 0 /\ bad <= proof_size THEN items[bad]
        ELSE IF Len(items) # proof_size THEN Err("InvalidMerkleProof")
        ELSE Ok([i \in DOMAIN items |-> items[i].value])
=============================================================================
