---------------------------- MODULE MCMerkleTree ----------------------------
(***************************************************************************)
(* A leader that builds the tree of a batch and a receiver that checks     *)
(* claims "this content is leaf number `claimed`": every content, every    *)
(* proof the tree hands out, whole or cut short, for every claimed index.  *)
(***************************************************************************)
EXTENDS TreeDefinition

CONSTANTS
    a, b,       \* two contents
    Content,    \* what a leaf can hold
    MaxLeaves   \* the largest batch

ASSUME MaxLeavesAssumption == MaxLeaves \in Nat

VARIABLES
    leaves,     \* the contents of the leaves so far
    nodes,      \* the tree, or <<>>
    items,      \* what make_merkle_proof yielded for the last request
    request,    \* <<index, size>> of that request
    claim       \* the last claim checked, with its verdict

mcVars == <<leaves, nodes, items, request, claim>>

NoRequest == <<>>
NoClaim == [index |-> 0, content |-> {}, accepted |-> FALSE]

Init ==
    /\ leaves = <<>>
    /\ nodes = <<>>
    /\ items = <<>>
    /\ request = NoRequest
    /\ claim = NoClaim

Append1(c) ==
    /\ nodes = <<>>
    /\ Len(leaves) < MaxLeaves
    /\ leaves' = Append(leaves, c)
    /\ UNCHANGED <<nodes, items, request, claim>>

Build ==
    /\ nodes = <<>>
    /\ leaves # <<>>
    /\ nodes' = try_new([i \in DOMAIN leaves |-> Ok(get_merkle_node(leaves[i]))]).value
    /\ UNCHANGED <<leaves, items, request, claim>>

Prove(index, size) ==
    /\ nodes # <<>>
    /\ request = NoRequest
    /\ request' = <<index, size>>
    /\ items' = make_merkle_proof(nodes, index, size)
    /\ UNCHANGED <<leaves, nodes, claim>>

(* Check a claim with the first `length` entries of the proof. *)
Check(index, content, length) ==
    /\ request # NoRequest
    /\ claim = NoClaim
    /\ \A i \in DOMAIN items : items[i].ok
    /\ LET proof == [i \in 1..length |-> items[i].value]
       IN  claim' = [index |-> index, content |-> content,
                     accepted |-> get_merkle_root(index, get_merkle_node(content), proof)
                                    = Ok(root(nodes))]
    /\ UNCHANGED <<leaves, nodes, items, request>>

Restart ==
    /\ request # NoRequest
    /\ items' = <<>>
    /\ request' = NoRequest
    /\ claim' = NoClaim
    /\ UNCHANGED <<leaves, nodes>>

Next ==
    \/ \E c \in Content : Append1(c)
    \/ Build
    \/ \E index \in 0..MaxLeaves, size \in 0..MaxLeaves : Prove(index, size)
    \/ \E index \in 0..2 * MaxLeaves, c \in Content, n \in 0..Len(items) : Check(index, c, n)
    \/ Restart

Spec == Init /\ [][Next]_mcVars

-----------------------------------------------------------------------------
Hashes == [i \in DOMAIN leaves |-> get_merkle_node(leaves[i])]

(* The flat vector is the tree, level after level, and get_merkle_tree_size*)
(* is its length (the debug_assert at merkle_tree.rs 48).                  *)
LayoutIsTree ==
    nodes # <<>> => nodes = Tree(Hashes) /\ Len(nodes) = get_merkle_tree_size[Len(leaves)]

(* A proof asked for an existing leaf of the tree fits the proof field of  *)
(* a shred of this batch (get_proof_size, merkle_tree.rs 116) and leads    *)
(* from the leaf to the root.                                              *)
EveryLeafProvable ==
    (request # NoRequest /\ request[2] = Len(leaves) /\ request[1] < Len(leaves)) =>
      LET proof == set_merkle_proof(items, get_proof_size(Len(leaves)))
      IN  /\ proof.ok
          /\ get_merkle_root(request[1], get_merkle_node(leaves[request[1] + 1]), proof.value)
               = Ok(root(nodes))

(* A request for another batch size or for no leaf at all never yields a   *)
(* proof that could be stored (merkle_tree.rs 62-64, 76-80).               *)
WrongRequestFails ==
    (request # NoRequest /\ (request[2] # Len(leaves) \/ request[1] >= Len(leaves))) =>
      \E i \in DOMAIN items : ~items[i].ok

(* An accepted claim is true: the content is the leaf at that index, for   *)
(* whatever leaf the proof was made and however it was cut.  Past the last *)
(* leaf only the copies of an odd level's last node are accepted, and      *)
(* never an index that the proof does not use up.                          *)
AcceptedClaimsHold ==
    claim.accepted =>
      /\ claim.index < Len(leaves) => claim.content = leaves[claim.index + 1]
      /\ claim.index >= Len(leaves) =>
           /\ claim.index < PowerOfTwo[Depth(Hashes)]
           /\ \E i \in DOMAIN leaves : leaves[i] = claim.content
=============================================================================
