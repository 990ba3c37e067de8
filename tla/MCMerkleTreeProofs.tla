-------------------------- MODULE MCMerkleTreeProofs --------------------------
(***************************************************************************)
(* The leader and the receiver of module MCMerkleTree, for batches of any  *)
(* size and any contents: what the run checks on small batches holds of    *)
(* all of them.                                                            *)
(***************************************************************************)
EXTENDS MCMerkleTree, MerkleTreeProofs

(* The last claim was checked with a part of a proof handed out. *)
ClaimChecked ==
    /\ request # NoRequest /\ AllOk(items) /\ claim.index \in Nat
    /\ \E length \in 0..Len(items) :
         get_merkle_root(claim.index, get_merkle_node(claim.content),
                         [i \in 1..length |-> items[i].value]) = Ok(root(nodes))

TreeInv ==
    /\ leaves \in Seq(Content)
    /\ nodes # <<>> => leaves # <<>> /\ nodes = Tree(Hashes)
    /\ request # NoRequest =>
         /\ nodes # <<>>
         /\ request[1] \in Nat /\ request[2] \in Nat
         /\ items = make_merkle_proof(nodes, request[1], request[2])
    /\ claim.accepted => ClaimChecked

LEMMA HashesAre ==
  \E H : /\ Closed(H)
         /\ \A q \in Seq(Content) :
              LET h == [i \in DOMAIN q |-> get_merkle_node(q[i])]
              IN  /\ h \in Seq(H) /\ Len(h) = Len(q)
                  /\ LeavesOnly(h) /\ DOMAIN h = DOMAIN q
                  /\ \A i \in DOMAIN q : h[i] = get_merkle_node(q[i])
<1>1. PICK H : {get_merkle_node(c) : c \in Content} \subseteq H /\ Closed(H)
  BY Closure
<1>2. ASSUME NEW q \in Seq(Content)
      PROVE  LET h == [i \in DOMAIN q |-> get_merkle_node(q[i])]
             IN  /\ h \in Seq(H) /\ Len(h) = Len(q)
                 /\ LeavesOnly(h) /\ DOMAIN h = DOMAIN q
                 /\ \A i \in DOMAIN q : h[i] = get_merkle_node(q[i])
  <2> DEFINE h == [i \in DOMAIN q |-> get_merkle_node(q[i])]
             n == Len(q)
  <2>1. n \in Nat /\ DOMAIN q = 1..n /\ \A i \in 1..n : q[i] \in Content
    OBVIOUS
  <2> HIDE DEF n
  <2>2. h \in [1..n -> H]
    BY <1>1, <2>1
  <2>3. h \in Seq(H) /\ Len(h) = n
    <3> HIDE DEF h
    <3> QED
      BY <2>1, <2>2
  <2>4. LeavesOnly(h)
    BY DEF LeavesOnly
  <2>5. DOMAIN h = DOMAIN q /\ \A i \in DOMAIN q : h[i] = get_merkle_node(q[i])
    OBVIOUS
  <2> QED
    BY <2>3, <2>4, <2>5 DEF n
<1> QED
  BY <1>1, <1>2

LEMMA HashesNow ==
  ASSUME leaves \in Seq(Content), leaves # <<>>
  PROVE  \E H : /\ Closed(H) /\ Hashes \in Seq(H) /\ Len(Hashes) = Len(leaves) /\ Len(Hashes) # 0
                /\ LeavesOnly(Hashes)
                /\ \A i \in 1..Len(leaves) : Hashes[i] = get_merkle_node(leaves[i])
<1>1. DOMAIN leaves = 1..Len(leaves) /\ Len(leaves) # 0
  OBVIOUS
<1> QED
  BY <1>1, HashesAre DEF Hashes

LEMMA OkTells == \A v : Ok(v).ok /\ Ok(v).value = v
BY DEF Ok

LEMMA InitTree == Init => TreeInv
BY DEF Init, TreeInv, NoRequest, NoClaim

LEMMA BuildTree == ASSUME TreeInv, Build PROVE TreeInv'
<1>1. leaves \in Seq(Content) /\ leaves # <<>>
  BY DEF TreeInv, Build
<1>2. PICK H : /\ Closed(H) /\ Hashes \in Seq(H) /\ Len(Hashes) = Len(leaves) /\ Len(Hashes) # 0
               /\ \A i \in 1..Len(leaves) : Hashes[i] = get_merkle_node(leaves[i])
  BY <1>1, HashesNow
<1> DEFINE n == Len(leaves)
           shreds == [i \in DOMAIN leaves |-> Ok(get_merkle_node(leaves[i]))]
<1>3. n \in Nat /\ n # 0 /\ DOMAIN leaves = 1..n
  BY <1>1
<1> HIDE DEF n
<1>4. \A i \in 1..n : shreds[i] = Ok(get_merkle_node(leaves[i])) /\ get_merkle_node(leaves[i]) \in H
  <2>1. \A i \in 1..n : Hashes[i] \in H
    BY <1>2, <1>3 DEF n
  <2> QED
    BY <1>2, <1>3, <2>1 DEF n
<1>5. IsSeq(shreds) /\ Len(shreds) = n
  <2>1. shreds = [i \in 1..n |-> shreds[i]]
    BY <1>3
  <2> HIDE DEF shreds
  <2> QED
    BY <1>3, <2>1, FunctionIsSeq
<1> HIDE DEF shreds
<1>6. ASSUME NEW i \in 1..n
      PROVE  shreds[i].ok /\ shreds[i] = Ok(shreds[i].value) /\ shreds[i].value \in H
             /\ shreds[i].value = get_merkle_node(leaves[i])
  BY <1>4, OkTells
<1>7. try_new(shreds) = Ok(Tree([i \in 1..n |-> shreds[i].value]))
  BY <1>2, <1>3, <1>5, <1>6, TryNew DEF IsSeq
<1>8. [i \in 1..n |-> shreds[i].value] = Hashes
  <2>1. [i \in 1..n |-> shreds[i].value] = [i \in 1..n |-> get_merkle_node(leaves[i])]
    BY <1>6
  <2> QED
    BY <1>3, <2>1 DEF Hashes
<1>9. nodes' = Tree(Hashes)
  <2>1. nodes' = try_new(shreds).value
    BY DEF Build, shreds
  <2> QED
    BY <1>7, <1>8, <2>1, OkTells, Zenon
<1>10. UNCHANGED <<leaves, items, request, claim>> /\ nodes = <<>>
  BY DEF Build
<1>11. Hashes' = Hashes
  BY <1>10 DEF Hashes
<1>12. request = NoRequest /\ ~claim.accepted
  BY <1>10 DEF TreeInv, ClaimChecked
<1> QED
  BY <1>1, <1>9, <1>10, <1>11, <1>12 DEF TreeInv

LEMMA NextTree == TreeInv /\ [Next]_mcVars => TreeInv'
<1> SUFFICES ASSUME TreeInv, [Next]_mcVars PROVE TreeInv'
  OBVIOUS
<1>1. ASSUME NEW c \in Content, Append1(c) PROVE TreeInv'
  <2>1. request = NoRequest /\ ~claim.accepted /\ nodes = <<>>
    BY <1>1 DEF TreeInv, ClaimChecked, Append1
  <2>2. leaves' \in Seq(Content)
    BY <1>1 DEF TreeInv, Append1
  <2> QED
    BY <1>1, <2>1, <2>2 DEF TreeInv, Append1
<1>2. CASE Build
  BY <1>2, BuildTree
<1>3. ASSUME NEW index \in 0..MaxLeaves, NEW size \in 0..MaxLeaves, Prove(index, size) PROVE TreeInv'
  <2>1. ~claim.accepted
    BY <1>3 DEF TreeInv, ClaimChecked, Prove
  <2>2. Hashes' = Hashes
    BY <1>3 DEF Hashes, Prove
  <2>3. request'[1] = index /\ request'[2] = size /\ index \in Nat /\ size \in Nat
    BY <1>3, MaxLeavesAssumption DEF Prove
  <2> QED
    BY <1>3, <2>1, <2>2, <2>3 DEF TreeInv, Prove
<1>4. ASSUME NEW index \in 0..2 * MaxLeaves, NEW c \in Content, NEW n \in 0..Len(items),
             Check(index, c, n)
      PROVE  TreeInv'
  <2>1. Hashes' = Hashes /\ UNCHANGED <<leaves, nodes, items, request>> /\ request # NoRequest
    BY <1>4 DEF Hashes, Check
  <2>2. /\ claim'.index = index /\ claim'.content = c
        /\ claim'.accepted =>
             get_merkle_root(index, get_merkle_node(c), [i \in 1..n |-> items[i].value]) = Ok(root(nodes))
    BY <1>4 DEF Check
  <2>3. AllOk(items)
    BY <1>4 DEF AllOk, Check
  <2>4. index \in Nat
    BY MaxLeavesAssumption
  <2>5. claim'.accepted => ClaimChecked'
    BY <2>1, <2>2, <2>3, <2>4 DEF ClaimChecked, NoRequest, AllOk
  <2> QED
    BY <2>1, <2>5 DEF TreeInv, NoRequest
<1>5. CASE Restart
  <2>1. Hashes' = Hashes /\ ~claim'.accepted
    BY <1>5 DEF Hashes, Restart, NoClaim
  <2> QED
    BY <1>5, <2>1 DEF TreeInv, Restart, NoRequest
<1>6. CASE UNCHANGED mcVars
  BY <1>6 DEF mcVars, TreeInv, ClaimChecked, Hashes, NoRequest, AllOk
<1> QED
  BY <1>1, <1>2, <1>3, <1>4, <1>5, <1>6 DEF Next

LEMMA AlwaysTree == Spec => []TreeInv
BY InitTree, NextTree, PTL DEF Spec

-----------------------------------------------------------------------------
(* The flat vector that try_new builds by index arithmetic (merkle_tree.rs *)
(* 22-49) is the tree, level after level, for every batch; the             *)
(* debug_assert on its length cannot fail.                                 *)
THEOREM FlatVectorIsTree == Spec => []LayoutIsTree
<1>1. ASSUME TreeInv, nodes # <<>> PROVE nodes = Tree(Hashes) /\ Len(nodes) = get_merkle_tree_size[Len(leaves)]
  <2>1. leaves \in Seq(Content) /\ leaves # <<>> /\ nodes = Tree(Hashes)
    BY <1>1 DEF TreeInv
  <2>2. PICK H : Closed(H) /\ Hashes \in Seq(H) /\ Len(Hashes) = Len(leaves) /\ Len(Hashes) # 0
    BY <2>1, HashesNow
  <2>3. Len(Tree(Hashes)) = get_merkle_tree_size[Len(Hashes)]
    BY <2>2, TreeSizes
  <2> QED
    BY <2>1, <2>2, <2>3
<1>2. TreeInv => LayoutIsTree
  BY <1>1 DEF LayoutIsTree
<1> QED
  BY <1>2, AlwaysTree, PTL

(* Every leaf of every batch gets a proof from make_merkle_proof that fits *)
(* its shred's proof field and leads get_merkle_root to the root           *)
(* (merkle_tree.rs 56-113, merkle.rs 587-606).                             *)
THEOREM LeavesAreProvable == Spec => []EveryLeafProvable
<1>1. ASSUME TreeInv, request # NoRequest, request[2] = Len(leaves), request[1] < Len(leaves)
      PROVE  LET proof == set_merkle_proof(items, get_proof_size(Len(leaves)))
             IN  /\ proof.ok
                 /\ get_merkle_root(request[1], get_merkle_node(leaves[request[1] + 1]), proof.value)
                      = Ok(root(nodes))
  <2> DEFINE index == request[1]
  <2>1. /\ leaves \in Seq(Content) /\ leaves # <<>> /\ nodes = Tree(Hashes) /\ index \in Nat
        /\ items = make_merkle_proof(Tree(Hashes), index, Len(leaves))
    BY <1>1 DEF TreeInv
  <2>2. PICK H : /\ Closed(H) /\ Hashes \in Seq(H) /\ Len(Hashes) = Len(leaves) /\ Len(Hashes) # 0
                 /\ \A i \in 1..Len(leaves) : Hashes[i] = get_merkle_node(leaves[i])
    BY <2>1, HashesNow
  <2>3. index \in 0..Len(Hashes) - 1 /\ index + 1 \in 1..Len(leaves)
    BY <1>1, <2>1, <2>2
  <2> HIDE DEF index
  <2>4. Siblings(Hashes, index, items)
    BY <2>1, <2>2, <2>3, PathYielded
  <2>5. set_merkle_proof(items, get_proof_size(Len(leaves))) = Ok(Path(Hashes, index))
    BY <2>2, <2>4, PathStored
  <2> DEFINE path == Path(Hashes, index)
             d == Depth(Hashes)
  <2>6. d \in Nat
    BY <2>2, DepthIs
  <2> HIDE DEF d
  <2>7. path = [i \in 1..d |-> path[i]] /\ \A i \in 1..d : path[i] = Entry(Beside(Hashes, index, i - 1))
    BY DEF Path, d
  <2> HIDE DEF path
  <2>8. IsSeq(path) /\ Len(path) = d
    BY <2>6, <2>7, FunctionIsSeq
  <2>9. \A i \in 1..d : Entry(path[i]) = Entry(Beside(Hashes, index, i - 1))
    BY <2>7, EntryTwice
  <2>10. get_merkle_root(index, Hashes[index + 1], path) = Ok(root(Tree(Hashes)))
    BY <2>2, <2>3, <2>8, <2>9, PathLeads DEF IsSeq, d
  <2>11. Hashes[index + 1] = get_merkle_node(leaves[index + 1])
    BY <2>2, <2>3
  <2> QED
    BY <2>1, <2>5, <2>10, <2>11, OkTells, Zenon DEF index, path
<1>2. TreeInv => EveryLeafProvable
  BY <1>1 DEF EveryLeafProvable
<1> QED
  BY <1>2, AlwaysTree, PTL

(* No other request yields a proof that could be stored (merkle_tree.rs    *)
(* 62-64, 76-80): a wrong batch size never ends at the root by chance.     *)
THEOREM WrongRequestsFail == Spec => []WrongRequestFails
<1>1. ASSUME TreeInv, request # NoRequest, \A i \in DOMAIN items : items[i].ok
      PROVE  request[2] = Len(leaves) /\ request[1] < Len(leaves)
  <2>1. /\ leaves \in Seq(Content) /\ leaves # <<>> /\ request[1] \in Nat /\ request[2] \in Nat
        /\ items = make_merkle_proof(Tree(Hashes), request[1], request[2])
    BY <1>1 DEF TreeInv
  <2>2. PICK H : Closed(H) /\ Hashes \in Seq(H) /\ Len(Hashes) = Len(leaves) /\ Len(Hashes) # 0
    BY <2>1, HashesNow
  <2>3. AllOk(make_merkle_proof(Tree(Hashes), request[1], request[2]))
    BY <1>1, <2>1 DEF AllOk
  <2> QED
    BY <2>1, <2>2, <2>3, OnlyThatRequest
<1>2. ASSUME TreeInv, request # NoRequest, request[2] # Len(leaves) \/ request[1] >= Len(leaves)
      PROVE  \E i \in DOMAIN items : ~items[i].ok
  <2> SUFFICES ASSUME \A i \in DOMAIN items : items[i].ok PROVE FALSE
    OBVIOUS
  <2>1. request[2] = Len(leaves) /\ request[1] < Len(leaves)
    BY <1>1, <1>2
  <2>2. request[1] \in Nat /\ Len(leaves) \in Nat
    BY <1>2 DEF TreeInv
  <2> QED
    BY <1>2, <2>1, <2>2
<1>3. TreeInv => WrongRequestFails
  BY <1>2 DEF WrongRequestFails
<1> QED
  BY <1>3, AlwaysTree, PTL

(* Whatever entries a receiver is shown, made by the tree or made up, and  *)
(* however many: what get_merkle_root (merkle_tree.rs 82-113) leads to the *)
(* root of a batch is the content of one of its leaves, of the very leaf   *)
(* at that index if there is one, and the index lies within the tree.      *)
THEOREM OnlyLeavesVerify ==
  ASSUME NEW batch \in Seq(Content), batch # <<>>,
         NEW index \in Nat, NEW content, NEW E, NEW proof \in Seq(E),
         get_merkle_root(index, get_merkle_node(content), proof) =
           Ok(root(Tree([i \in DOMAIN batch |-> get_merkle_node(batch[i])])))
  PROVE  /\ index < Len(batch) => content = batch[index + 1]
         /\ index < PowerOfTwo[Depth([i \in DOMAIN batch |-> get_merkle_node(batch[i])])]
         /\ \E i \in DOMAIN batch : batch[i] = content
<1> DEFINE hashes == [i \in DOMAIN batch |-> get_merkle_node(batch[i])]
           leaf == get_merkle_node(content)
<1>1. DOMAIN batch = 1..Len(batch) /\ Len(batch) # 0 /\ Len(batch) \in Nat
  OBVIOUS
<1>2. PICK H : /\ Closed(H) /\ hashes \in Seq(H) /\ Len(hashes) = Len(batch) /\ Len(hashes) # 0
               /\ LeavesOnly(hashes)
               /\ \A i \in 1..Len(batch) : hashes[i] = get_merkle_node(batch[i])
  BY <1>1, HashesAre
<1>3. get_merkle_root(index, leaf, proof) = Ok(root(Tree(hashes)))
  OBVIOUS
<1> HIDE DEF hashes
<1>4. Leads(hashes, index, leaf, proof)
  BY <1>2, <1>3, Accepted
<1>5. ASSUME index < Len(batch) PROVE content = batch[index + 1]
  <2>1. leaf = hashes[index + 1]
    BY <1>2, <1>4, <1>5 DEF Leads
  <2>2. index + 1 \in 1..Len(batch)
    BY <1>1, <1>5
  <2>3. leaf = get_merkle_node(batch[index + 1])
    BY <1>2, <2>1, <2>2
  <2> QED
    BY <2>3, LeafTellsContent
<1>6. \E i \in DOMAIN batch : batch[i] = content
  <2>1. PICK k \in 1..Width(hashes, 0) : leaf = NodeAt(hashes, 0, k)
    BY <1>4 DEF Leads, OnTree
  <2>2. Levels(hashes)[0] = hashes
    BY <1>2, LevelsIn
  <2>3. k \in 1..Len(batch) /\ leaf = hashes[k]
    BY <1>2, <2>1, <2>2 DEF Width, NodeAt
  <2>4. leaf = get_merkle_node(batch[k])
    BY <1>2, <2>3
  <2> QED
    BY <1>1, <2>3, <2>4, LeafTellsContent
<1> QED
  BY <1>4, <1>5, <1>6 DEF Leads, hashes

(* What the receiver of the module accepts is true, for every content, and *)
(* whichever proof the tree hands out, whole or cut short (merkle_tree.rs  *)
(* 82-113): the index must be used up, so no inner node passes for a leaf  *)
(* and no leaf for another one.                                            *)
THEOREM AcceptedIsTrue == Spec => []AcceptedClaimsHold
<1>1. ASSUME TreeInv, claim.accepted
      PROVE  /\ claim.index < Len(leaves) => claim.content = leaves[claim.index + 1]
             /\ claim.index < PowerOfTwo[Depth(Hashes)]
             /\ \E i \in DOMAIN leaves : leaves[i] = claim.content
  <2> DEFINE index == claim.index
  <2>1. leaves \in Seq(Content) /\ leaves # <<>> /\ nodes = Tree(Hashes) /\ index \in Nat
    BY <1>1 DEF TreeInv, ClaimChecked
  <2>2. PICK length \in 0..Len(items) :
          get_merkle_root(index, get_merkle_node(claim.content), [i \in 1..length |-> items[i].value])
            = Ok(root(Tree(Hashes)))
    BY <1>1, <2>1 DEF TreeInv, ClaimChecked
  <2> DEFINE proof == [i \in 1..length |-> items[i].value]
  <2>3. length \in Nat /\ proof = [i \in 1..length |-> proof[i]]
    OBVIOUS
  <2>4. get_merkle_root(index, get_merkle_node(claim.content), proof) = Ok(root(Tree(Hashes)))
    BY <2>2
  <2> HIDE DEF proof
  <2>5. proof \in Seq(Range(proof))
    BY <2>3, FunctionIsSeq DEF IsSeq
  <2> HIDE DEF index
  <2> QED
    BY <2>1, <2>4, <2>5, OnlyLeavesVerify DEF Hashes, index
<1>2. TreeInv => AcceptedClaimsHold
  BY <1>1 DEF AcceptedClaimsHold
<1> QED
  BY <1>2, AlwaysTree, PTL
=============================================================================
