--------------------------- MODULE TreeDefinition ---------------------------
(***************************************************************************)
(* What the flat vector of module MerkleTree stands for: the tree level by *)
(* level, as it would be defined without any index arithmetic on one       *)
(* vector (the layout that the comments of merkle_tree.rs take for         *)
(* granted).                                                               *)
(***************************************************************************)
EXTENDS MerkleTree

(* A node joins its two children; the last one of an odd level is its own  *)
(* sibling.                                                                *)
Above(level) ==
    [i \in 1..(Len(level) + 1) \div 2 |->
       join_nodes(level[2 * i - 1],
                  level[IF 2 * i <= Len(level) THEN 2 * i ELSE 2 * i - 1])]

(* Level 0 are the hashes of the shreds. *)
Levels(hashes) ==
    LET L[l \in Nat] == IF l = 0 THEN hashes ELSE Above(L[l - 1])
    IN  L

Depth(hashes) ==
    CHOOSE d \in 0..Len(hashes) :
      /\ Len(Levels(hashes)[d]) = 1
      /\ \A e \in 0..d - 1 : Len(Levels(hashes)[e]) > 1

(* The levels below l, one after the other. *)
Below(hashes) ==
    LET B[l \in Nat] == IF l = 0 THEN <<>> ELSE B[l - 1] \o Levels(hashes)[l - 1]
    IN  B

Tree(hashes) == Below(hashes)[Depth(hashes) + 1]

PowerOfTwo[k \in Nat] == IF k = 0 THEN 1 ELSE 2 * PowerOfTwo[k - 1]
=============================================================================
