-------------------------- MODULE MerkleTreeProofs --------------------------
(***************************************************************************)
(* The Merkle tree of any number of shreds: the flat vector that try_new   *)
(* builds is the tree of module TreeDefinition, the iterator yields the    *)
(* siblings on the way to the root, and only such a proof leads there.     *)
(***************************************************************************)
EXTENDS TreeDefinition, DataInduction

-----------------------------------------------------------------------------
(* Hashes without collisions.                                              *)
IsHash(h) == h = hashv(h.of)

LEMMA JoinsAreHashes == \A a, b : IsHash(join_nodes(a, b))
BY DEF IsHash, join_nodes, hashv

LEMMA LeavesAreHashes == \A c : IsHash(get_merkle_node(c))
BY DEF IsHash, get_merkle_node, hashv

LEMMA EntryTellsHash ==
  ASSUME NEW a, NEW b, IsHash(a), IsHash(b), Entry(a) = Entry(b)
  PROVE  a = b
BY DEF IsHash, Entry, hashv

LEMMA JoinTellsChildren ==
  ASSUME NEW a, NEW b, NEW c, NEW d, join_nodes(a, b) = join_nodes(c, d)
  PROVE  Entry(a) = Entry(c) /\ Entry(b) = Entry(d)
BY DEF join_nodes, hashv

LEMMA LeafTellsContent ==
  ASSUME NEW c, NEW d, get_merkle_node(c) = get_merkle_node(d)
  PROVE  c = d
BY DEF get_merkle_node, hashv

LEMMA LeafIsNoJoin == \A c, a, b : get_merkle_node(c) # join_nodes(a, b)
BY DEF get_merkle_node, join_nodes, hashv, MERKLE_HASH_PREFIX_LEAF, MERKLE_HASH_PREFIX_NODE

(* All the nodes there can be above a set of them.                         *)
Closed(H) == \A a, b \in H : join_nodes(a, b) \in H

More(T) == T \cup {join_nodes(a, b) : a \in T, b \in T}

Stages(S, n, g) == g = [i \in 0..n |-> IF i = 0 THEN S ELSE More(g[i - 1])]

LEMMA StageByStage ==
  ASSUME NEW S, NEW n \in Nat, NEW g, Stages(S, n, g)
  PROVE  g[0] = S /\ \A i \in 0..n - 1 : g[i + 1] = More(g[i])
<1>1. g[0] = S
  BY DEF Stages
<1>2. ASSUME NEW i \in 0..n - 1 PROVE g[i + 1] = More(g[i])
  <2>1. i + 1 \in 0..n /\ i + 1 # 0 /\ (i + 1) - 1 = i
    OBVIOUS
  <2> QED
    BY <2>1 DEF Stages
<1> QED
  BY <1>1, <1>2

LEMMA AllStages == ASSUME NEW S PROVE \A n \in Nat : \E g : Stages(S, n, g)
<1> DEFINE N == {n \in Nat : \E g : Stages(S, n, g)}
<1>1. 0 \in N
  <2>1. Stages(S, 0, [i \in 0..0 |-> S])
    BY DEF Stages
  <2>2. \E g : Stages(S, 0, g)
    BY <2>1
  <2> QED
    BY <2>2
<1>2. ASSUME NEW n \in Nat, n \in N PROVE n + 1 \in N
  <2>1. PICK g : Stages(S, n, g)
    BY <1>2
  <2> DEFINE h == [i \in 0..n + 1 |-> IF i = n + 1 THEN More(g[n]) ELSE g[i]]
  <2>2. ASSUME NEW i \in 0..n + 1 PROVE h[i] = IF i = 0 THEN S ELSE More(h[i - 1])
    <3>1. CASE i = n + 1
      BY <3>1
    <3>2. CASE i # n + 1
      <4>1. i \in 0..n /\ (i # 0 => i - 1 \in 0..n)
        BY <3>2
      <4>2. g[i] = IF i = 0 THEN S ELSE More(g[i - 1])
        BY <4>1, <2>1 DEF Stages
      <4> QED
        BY <4>1, <4>2, <3>2
    <3> QED
      BY <3>1, <3>2
  <2>3. Stages(S, n + 1, h)
    BY <2>2 DEF Stages
  <2> HIDE DEF h
  <2>4. \E k : Stages(S, n + 1, k)
    BY <2>3
  <2> QED
    BY <2>4
<1>3. Nat \subseteq N
  <2> HIDE DEF N
  <2> QED
    BY <1>1, <1>2, SetInduction
<1> QED
  BY <1>3

LEMMA StagesAgree ==
  ASSUME NEW S, NEW n \in Nat, NEW m \in Nat, n <= m, NEW g, NEW h, Stages(S, n, g), Stages(S, m, h)
  PROVE  g[n] = h[n]
<1> DEFINE A == {k \in Nat : k <= n => g[k] = h[k]}
<1>1. 0 \in A
  BY StageByStage
<1>2. ASSUME NEW k \in Nat, k \in A PROVE k + 1 \in A
  <2> SUFFICES ASSUME k + 1 <= n PROVE g[k + 1] = h[k + 1]
    OBVIOUS
  <2>1. k \in 0..n - 1 /\ k \in 0..m - 1
    OBVIOUS
  <2>2. g[k + 1] = More(g[k])
    BY <2>1, StageByStage
  <2>3. h[k + 1] = More(h[k])
    BY <2>1, StageByStage
  <2>4. g[k] = h[k]
    BY <1>2
  <2> QED
    BY <2>2, <2>3, <2>4
<1>3. Nat \subseteq A
  <2> HIDE DEF A
  <2> QED
    BY <1>1, <1>2, SetInduction
<1> QED
  BY <1>3

LEMMA Closure ==
  ASSUME NEW S
  PROVE  \E H : S \subseteq H /\ Closed(H)
<1> DEFINE G(n) == CHOOSE g : Stages(S, n, g)
           T == [n \in Nat |-> G(n)[n]]
           H == UNION {T[n] : n \in Nat}
<1>1. \A n \in Nat : Stages(S, n, G(n))
  BY AllStages
<1> HIDE DEF G
<1>2. T[0] = S
  BY <1>1, StageByStage
<1>3. ASSUME NEW n \in Nat PROVE T[n + 1] = More(T[n])
  <2>1. n \in 0..(n + 1) - 1 /\ n <= n + 1 /\ n + 1 \in Nat
    OBVIOUS
  <2>2. G(n + 1)[n + 1] = More(G(n + 1)[n])
    BY <2>1, <1>1, StageByStage
  <2>3. G(n + 1)[n] = G(n)[n]
    BY <2>1, <1>1, StagesAgree
  <2> QED
    BY <2>1, <2>2, <2>3
<1> HIDE DEF T
<1>4. ASSUME NEW n \in Nat PROVE \A k \in Nat : T[n] \subseteq T[n + k]
  <2> DEFINE A == {k \in Nat : T[n] \subseteq T[n + k]}
  <2>1. 0 \in A
    OBVIOUS
  <2>2. ASSUME NEW k \in Nat, k \in A PROVE k + 1 \in A
    <3>1. n + k \in Nat /\ n + (k + 1) = (n + k) + 1
      OBVIOUS
    <3>2. T[n + (k + 1)] = More(T[n + k])
      BY <3>1, <1>3
    <3> QED
      BY <3>2, <2>2 DEF More
  <2>3. Nat \subseteq A
    <3> HIDE DEF A
    <3> QED
      BY <2>1, <2>2, SetInduction
  <2> QED
    BY <2>3
<1>5. ASSUME NEW a \in H, NEW b \in H PROVE join_nodes(a, b) \in H
  <2>1. PICK n \in Nat, m \in Nat : a \in T[n] /\ b \in T[m]
    OBVIOUS
  <2>2. n + m \in Nat /\ m + n = n + m /\ (n + m) + 1 \in Nat
    OBVIOUS
  <2>3. a \in T[n + m] /\ b \in T[n + m]
    BY <2>1, <2>2, <1>4
  <2>4. join_nodes(a, b) \in T[(n + m) + 1]
    BY <2>2, <2>3, <1>3 DEF More
  <2> QED
    BY <2>2, <2>4
<1>6. S \subseteq H
  BY <1>2
<1> QED
  BY <1>5, <1>6 DEF Closed

-----------------------------------------------------------------------------
(* The fold of get_merkle_root, step by step: up[i] and hash[i] are the    *)
(* index and the node after i entries of the proof.                        *)
Climbs(claimed, leaf, proof, up, hash) ==
    /\ \A i \in 0..Len(proof) : up[i] \in Nat
    /\ up[0] = claimed /\ hash[0] = leaf
    /\ \A i \in 1..Len(proof) :
         up[i] = up[i - 1] \div 2 /\ hash[i] = Parent(up[i - 1], hash[i - 1], proof[i])
    /\ get_merkle_root(claimed, leaf, proof) =
         IF up[Len(proof)] = 0 THEN Ok(hash[Len(proof)]) ELSE Err("InvalidMerkleProof")

LEMMA Climbing ==
  ASSUME NEW claimed \in Nat, NEW leaf, NEW E, NEW proof \in Seq(E)
  PROVE  \E up, hash : Climbs(claimed, leaf, proof, up, hash)
<1> DEFINE n == Len(proof)
           Climb(below, other) == <<below[1] \div 2, Parent(below[1], below[2], other)>>
           Fits(f) == f = [s \in SUBSET DOMAIN proof |->
                             IF s = {} THEN <<claimed, leaf>>
                             ELSE Climb(f[s \ {Max(s)}], proof[Max(s)])]
           g == CHOOSE f : Fits(f)
<1>1. n \in Nat /\ DOMAIN proof = 1..n
  OBVIOUS
<1>2. PICK H : {leaf} \cup Range(proof) \subseteq H /\ Closed(H)
  BY Closure
<1> DEFINE V == Nat \X H
           next == [x \in V \X (1..n) |-> Climb(x[1], proof[x[2]])]
<1>3. next \in [V \X (1..n) -> V]
  <2> SUFFICES ASSUME NEW v \in V, NEW i \in 1..n PROVE Climb(v, proof[i]) \in V
    OBVIOUS
  <2>1. v[1] \div 2 \in Nat
    OBVIOUS
  <2>2. proof[i] \in H
    BY <1>1, <1>2 DEF Range
  <2> QED
    BY <2>1, <2>2, <1>2 DEF Closed, Parent
<1>4. PICK f : f \in [SUBSET (1..n) -> V] /\ Folds(n, <<claimed, leaf>>, next, f)
  <2>1. <<claimed, leaf>> \in V
    BY <1>2
  <2> HIDE DEF V, next
  <2> QED
    BY <1>1, <1>3, <2>1, Fold
<1>5. Fits(f)
  <2>1. ASSUME NEW s \in SUBSET (1..n), s # {}
        PROVE  next[<<f[s \ {Max(s)}], Max(s)>>] = Climb(f[s \ {Max(s)}], proof[Max(s)])
    <3>1. Max(s) \in s
      BY <1>1, <2>1, MaxOf
    <3>2. Max(s) \in 1..n /\ f[s \ {Max(s)}] \in V
      BY <3>1, <1>4
    <3> QED
      BY <3>2
  <2> HIDE DEF V, next, Climb
  <2> QED
    BY <1>1, <1>4, <2>1 DEF Folds
<1>6. Fits(g)
  <2> HIDE DEF Fits
  <2> QED
    BY <1>5
<1>7. get_merkle_root(claimed, leaf, proof) =
        IF g[DOMAIN proof][1] = 0 THEN Ok(g[DOMAIN proof][2]) ELSE Err("InvalidMerkleProof")
  BY DEF get_merkle_root, FoldLeft, MapThenFoldSet
<1> HIDE DEF g
<1>8. g[{}] = <<claimed, leaf>>
  BY <1>6
<1>9. ASSUME NEW k \in 1..n PROVE g[1..k] = Climb(g[1..k - 1], proof[k])
  <2>1. Max(1..k) = k /\ (1..k) \ {k} = 1..k - 1
    BY MaxOfPrefix
  <2>2. 1..k \in SUBSET (1..n) /\ 1..k # {}
    <3>1. k \in Nat /\ 1 <= k /\ k <= n
      BY <1>1
    <3> HIDE DEF n
    <3>2. 1 \in 1..k /\ \A j \in 1..k : j \in 1..n
      BY <1>1, <3>1
    <3> QED
      BY <3>2
  <2> HIDE DEF Climb
  <2> QED
    BY <2>1, <2>2, <1>1, <1>6
<1> DEFINE up == [i \in 0..n |-> g[1..i][1]]
           hash == [i \in 0..n |-> g[1..i][2]]
<1>10. up[0] = claimed /\ hash[0] = leaf
  <2>1. 1..0 = {} /\ 0 \in 0..n
    BY <1>1
  <2> QED
    BY <2>1, <1>8
<1>11. ASSUME NEW i \in 1..n
       PROVE  up[i] = up[i - 1] \div 2 /\ hash[i] = Parent(up[i - 1], hash[i - 1], proof[i])
  <2>1. i \in 0..n /\ i - 1 \in 0..n
    BY <1>1
  <2> QED
    BY <2>1, <1>9
<1>12. ASSUME NEW i \in 0..n PROVE up[i] \in Nat
  <2> DEFINE A == {k \in Nat : k <= n => up[k] \in Nat}
  <2> HIDE DEF up
  <2>1. 0 \in A
    BY <1>10
  <2>2. ASSUME NEW k \in Nat, k \in A PROVE k + 1 \in A
    <3> SUFFICES ASSUME k + 1 <= n PROVE up[k + 1] \in Nat
      OBVIOUS
    <3>1. k + 1 \in 1..n /\ (k + 1) - 1 = k
      BY <1>1
    <3>2. up[k] \in Nat
      BY <3>1, <2>2
    <3>3. up[k + 1] = up[(k + 1) - 1] \div 2
      BY <3>1, <1>11
    <3> QED
      BY <3>1, <3>2, <3>3
  <2>3. Nat \subseteq A
    <3> HIDE DEF A
    <3> QED
      BY <2>1, <2>2, SetInduction
  <2> QED
    BY <2>3, <1>1
<1>13. up[n] = g[DOMAIN proof][1] /\ hash[n] = g[DOMAIN proof][2]
  BY <1>1
<1> HIDE DEF up, hash
<1>14. Climbs(claimed, leaf, proof, up, hash)
  BY <1>7, <1>10, <1>11, <1>12, <1>13 DEF Climbs
<1> QED
  BY <1>14

-----------------------------------------------------------------------------
(* Level by level. *)
LEMMA AboveIs ==
  ASSUME NEW H, Closed(H), NEW s \in Seq(H), Len(s) # 0
  PROVE  /\ Above(s) \in Seq(H) /\ Len(Above(s)) = Half(Len(s)) /\ Len(Above(s)) # 0
         /\ \A i \in 1..Half(Len(s)) :
              Above(s)[i] = join_nodes(s[2 * i - 1], s[IF 2 * i <= Len(s) THEN 2 * i ELSE 2 * i - 1])
<1> DEFINE n == Len(s)
           m == Half(n)
           At(i) == join_nodes(s[2 * i - 1], s[IF 2 * i <= n THEN 2 * i ELSE 2 * i - 1])
<1>1. n \in Nat /\ n # 0 /\ DOMAIN s = 1..n /\ \A i \in 1..n : s[i] \in H
  OBVIOUS
<1> HIDE DEF n
<1>2. m \in Nat /\ m # 0 /\ \A i \in 1..m : 2 * i - 1 \in 1..n /\ (2 * i <= n => 2 * i \in 1..n)
  BY <1>1 DEF Half
<1> HIDE DEF m
<1>3. ASSUME NEW i \in 1..m PROVE At(i) \in H
  BY <1>1, <1>2 DEF Closed
<1>4. Above(s) = [i \in 1..m |-> At(i)]
  BY DEF Above, Half, m, n
<1> HIDE DEF At
<1>5. Above(s) \in [1..m -> H]
  BY <1>3, <1>4
<1>6. Above(s) \in Seq(H) /\ Len(Above(s)) = m
  BY <1>2, <1>5
<1>7. \A i \in 1..m : Above(s)[i] = At(i)
  BY <1>4
<1> QED
  BY <1>2, <1>6, <1>7 DEF At, m, n

LEMMA LevelsIn ==
  ASSUME NEW H, Closed(H), NEW hashes \in Seq(H), Len(hashes) # 0
  PROVE  /\ Levels(hashes)[0] = hashes
         /\ \A l \in Nat : /\ Levels(hashes)[l] \in Seq(H) /\ Len(Levels(hashes)[l]) # 0
                           /\ Levels(hashes)[l + 1] = Above(Levels(hashes)[l])
<1> DEFINE V == {s \in Seq(H) : Len(s) # 0}
           measure == [l \in Nat |-> l]
           step == [x \in [Nat -> V] \X Nat |-> IF x[2] = 0 THEN hashes ELSE Above(x[1][x[2] - 1])]
           Fits(f) == f = [l \in Nat |-> IF l = 0 THEN hashes ELSE Above(f[l - 1])]
           L == CHOOSE f : Fits(f)
<1>1. \A s \in V : Above(s) \in V
  BY AboveIs
<1>2. hashes \in V
  OBVIOUS
<1> HIDE DEF V
<1>3. measure \in [Nat -> Nat]
  OBVIOUS
<1>4. step \in [[Nat -> V] \X Nat -> V]
  BY <1>1, <1>2
<1>5. LooksBelow(Nat, V, measure, step)
  <2> SUFFICES ASSUME NEW l \in Nat, NEW g \in [Nat -> V], NEW h \in [Nat -> V], Alike(Nat, measure, l, g, h)
               PROVE  step[<<g, l>>] = step[<<h, l>>]
    BY DEF LooksBelow
  <2>1. l # 0 => g[l - 1] = h[l - 1]
    BY DEF Alike
  <2> QED
    BY <2>1
<1>6. PICK f : Solves(Nat, V, step, f)
  <2> HIDE DEF measure, step
  <2> QED
    BY <1>2, <1>3, <1>4, <1>5, Recursion
<1>7. f \in [Nat -> V] /\ \A l \in Nat : f[l] = IF l = 0 THEN hashes ELSE Above(f[l - 1])
  BY <1>6 DEF Solves
<1>8. Fits(f)
  BY <1>7
<1>9. Fits(L)
  <2> HIDE DEF Fits
  <2> QED
    BY <1>8
<1>10. Levels(hashes) = L
  BY DEF Levels
<1> HIDE DEF L
<1>11. L[0] = hashes
  BY <1>9
<1>12. ASSUME NEW l \in Nat PROVE L[l + 1] = Above(L[l])
  <2>1. l + 1 \in Nat /\ l + 1 # 0 /\ (l + 1) - 1 = l
    OBVIOUS
  <2> QED
    BY <2>1, <1>9
<1>13. \A l \in Nat : L[l] \in V
  <2> DEFINE A == {l \in Nat : L[l] \in V}
  <2>1. 0 \in A
    BY <1>2, <1>11
  <2>2. ASSUME NEW l \in Nat, l \in A PROVE l + 1 \in A
    <3>1. L[l] \in V /\ L[l + 1] = Above(L[l])
      BY <2>2, <1>12
    <3>2. L[l + 1] \in V
      BY <3>1, <1>1
    <3> QED
      BY <3>2
  <2>3. Nat \subseteq A
    <3> HIDE DEF A
    <3> QED
      BY <2>1, <2>2, SetInduction
  <2> QED
    BY <2>3
<1> QED
  BY <1>10, <1>11, <1>12, <1>13 DEF V

Width(hashes, l) == Len(Levels(hashes)[l])

LEMMA Widths ==
  ASSUME NEW H, Closed(H), NEW hashes \in Seq(H), Len(hashes) # 0, NEW l \in Nat
  PROVE  /\ Width(hashes, l) \in Nat /\ Width(hashes, l) # 0
         /\ Width(hashes, l + 1) = Half(Width(hashes, l))
<1>1. Levels(hashes)[l] \in Seq(H) /\ Len(Levels(hashes)[l]) # 0
  BY LevelsIn
<1>2. Levels(hashes)[l + 1] = Above(Levels(hashes)[l])
  BY LevelsIn
<1>3. Len(Above(Levels(hashes)[l])) = Half(Len(Levels(hashes)[l]))
  BY <1>1, AboveIs
<1> QED
  BY <1>1, <1>2, <1>3 DEF Width

LEMMA DepthIs ==
  ASSUME NEW H, Closed(H), NEW hashes \in Seq(H), Len(hashes) # 0
  PROVE  /\ Depth(hashes) \in Nat /\ Width(hashes, Depth(hashes)) = 1
         /\ \A e \in 0..Depth(hashes) - 1 : Width(hashes, e) > 1
<1> DEFINE W(l) == Width(hashes, l)
           n == Len(hashes)
           T == {l \in Nat : W(l) = 1}
<1>1. \A l \in Nat : W(l) \in Nat /\ W(l) # 0 /\ W(l + 1) = Half(W(l))
  BY Widths
<1>2. W(0) = n /\ n \in Nat
  BY LevelsIn DEF Width
<1> HIDE DEF W, n
<1>3. ASSUME NEW d \in Nat, \A e \in 0..d - 1 : W(e) > 1
      PROVE  \A l \in Nat : l <= d => W(l) + l <= n
  <2> DEFINE A == {l \in Nat : l <= d => W(l) + l <= n}
  <2>1. 0 \in A
    BY <1>2
  <2>2. ASSUME NEW l \in Nat, l \in A PROVE l + 1 \in A
    <3> SUFFICES ASSUME l + 1 <= d PROVE W(l + 1) + (l + 1) <= n
      OBVIOUS
    <3>1. l \in 0..d - 1 /\ W(l) + l <= n
      BY <2>2
    <3>2. W(l) > 1 /\ W(l) \in Nat /\ W(l + 1) = Half(W(l))
      BY <3>1, <1>1, <1>3
    <3>3. \A w \in Nat : w > 1 => Half(w) + 1 <= w /\ Half(w) \in Nat
      BY DEF Half
    <3> QED
      BY <3>1, <3>2, <3>3, <1>2
  <2>3. Nat \subseteq A
    <3> HIDE DEF A
    <3> QED
      BY <2>1, <2>2, SetInduction
  <2> QED
    BY <2>3
<1>4. T # {}
  <2> SUFFICES ASSUME T = {} PROVE FALSE
    OBVIOUS
  <2>1. ASSUME NEW e \in 0..n - 1 PROVE W(e) > 1
    <3>1. e \in Nat /\ e \notin T
      BY <1>2
    <3>2. W(e) \in Nat /\ W(e) # 0 /\ W(e) # 1
      BY <3>1, <1>1
    <3> QED
      BY <3>2
  <2>2. \A l \in Nat : l <= n => W(l) + l <= n
    BY <1>2, <1>3, <2>1
  <2>3. W(n) + n <= n /\ W(n) \in Nat /\ W(n) # 0
    BY <1>1, <1>2, <2>2
  <2> QED
    BY <1>2, <2>3
<1>5. PICK d \in T : \A l \in T : d <= l
  BY <1>4, LeastElement
<1>6. ASSUME NEW e \in 0..d - 1 PROVE W(e) > 1
  <2>1. e \in Nat /\ ~(d <= e)
    OBVIOUS
  <2>2. e \notin T
    BY <2>1, <1>5
  <2>3. W(e) \in Nat /\ W(e) # 0 /\ W(e) # 1
    BY <2>1, <2>2, <1>1
  <2> QED
    BY <2>3
<1>7. d \in 0..n
  <2>1. W(d) + d <= n /\ W(d) = 1
    BY <1>3, <1>5, <1>6
  <2> QED
    BY <2>1, <1>2
<1>8. \E c \in 0..n : W(c) = 1 /\ \A e \in 0..c - 1 : W(e) > 1
  BY <1>5, <1>6, <1>7
<1>9. Depth(hashes) = CHOOSE c \in 0..n : W(c) = 1 /\ \A e \in 0..c - 1 : W(e) > 1
  BY DEF Depth, W, Width, n
<1> QED
  BY <1>2, <1>8, <1>9 DEF W

LEMMA BelowIn ==
  ASSUME NEW H, Closed(H), NEW hashes \in Seq(H), Len(hashes) # 0
  PROVE  /\ Below(hashes)[0] = <<>>
         /\ \A l \in Nat : /\ Below(hashes)[l] \in Seq(H)
                           /\ Below(hashes)[l + 1] = Below(hashes)[l] \o Levels(hashes)[l]
<1> DEFINE V == Seq(H)
           measure == [l \in Nat |-> l]
           L == Levels(hashes)
           step == [x \in [Nat -> V] \X Nat |-> IF x[2] = 0 THEN <<>> ELSE x[1][x[2] - 1] \o L[x[2] - 1]]
           Fits(f) == f = [l \in Nat |-> IF l = 0 THEN <<>> ELSE f[l - 1] \o L[l - 1]]
           B == CHOOSE f : Fits(f)
<1>1. <<>> \in V /\ \A s, t \in V : s \o t \in V
  OBVIOUS
<1>2. \A l \in Nat : L[l] \in V
  BY LevelsIn
<1> HIDE DEF V, L
<1>3. measure \in [Nat -> Nat]
  OBVIOUS
<1>4. step \in [[Nat -> V] \X Nat -> V]
  BY <1>1, <1>2
<1>5. LooksBelow(Nat, V, measure, step)
  <2> SUFFICES ASSUME NEW l \in Nat, NEW g \in [Nat -> V], NEW h \in [Nat -> V], Alike(Nat, measure, l, g, h)
               PROVE  step[<<g, l>>] = step[<<h, l>>]
    BY DEF LooksBelow
  <2>1. l # 0 => g[l - 1] = h[l - 1]
    BY DEF Alike
  <2> QED
    BY <2>1
<1>6. PICK f : Solves(Nat, V, step, f)
  <2> HIDE DEF measure, step
  <2> QED
    BY <1>1, <1>3, <1>4, <1>5, Recursion
<1>7. f \in [Nat -> V] /\ \A l \in Nat : f[l] = IF l = 0 THEN <<>> ELSE f[l - 1] \o L[l - 1]
  BY <1>6 DEF Solves
<1>8. Fits(f)
  BY <1>7
<1>9. Fits(B)
  <2> HIDE DEF Fits
  <2> QED
    BY <1>8
<1>10. Below(hashes) = B
  BY DEF Below, L
<1> HIDE DEF B
<1>11. B[0] = <<>>
  BY <1>9
<1>12. ASSUME NEW l \in Nat PROVE B[l + 1] = B[l] \o L[l]
  <2>1. l + 1 \in Nat /\ l + 1 # 0 /\ (l + 1) - 1 = l
    OBVIOUS
  <2> QED
    BY <2>1, <1>9
<1>13. \A l \in Nat : B[l] \in V
  <2> DEFINE A == {l \in Nat : B[l] \in V}
  <2>1. 0 \in A
    BY <1>1, <1>11
  <2>2. ASSUME NEW l \in Nat, l \in A PROVE l + 1 \in A
    <3>1. B[l] \in V /\ B[l + 1] = B[l] \o L[l]
      BY <2>2, <1>12
    <3>2. B[l + 1] \in V
      BY <3>1, <1>1, <1>2
    <3> QED
      BY <3>2
  <2>3. Nat \subseteq A
    <3> HIDE DEF A
    <3> QED
      BY <2>1, <2>2, SetInduction
  <2> QED
    BY <2>3
<1> QED
  BY <1>10, <1>11, <1>12, <1>13 DEF V, L

(* Where level l begins in the vector. *)
Offset(hashes, l) == Len(Below(hashes)[l])

LEMMA Offsets ==
  ASSUME NEW H, Closed(H), NEW hashes \in Seq(H), Len(hashes) # 0, NEW l \in Nat
  PROVE  /\ Offset(hashes, l) \in Nat /\ Offset(hashes, 0) = 0
         /\ Offset(hashes, l + 1) = Offset(hashes, l) + Width(hashes, l)
<1>1. Below(hashes)[l] \in Seq(H) /\ Levels(hashes)[l] \in Seq(H)
  BY LevelsIn, BelowIn
<1>2. Below(hashes)[l + 1] = Below(hashes)[l] \o Levels(hashes)[l]
  BY BelowIn
<1>3. Below(hashes)[0] = <<>>
  BY BelowIn
<1> QED
  BY <1>1, <1>2, <1>3 DEF Offset, Width

LEMMA Placed ==
  ASSUME NEW H, Closed(H), NEW hashes \in Seq(H), Len(hashes) # 0,
         NEW l \in Nat, NEW m \in Nat, l < m, NEW i \in 1..Width(hashes, l)
  PROVE  /\ Offset(hashes, l) + i \in 1..Offset(hashes, m)
         /\ Below(hashes)[m][Offset(hashes, l) + i] = Levels(hashes)[l][i]
<1> DEFINE B == Below(hashes)
           L == Levels(hashes)
           at == Offset(hashes, l) + i
           A == {k \in Nat : at \in 1..Offset(hashes, l + 1 + k) /\ B[l + 1 + k][at] = L[l][i]}
<1>1. \A k \in Nat : /\ B[k] \in Seq(H) /\ L[k] \in Seq(H)
                     /\ B[k + 1] = B[k] \o L[k]
                     /\ Len(B[k]) = Offset(hashes, k) /\ Len(L[k]) = Width(hashes, k)
  BY LevelsIn, BelowIn DEF Offset, Width
<1>2. i \in 1..Len(L[l])
  BY <1>1
<1>3. at = Len(B[l]) + i
  BY <1>1
<1> HIDE DEF B, L, at
<1>4. 0 \in A
  <2>1. l + 1 + 0 = l + 1 /\ l + 1 \in Nat
    OBVIOUS
  <2>2. B[l] \in Seq(H) /\ L[l] \in Seq(H)
    BY <1>1
  <2>3. at \in 1..Len(B[l + 1]) /\ B[l + 1][at] = L[l][i]
    <3>1. LET c == B[l] \o L[l] IN Len(B[l]) + i \in 1..Len(c) /\ c[Len(B[l]) + i] = L[l][i]
      BY <1>2, <2>2, InSecond
    <3>2. B[l + 1] = B[l] \o L[l]
      BY <1>1
    <3> QED
      BY <1>3, <3>1, <3>2, Zenon
  <2>4. Len(B[l + 1]) = Offset(hashes, l + 1)
    BY <1>1, <2>1
  <2> QED
    BY <2>1, <2>3, <2>4
<1>5. ASSUME NEW k \in Nat, k \in A PROVE k + 1 \in A
  <2> DEFINE j == l + 1 + k
  <2>1. j \in Nat /\ l + 1 + (k + 1) = j + 1 /\ j + 1 \in Nat /\ k + 1 \in Nat
    OBVIOUS
  <2>2. at \in 1..Offset(hashes, j) /\ B[j][at] = L[l][i]
    BY <1>5
  <2> HIDE DEF j
  <2>3. B[j] \in Seq(H) /\ L[j] \in Seq(H)
    BY <1>1, <2>1
  <2>4. Len(B[j]) = Offset(hashes, j) /\ Len(B[j + 1]) = Offset(hashes, j + 1)
    BY <1>1, <2>1
  <2>5. at \in 1..Len(B[j + 1]) /\ B[j + 1][at] = B[j][at]
    <3>1. at \in 1..Len(B[j])
      BY <2>2, <2>4
    <3>2. at \in 1..Len(B[j] \o L[j]) /\ (B[j] \o L[j])[at] = B[j][at]
      BY <2>3, <3>1, InFirst
    <3>3. B[j + 1] = B[j] \o L[j]
      BY <1>1, <2>1
    <3> QED
      BY <3>2, <3>3, Zenon
  <2> QED
    BY <2>1, <2>2, <2>4, <2>5
<1>6. Nat \subseteq A
  <2> HIDE DEF A
  <2> QED
    BY <1>4, <1>5, SetInduction
<1>7. m - l - 1 \in Nat /\ l + 1 + (m - l - 1) = m
  OBVIOUS
<1>8. m - l - 1 \in A
  BY <1>6, <1>7
<1> QED
  BY <1>7, <1>8 DEF B, L, at

-----------------------------------------------------------------------------
(* try_new builds the tree. *)
LEMMA Halves ==
  ASSUME NEW n \in Nat
  PROVE  /\ Half(n) \in Nat /\ (n # 0 => Half(n) # 0)
         /\ n > 1 => Half(n) < n
         /\ 2 * Half(n) = n \/ 2 * Half(n) = n + 1
BY DEF Half

LEMMA InnerSizesIs ==
  /\ InnerSizes \in [Nat -> Seq(Nat)]
  /\ \A n \in Nat : InnerSizes[n] = IF n <= 1 THEN <<>> ELSE <<n>> \o InnerSizes[Half(n)]
<1> DEFINE V == Seq(Nat)
           measure == [n \in Nat |-> n]
           step == [x \in [Nat -> V] \X Nat |->
                      IF x[2] <= 1 THEN <<>> ELSE <<x[2]>> \o x[1][Half(x[2])]]
           Fits(f) == f = [n \in Nat |-> IF n <= 1 THEN <<>> ELSE <<n>> \o f[Half(n)]]
           I == CHOOSE f : Fits(f)
<1>1. <<>> \in V /\ \A n \in Nat, s \in V : <<n>> \o s \in V
  OBVIOUS
<1> HIDE DEF V
<1>2. measure \in [Nat -> Nat]
  OBVIOUS
<1>3. step \in [[Nat -> V] \X Nat -> V]
  BY <1>1, Halves
<1>4. LooksBelow(Nat, V, measure, step)
  <2> SUFFICES ASSUME NEW n \in Nat, NEW g \in [Nat -> V], NEW h \in [Nat -> V], Alike(Nat, measure, n, g, h)
               PROVE  step[<<g, n>>] = step[<<h, n>>]
    BY DEF LooksBelow
  <2>1. ~(n <= 1) => g[Half(n)] = h[Half(n)]
    BY Halves DEF Alike
  <2> QED
    BY <2>1
<1>5. PICK f : Solves(Nat, V, step, f)
  <2> HIDE DEF measure, step
  <2> QED
    BY <1>1, <1>2, <1>3, <1>4, Recursion
<1>6. f \in [Nat -> V] /\ \A n \in Nat : f[n] = IF n <= 1 THEN <<>> ELSE <<n>> \o f[Half(n)]
  BY <1>5 DEF Solves
<1>7. Fits(f)
  BY <1>6
<1>8. Fits(I)
  <2> HIDE DEF Fits
  <2> QED
    BY <1>7
<1>9. InnerSizes = I
  BY DEF InnerSizes
<1> HIDE DEF I
<1>10. \A n \in Nat : I[n] = IF n <= 1 THEN <<>> ELSE <<n>> \o I[Half(n)]
  BY <1>8
<1>11. Nat \subseteq {n \in Nat : I[n] \in V}
  <2> DEFINE A == {n \in Nat : I[n] \in V}
  <2>1. ASSUME NEW n \in Nat, 0..n - 1 \subseteq A PROVE n \in A
    <3>1. ~(n <= 1) => Half(n) \in 0..n - 1
      BY Halves
    <3>2. ~(n <= 1) => I[Half(n)] \in V
      BY <3>1, <2>1
    <3>3. I[n] \in V
      BY <3>2, <1>1, <1>10
    <3> QED
      BY <3>3
  <2> HIDE DEF A
  <2>2. Nat \subseteq A
    BY <2>1, StrongInduction
  <2> QED
    BY <2>2 DEF A
<1>12. I \in [Nat -> V]
  BY <1>8, <1>11
<1> QED
  BY <1>9, <1>10, <1>12 DEF V

LEMMA Headed ==
  ASSUME NEW S, NEW w \in S, NEW q \in Seq(S)
  PROVE  /\ <<w>> \o q \in Seq(S) /\ Len(<<w>> \o q) = Len(q) + 1
         /\ (<<w>> \o q)[1] = w
         /\ \A i \in 1..Len(q) : (<<w>> \o q)[i + 1] = q[i]
<1> DEFINE h == <<w>>
<1>1. h \in Seq(S) /\ Len(h) = 1 /\ h[1] = w
  OBVIOUS
<1> HIDE DEF h
<1>2. /\ h \o q \in Seq(S) /\ Len(h \o q) = Len(h) + Len(q)
      /\ \A i \in 1..Len(h) : (h \o q)[i] = h[i]
      /\ \A i \in 1..Len(q) : (h \o q)[Len(h) + i] = q[i]
  <2>1. h \in Seq(S) /\ q \in Seq(S)
    BY <1>1
  <2>2. h \o q \in Seq(S) /\ Len(h \o q) = Len(h) + Len(q)
    BY <2>1
  <2>3. \A i \in 1..Len(h) : (h \o q)[i] = h[i]
    BY <2>1, InFirst, Zenon
  <2>4. \A i \in 1..Len(q) : (h \o q)[Len(h) + i] = q[i]
    BY <2>1, InSecond, Zenon
  <2> QED
    BY <2>2, <2>3, <2>4
<1>3. /\ Len(q) \in Nat /\ 1 \in 1..Len(h)
      /\ \A i \in 1..Len(q) : Len(h) + i = i + 1
  BY <1>1
<1>4. Len(h) + Len(q) = Len(q) + 1
  BY <1>1, <1>3
<1>5. (h \o q)[1] = w
  BY <1>1, <1>2, <1>3
<1>6. \A i \in 1..Len(q) : (h \o q)[i + 1] = q[i]
  BY <1>2, <1>3
<1>7. h = <<w>>
  BY DEF h
<1> QED
  BY <1>2, <1>4, <1>5, <1>6, <1>7, Zenon

(* A sequence given by its first element and the rest, d times over. *)
Unfolds(S, d, x, R) ==
    /\ \A l \in 0..d : R[l] \in Seq(S)
    /\ \A l \in 0..d - 1 : x[l] \in S /\ R[l] = <<x[l]>> \o R[l + 1]
    /\ R[d] = <<>>

Ahead(d, x, q, l) == Len(q) = d - l /\ \A i \in 1..d - l : q[i] = x[l + i - 1]

LEMMA OneAhead ==
  ASSUME NEW S, NEW d \in Nat, NEW x, NEW l \in 0..d - 1, x[l] \in S, NEW q \in Seq(S), Ahead(d, x, q, l + 1)
  PROVE  Ahead(d, x, <<x[l]>> \o q, l)
<1> DEFINE p == <<x[l]>> \o q
<1>1. Len(p) = Len(q) + 1 /\ p[1] = x[l] /\ \A i \in 1..Len(q) : p[i + 1] = q[i]
  BY Headed
<1>2. Len(q) = d - (l + 1) /\ \A i \in 1..d - (l + 1) : q[i] = x[(l + 1) + i - 1]
  BY DEF Ahead
<1> HIDE DEF p
<1>3. Len(p) = d - l
  BY <1>1, <1>2
<1>4. ASSUME NEW i \in 1..d - l PROVE p[i] = x[l + i - 1]
  <2>1. CASE i = 1
    <3>1. l + 1 - 1 = l
      OBVIOUS
    <3> QED
      BY <2>1, <3>1, <1>1
  <2>2. CASE i # 1
    <3>1. i - 1 \in 1..d - (l + 1) /\ (i - 1) + 1 = i /\ (l + 1) + (i - 1) - 1 = l + i - 1
      BY <2>2
    <3>2. p[(i - 1) + 1] = q[i - 1]
      BY <3>1, <1>1, <1>2
    <3>3. q[i - 1] = x[(l + 1) + (i - 1) - 1]
      BY <3>1, <1>2
    <3> QED
      BY <3>1, <3>2, <3>3
  <2> QED
    BY <2>1, <2>2
<1>5. Ahead(d, x, p, l)
  BY <1>3, <1>4 DEF Ahead
<1> QED
  BY <1>5 DEF p

LEMMA Unfolded ==
  ASSUME NEW S, NEW d \in Nat, NEW x, NEW R, Unfolds(S, d, x, R)
  PROVE  Ahead(d, x, R[0], 0)
<1> DEFINE A == {j \in Nat : j <= d => Ahead(d, x, R[d - j], d - j)}
<1>1. 0 \in A
  <2>1. d - 0 = d /\ d - d = 0 /\ 1..0 = {} /\ Len(<<>>) = 0
    OBVIOUS
  <2>2. Ahead(d, x, <<>>, d)
    BY <2>1 DEF Ahead
  <2> QED
    BY <2>1, <2>2 DEF Unfolds
<1>2. ASSUME NEW j \in Nat, j \in A PROVE j + 1 \in A
  <2> SUFFICES ASSUME j + 1 <= d PROVE Ahead(d, x, R[d - (j + 1)], d - (j + 1))
    OBVIOUS
  <2> DEFINE l == d - (j + 1)
  <2>1. l \in 0..d - 1 /\ l + 1 = d - j /\ l + 1 \in 0..d /\ j <= d
    OBVIOUS
  <2>2. Ahead(d, x, R[l + 1], l + 1)
    BY <1>2, <2>1
  <2> HIDE DEF l
  <2>3. x[l] \in S /\ R[l + 1] \in Seq(S) /\ R[l] = <<x[l]>> \o R[l + 1]
    BY <2>1 DEF Unfolds
  <2>4. Ahead(d, x, <<x[l]>> \o R[l + 1], l)
    BY <2>1, <2>2, <2>3, OneAhead
  <2>5. Ahead(d, x, R[l], l)
    BY <2>3, <2>4, Zenon
  <2> QED
    BY <2>5 DEF l
<1>3. Nat \subseteq A
  <2> HIDE DEF A
  <2> QED
    BY <1>1, <1>2, SetInduction
<1>4. d \in A /\ d <= d /\ d - d = 0
  <2>1. d <= d /\ d - d = 0
    OBVIOUS
  <2> QED
    BY <1>3, <2>1
<1>5. Ahead(d, x, R[0], 0)
  BY <1>4
<1> QED
  BY <1>5

LEMMA InnerSizesAre ==
  ASSUME NEW H, Closed(H), NEW hashes \in Seq(H), Len(hashes) # 0
  PROVE  /\ Len(InnerSizes[Len(hashes)]) = Depth(hashes)
         /\ \A i \in 1..Depth(hashes) : InnerSizes[Len(hashes)][i] = Width(hashes, i - 1)
<1> DEFINE d == Depth(hashes)
           W(l) == Width(hashes, l)
           x == [l \in 0..d |-> W(l)]
           R == [l \in 0..d |-> InnerSizes[W(l)]]
<1>1. /\ d \in Nat /\ W(d) = 1 /\ \A e \in 0..d - 1 : W(e) > 1
      /\ \A l \in Nat : W(l) \in Nat /\ W(l + 1) = Half(W(l))
      /\ W(0) = Len(hashes)
  BY DepthIs, Widths, LevelsIn DEF Width
<1> HIDE DEF d, W
<1>2. ASSUME NEW l \in 0..d PROVE R[l] \in Seq(Nat)
  <2>0. l \in Nat
    BY <1>1
  <2>1. W(l) \in Nat
    BY <1>1, <2>0
  <2> QED
    BY <2>1, InnerSizesIs
<1>3. ASSUME NEW l \in 0..d - 1 PROVE x[l] \in Nat /\ R[l] = <<x[l]>> \o R[l + 1]
  <2>1. l \in 0..d /\ l + 1 \in 0..d /\ l \in Nat
    BY <1>1
  <2>2. W(l) \in Nat /\ W(l) > 1
    BY <1>1, <2>1
  <2>3. W(l + 1) = Half(W(l)) /\ ~(W(l) <= 1)
    BY <1>1, <2>1, <2>2
  <2>4. InnerSizes[W(l)] = <<W(l)>> \o InnerSizes[W(l + 1)]
    BY <2>2, <2>3, InnerSizesIs
  <2> QED
    BY <2>1, <2>2, <2>4
<1>4. R[d] = <<>>
  <2>1. 1 \in Nat /\ 1 <= 1 /\ d \in 0..d
    BY <1>1
  <2>2. InnerSizes[1] = <<>>
    BY <2>1, InnerSizesIs
  <2> QED
    BY <1>1, <2>1, <2>2
<1>5. Unfolds(Nat, d, x, R)
  BY <1>2, <1>3, <1>4 DEF Unfolds
<1>6. \A i \in 1..d : i - 1 \in 0..d /\ x[i - 1] = W(i - 1)
  BY <1>1
<1>7. 0 \in 0..d /\ R[0] = InnerSizes[W(0)]
  BY <1>1
<1> HIDE DEF x, R
<1>8. Ahead(d, x, R[0], 0)
  <2>1. d \in Nat
    BY <1>1
  <2> QED
    BY <2>1, <1>5, Unfolded, Zenon
<1>9. d - 0 = d /\ \A i \in 1..d : 0 + i - 1 = i - 1
  BY <1>1
<1>10. Len(R[0]) = d /\ \A i \in 1..d : R[0][i] = x[0 + i - 1]
  BY <1>8, <1>9 DEF Ahead
<1> QED
  BY <1>1, <1>6, <1>7, <1>9, <1>10 DEF d, W

LastOf(nodes, size) == [i \in 1..size |-> nodes[(Len(nodes) - size) + i]]

LEMMA AddLayerIs ==
  ASSUME NEW H, Closed(H), NEW nodes \in Seq(H), NEW size \in Nat, size # 0, size <= Len(nodes)
  PROVE  /\ AddLayer(nodes, size) = nodes \o Above(LastOf(nodes, size))
         /\ AddLayer(nodes, size) \in Seq(H)
         /\ Len(AddLayer(nodes, size)) >= Len(nodes)
<1> DEFINE o == Len(nodes) - size
           level == LastOf(nodes, size)
           At(index) == nodes[index + 1]
           New(i) == LET index == o + 2 * (i - 1)
                     IN  join_nodes(At(index), At(Smaller(index + 1, o + size - 1)))
           Old(i) == join_nodes(level[2 * i - 1], level[IF 2 * i <= size THEN 2 * i ELSE 2 * i - 1])
<1>1. o \in Nat /\ Len(nodes) = o + size /\ \A i \in 1..Len(nodes) : nodes[i] \in H
  OBVIOUS
<1>2. AddLayer(nodes, size) = nodes \o [i \in 1..Half(size) |-> New(i)]
  BY DEF AddLayer
<1>3. \A i \in 1..size : level[i] = nodes[o + i] /\ level[i] \in H
  BY <1>1 DEF LastOf
<1>4. level \in Seq(H) /\ Len(level) = size
  <2>1. level \in [1..size -> H]
    BY <1>3 DEF LastOf
  <2> QED
    BY <2>1
<1> HIDE DEF o, level
<1>5. ASSUME NEW i \in 1..Half(size) PROVE New(i) = Old(i)
  <2>1. /\ 2 * i - 1 \in 1..size /\ (2 * i <= size => 2 * i \in 1..size)
        /\ ~(2 * i <= size) => size = 2 * i - 1
    BY DEF Half
  <2>2. (o + 2 * (i - 1)) + 1 = o + (2 * i - 1)
    BY <1>1
  <2>3. level[2 * i - 1] = nodes[(o + 2 * (i - 1)) + 1]
    BY <1>3, <2>1, <2>2
  <2>4. CASE 2 * i <= size
    <3>1. Smaller((o + 2 * (i - 1)) + 1, o + size - 1) + 1 = o + 2 * i
      BY <1>1, <2>4 DEF Smaller
    <3>2. level[2 * i] = nodes[Smaller((o + 2 * (i - 1)) + 1, o + size - 1) + 1]
      BY <1>3, <2>1, <2>4, <3>1
    <3> QED
      BY <2>3, <2>4, <3>2
  <2>5. CASE ~(2 * i <= size)
    <3>1. Smaller((o + 2 * (i - 1)) + 1, o + size - 1) + 1 = o + (2 * i - 1)
      BY <1>1, <2>1, <2>5 DEF Smaller
    <3>2. level[2 * i - 1] = nodes[Smaller((o + 2 * (i - 1)) + 1, o + size - 1) + 1]
      BY <1>3, <2>1, <3>1
    <3> QED
      BY <2>3, <2>5, <3>2
  <2> QED
    BY <2>4, <2>5
<1>6. Above(level) = [i \in 1..Half(size) |-> Old(i)]
  BY <1>4 DEF Above, Half
<1>7. [i \in 1..Half(size) |-> New(i)] = [i \in 1..Half(size) |-> Old(i)]
  <2> HIDE DEF New, Old
  <2> QED
    BY <1>5
<1> HIDE DEF New, Old
<1>8. AddLayer(nodes, size) = nodes \o Above(level)
  BY <1>2, <1>6, <1>7
<1>9. Above(level) \in Seq(H)
  BY <1>4, AboveIs
<1>10. nodes \o Above(level) \in Seq(H) /\ Len(nodes \o Above(level)) >= Len(nodes)
  BY <1>9
<1> QED
  BY <1>8, <1>10 DEF level

LEMMA Narrower ==
  ASSUME NEW H, Closed(H), NEW hashes \in Seq(H), Len(hashes) # 0, NEW l \in Nat
  PROVE  Width(hashes, l) <= Len(hashes)
<1> DEFINE W(k) == Width(hashes, k)
           A == {k \in Nat : W(k) <= Len(hashes)}
<1>1. /\ \A k \in Nat : W(k) \in Nat /\ W(k + 1) = Half(W(k))
      /\ W(0) = Len(hashes)
  BY Widths, LevelsIn DEF Width
<1>2. Len(hashes) \in Nat
  OBVIOUS
<1> HIDE DEF W
<1>3. 0 \in A
  BY <1>1, <1>2
<1>4. ASSUME NEW k \in Nat, k \in A PROVE k + 1 \in A
  <2>1. \A w \in Nat : Half(w) \in Nat /\ Half(w) <= w
    BY DEF Half
  <2>2. W(k) <= Len(hashes) /\ W(k) \in Nat /\ W(k + 1) = Half(W(k))
    BY <1>1, <1>4
  <2>3. W(k + 1) <= Len(hashes)
    BY <1>2, <2>1, <2>2
  <2> QED
    BY <2>3
<1>5. Nat \subseteq A
  <2> HIDE DEF A
  <2> QED
    BY <1>3, <1>4, SetInduction
<1> QED
  BY <1>5 DEF W

LEMMA LayerOnLayer ==
  ASSUME NEW H, Closed(H), NEW hashes \in Seq(H), Len(hashes) # 0, NEW k \in Nat
  PROVE  AddLayer(Below(hashes)[k + 1], Width(hashes, k)) = Below(hashes)[k + 2]
<1> DEFINE B == Below(hashes)
           L == Levels(hashes)
           w == Width(hashes, k)
           all == B[k + 1]
<1>0. \A j \in Nat : /\ B[j] \in Seq(H) /\ L[j] \in Seq(H)
                     /\ B[j + 1] = B[j] \o L[j] /\ L[j + 1] = Above(L[j])
  BY LevelsIn, BelowIn
<1>4. w \in Nat /\ w # 0 /\ w = Len(L[k])
  BY Widths DEF Width
<1> HIDE DEF B, L, w
<1>1. B[k] \in Seq(H) /\ B[k + 1] \in Seq(H) /\ L[k] \in Seq(H) /\ k + 1 \in Nat
  <2>1. k + 1 \in Nat
    OBVIOUS
  <2> QED
    BY <1>0, <2>1, Zenon
<1>2. B[k + 1] = B[k] \o L[k]
  BY <1>0, Zenon
<1>3. B[k + 2] = B[k + 1] \o L[k + 1] /\ L[k + 1] = Above(L[k])
  <2>1. (k + 1) + 1 = k + 2
    OBVIOUS
  <2>2. B[(k + 1) + 1] = B[k + 1] \o L[k + 1] /\ L[k + 1] = Above(L[k])
    BY <1>0, <1>1, Zenon
  <2> QED
    BY <2>1, <2>2, Zenon
<1>5. Len(all) = Len(B[k]) + w
  <2>1. Len(B[k] \o L[k]) = Len(B[k]) + Len(L[k])
    BY <1>1
  <2> QED
    BY <1>2, <1>4, <2>1, Zenon
<1>6. \A i \in 1..w : all[Len(B[k]) + i] = L[k][i]
  <2>1. \A i \in 1..Len(L[k]) : (B[k] \o L[k])[Len(B[k]) + i] = L[k][i]
    BY <1>1, InSecond, Zenon
  <2> QED
    BY <1>2, <1>4, <2>1, Zenon
<1>7. Len(B[k]) \in Nat
  BY <1>1
<1>8. LastOf(all, w) = L[k]
  <2>1. Len(all) - w = Len(B[k])
    BY <1>4, <1>5, <1>7
  <2>2. LastOf(all, w) = [i \in 1..w |-> all[Len(B[k]) + i]]
    BY <2>1, Zenon DEF LastOf
  <2>3. LastOf(all, w) = [i \in 1..w |-> L[k][i]]
    <3> HIDE DEF all
    <3> QED
      BY <1>6, <2>2
  <2>4. L[k] = [i \in 1..w |-> L[k][i]]
    <3>1. L[k] = [i \in 1..Len(L[k]) |-> L[k][i]]
      BY <1>1
    <3> QED
      BY <3>1, <1>4, Zenon
  <2> QED
    BY <2>3, <2>4, Zenon
<1>9. AddLayer(all, w) = all \o Above(LastOf(all, w))
  <2>0. all \in Seq(H)
    BY <1>1
  <2>1. w <= Len(all)
    <3>1. \A m, n \in Nat : n <= m + n
      OBVIOUS
    <3> QED
      BY <3>1, <1>4, <1>5, <1>7, Zenon
  <2> HIDE DEF all
  <2> QED
    BY <2>0, <2>1, <1>4, AddLayerIs
<1>10. AddLayer(all, w) = B[k + 2]
  BY <1>3, <1>8, <1>9, Zenon
<1> QED
  BY <1>10, Zenon DEF all, B, w

Layers(hashes, sizes, g) ==
    g = [s \in SUBSET DOMAIN sizes |->
           IF s = {} THEN hashes ELSE AddLayer(g[s \ {Max(s)}], sizes[Max(s)])]

(* Whatever the loop of try_new appends, it is the next level. *)
LEMMA Stacked ==
  ASSUME NEW H, Closed(H), NEW hashes \in Seq(H), Len(hashes) # 0
  PROVE  FoldLeft(AddLayer, hashes, InnerSizes[Len(hashes)]) = Tree(hashes)
<1> DEFINE n == Depth(hashes)
           sizes == InnerSizes[Len(hashes)]
           V == {s \in Seq(H) : Len(s) >= Len(hashes)}
           next == [x \in V \X (1..n) |-> AddLayer(x[1], sizes[x[2]])]
           g == CHOOSE f : Layers(hashes, sizes, f)
           B == Below(hashes)
           W(l) == Width(hashes, l)
<1>1. n \in Nat /\ \A i \in 1..n : sizes[i] = W(i - 1)
  BY DepthIs, InnerSizesAre
<1>2. sizes \in Seq(Nat) /\ Len(sizes) = n
  <2>1. Len(hashes) \in Nat
    OBVIOUS
  <2> QED
    BY <2>1, InnerSizesIs, InnerSizesAre
<1>3. DOMAIN sizes = 1..n
  <2> HIDE DEF sizes, n
  <2> QED
    BY <1>2
<1>4. \A l \in Nat : W(l) \in Nat /\ W(l) # 0 /\ W(l) <= Len(hashes)
  BY Widths, Narrower
<1> HIDE DEF n, sizes, W
<1>5. next \in [V \X (1..n) -> V]
  <2> SUFFICES ASSUME NEW v \in V, NEW i \in 1..n PROVE AddLayer(v, sizes[i]) \in V
    OBVIOUS
  <2>1. i - 1 \in Nat
    BY <1>1
  <2>2. sizes[i] \in Nat /\ sizes[i] # 0 /\ sizes[i] <= Len(hashes)
    BY <1>1, <1>4, <2>1
  <2>3. v \in Seq(H) /\ Len(v) >= Len(hashes) /\ Len(hashes) \in Nat /\ Len(v) \in Nat
    OBVIOUS
  <2>4. sizes[i] <= Len(v)
    BY <2>2, <2>3
  <2>5. AddLayer(v, sizes[i]) \in Seq(H) /\ Len(AddLayer(v, sizes[i])) >= Len(v)
    BY <2>2, <2>3, <2>4, AddLayerIs
  <2>6. \A s \in Seq(H) : Len(s) \in Nat
    OBVIOUS
  <2>7. Len(AddLayer(v, sizes[i])) >= Len(hashes)
    BY <2>3, <2>5, <2>6
  <2> QED
    BY <2>5, <2>7
<1>6. PICK f : f \in [SUBSET (1..n) -> V] /\ Folds(n, hashes, next, f)
  <2>1. hashes \in V
    OBVIOUS
  <2> HIDE DEF V, next
  <2> QED
    BY <1>1, <1>5, <2>1, Fold
<1>7. Layers(hashes, sizes, f)
  <2>1. ASSUME NEW s \in SUBSET (1..n), s # {}
        PROVE  next[<<f[s \ {Max(s)}], Max(s)>>] = AddLayer(f[s \ {Max(s)}], sizes[Max(s)])
    <3>1. Max(s) \in s
      BY <1>1, <2>1, MaxOf
    <3>2. Max(s) \in 1..n /\ f[s \ {Max(s)}] \in V
      BY <3>1, <1>6
    <3> HIDE DEF V
    <3> QED
      BY <3>2
  <2> HIDE DEF V, next
  <2> QED
    BY <1>3, <1>6, <2>1 DEF Folds, Layers
<1>8. Layers(hashes, sizes, g)
  BY <1>7
<1>9. FoldLeft(AddLayer, hashes, sizes) = g[DOMAIN sizes]
  BY DEF FoldLeft, MapThenFoldSet, Layers
<1> HIDE DEF g
<1>10. g[{}] = hashes
  BY <1>8 DEF Layers
<1>11. ASSUME NEW k \in 1..n PROVE g[1..k] = AddLayer(g[1..k - 1], W(k - 1))
  <2>1. Max(1..k) = k /\ (1..k) \ {k} = 1..k - 1
    BY MaxOfPrefix
  <2>2. 1..k \in SUBSET (1..n) /\ 1..k # {}
    <3>1. k \in Nat /\ 1 <= k /\ k <= n
      BY <1>1
    <3>2. 1 \in 1..k /\ \A j \in 1..k : j \in 1..n
      BY <1>1, <3>1
    <3> QED
      BY <3>2
  <2>3. g[1..k] = AddLayer(g[(1..k) \ {Max(1..k)}], sizes[Max(1..k)])
    BY <2>2, <1>3, <1>8 DEF Layers
  <2> QED
    BY <2>1, <2>3, <1>1
<1> DEFINE A == {k \in Nat : k <= n => g[1..k] = B[k + 1]}
<1>12. 0 \in A
  <2>1. 1..0 = {} /\ 0 + 1 \in Nat
    OBVIOUS
  <2>2. B[0 + 1] = <<>> \o hashes
    <3>1. 0 \in Nat /\ B[0] = <<>> /\ \A l \in Nat : B[l + 1] = B[l] \o Levels(hashes)[l]
      BY BelowIn
    <3>2. Levels(hashes)[0] = hashes
      BY LevelsIn
    <3> HIDE DEF B
    <3>3. B[0 + 1] = B[0] \o Levels(hashes)[0]
      BY <3>1, Zenon
    <3> QED
      BY <3>1, <3>2, <3>3, Zenon
  <2>3. <<>> \o hashes = hashes
    OBVIOUS
  <2> QED
    BY <2>1, <2>2, <2>3, <1>10
<1>13. ASSUME NEW k \in Nat, k \in A PROVE k + 1 \in A
  <2> SUFFICES ASSUME k + 1 <= n PROVE g[1..k + 1] = B[(k + 1) + 1]
    OBVIOUS
  <2>1. k + 1 \in 1..n /\ (k + 1) - 1 = k /\ k <= n /\ (k + 1) + 1 = k + 2
    BY <1>1
  <2>2. g[1..k] = B[k + 1]
    BY <1>13, <2>1
  <2>3. g[1..k + 1] = AddLayer(g[1..(k + 1) - 1], W((k + 1) - 1))
    BY <1>11, <2>1
  <2>4. AddLayer(B[k + 1], W(k)) = B[k + 2]
    BY LayerOnLayer DEF W
  <2> QED
    BY <2>1, <2>2, <2>3, <2>4
<1>14. Nat \subseteq A
  <2> HIDE DEF A
  <2> QED
    BY <1>12, <1>13, SetInduction
<1>15. g[1..n] = B[n + 1]
  <2>1. n \in A
    BY <1>1, <1>14
  <2> QED
    BY <1>1, <2>1
<1>16. Tree(hashes) = B[n + 1]
  BY DEF Tree, n
<1> QED
  BY <1>3, <1>9, <1>15, <1>16 DEF sizes

LEMMA TryNew ==
  ASSUME NEW H, Closed(H), NEW n \in Nat, n # 0, NEW shreds,
         shreds \in Seq(Range(shreds)), Len(shreds) = n,
         \A i \in 1..n : shreds[i].ok => shreds[i] = Ok(shreds[i].value) /\ shreds[i].value \in H
  PROVE  /\ (\A i \in 1..n : shreds[i].ok) =>
              try_new(shreds) = Ok(Tree([i \in 1..n |-> shreds[i].value]))
         /\ try_new(shreds).ok => \A i \in 1..n : shreds[i].ok
<1> DEFINE I == {i \in 1..Len(shreds) : ~shreds[i].ok}
           hashes == [i \in 1..n |-> shreds[i].value]
           bad == IF I # {} THEN Min(I) ELSE 0
<1>1. DOMAIN shreds = 1..n /\ shreds # <<>>
  <2>1. DOMAIN shreds = 1..n
    OBVIOUS
  <2>2. Len(<<>>) = 0
    OBVIOUS
  <2> QED
    BY <2>1, <2>2
<1>2. try_new(shreds) = IF bad # 0 THEN shreds[bad]
                        ELSE Ok(FoldLeft(AddLayer, hashes, InnerSizes[Len(shreds)]))
  <2>1. SelectInSeq(shreds, LAMBDA s : ~s.ok) = bad
    BY DEF SelectInSeq
  <2> HIDE DEF bad
  <2>2. try_new(shreds) = IF bad # 0 THEN shreds[bad]
                          ELSE Ok(FoldLeft(AddLayer, [i \in DOMAIN shreds |-> shreds[i].value],
                                           InnerSizes[Len(shreds)]))
    BY <1>1, <2>1 DEF try_new
  <2> QED
    BY <1>1, <2>2
<1>3. ASSUME \A i \in 1..n : shreds[i].ok
      PROVE  try_new(shreds) = Ok(Tree(hashes))
  <2>1. bad = 0
    BY <1>3
  <2>2. hashes \in [1..n -> H]
    BY <1>3
  <2>3. hashes \in Seq(H) /\ Len(hashes) = n
    BY <2>2
  <2> HIDE DEF bad, hashes
  <2>4. FoldLeft(AddLayer, hashes, InnerSizes[Len(hashes)]) = Tree(hashes)
    BY <2>3, Stacked
  <2> QED
    BY <1>2, <2>1, <2>3, <2>4, Zenon
<1>4. ASSUME I # {} PROVE ~try_new(shreds).ok
  <2>1. I \in SUBSET Nat
    OBVIOUS
  <2>2. Min(I) \in I
    BY <1>4, <2>1, MinOf
  <2>3. bad # 0 /\ bad \in I
    BY <1>4, <2>2
  <2> QED
    BY <1>2, <2>3
<1>5. try_new(shreds).ok => \A i \in 1..n : shreds[i].ok
  BY <1>4
<1> QED
  BY <1>3, <1>5

(* What try_new refuses with is the first Err of its shreds. *)
LEMMA TryNewErr ==
  ASSUME NEW n \in Nat, n # 0, NEW shreds, shreds \in Seq(Range(shreds)), Len(shreds) = n,
         ~try_new(shreds).ok
  PROVE  \E i \in 1..n : try_new(shreds) = shreds[i]
<1> DEFINE I == {i \in 1..Len(shreds) : ~shreds[i].ok}
           bad == IF I # {} THEN Min(I) ELSE 0
           tree == FoldLeft(AddLayer, [i \in DOMAIN shreds |-> shreds[i].value],
                            InnerSizes[Len(shreds)])
<1>1. shreds # <<>>
  <2>1. Len(<<>>) = 0
    OBVIOUS
  <2> QED
    BY <2>1
<1>2. try_new(shreds) = IF bad # 0 THEN shreds[bad] ELSE Ok(tree)
  <2>1. SelectInSeq(shreds, LAMBDA s : ~s.ok) = bad
    BY DEF SelectInSeq
  <2> HIDE DEF bad
  <2> QED
    BY <1>1, <2>1 DEF try_new
<1>3. Ok(tree).ok
  BY DEF Ok
<1> HIDE DEF tree
<1>4. bad # 0
  BY <1>2, <1>3
<1>5. I # {} /\ I \in SUBSET Nat
  BY <1>4
<1>6. bad \in I
  BY <1>5, MinOf
<1> QED
  BY <1>2, <1>4, <1>6

-----------------------------------------------------------------------------
(* The sizes of the tree and of its proofs. *)
LEMMA TreeSizeIs ==
  /\ get_merkle_tree_size \in [Nat -> Nat]
  /\ \A n \in Nat : get_merkle_tree_size[n] = IF n > 1 THEN n + get_merkle_tree_size[Half(n)] ELSE n
<1> DEFINE measure == [n \in Nat |-> n]
           step == [x \in [Nat -> Nat] \X Nat |-> IF x[2] > 1 THEN x[2] + x[1][Half(x[2])] ELSE x[2]]
           Fits(f) == f = [n \in Nat |-> IF n > 1 THEN n + f[Half(n)] ELSE n]
           F == CHOOSE f : Fits(f)
<1>1. measure \in [Nat -> Nat]
  OBVIOUS
<1>2. step \in [[Nat -> Nat] \X Nat -> Nat]
  BY Halves
<1>3. LooksBelow(Nat, Nat, measure, step)
  <2> SUFFICES ASSUME NEW n \in Nat, NEW g \in [Nat -> Nat], NEW h \in [Nat -> Nat],
                      Alike(Nat, measure, n, g, h)
               PROVE  step[<<g, n>>] = step[<<h, n>>]
    BY DEF LooksBelow
  <2>1. n > 1 => g[Half(n)] = h[Half(n)]
    BY Halves DEF Alike
  <2> QED
    BY <2>1
<1>4. PICK f : Solves(Nat, Nat, step, f)
  <2> HIDE DEF measure, step
  <2> QED
    BY <1>1, <1>2, <1>3, Recursion
<1>5. f \in [Nat -> Nat] /\ \A n \in Nat : f[n] = IF n > 1 THEN n + f[Half(n)] ELSE n
  BY <1>4 DEF Solves
<1>6. Fits(f)
  BY <1>5
<1>7. Fits(F)
  <2> HIDE DEF Fits
  <2> QED
    BY <1>6
<1>8. get_merkle_tree_size = F
  BY DEF get_merkle_tree_size
<1> HIDE DEF F
<1>9. \A n \in Nat : F[n] = IF n > 1 THEN n + F[Half(n)] ELSE n
  BY <1>7
<1> DEFINE A == {n \in Nat : F[n] \in Nat}
<1>10. ASSUME NEW n \in Nat, 0..n - 1 \subseteq A PROVE n \in A
  <2>1. n > 1 => Half(n) \in 0..n - 1
    BY Halves
  <2>2. n > 1 => F[Half(n)] \in Nat
    BY <2>1, <1>10
  <2>3. F[n] \in Nat
    BY <2>2, <1>9
  <2> QED
    BY <2>3
<1>11. Nat \subseteq A
  <2> HIDE DEF A
  <2> QED
    BY <1>10, StrongInduction
<1>12. F \in [Nat -> Nat]
  BY <1>7, <1>11
<1> QED
  BY <1>8, <1>9, <1>12

LEMMA BitsIs ==
  /\ Bits \in [Nat -> Nat]
  /\ \A n \in Nat : Bits[n] = IF n = 0 THEN 0 ELSE 1 + Bits[n \div 2]
<1>1. Bits = CHOOSE f : f = [n \in Nat |-> IF n = 0 THEN 0 ELSE 1 + f[n \div 2]]
  BY DEF Bits
<1> QED
  BY <1>1, Halving

LEMMA PowersAre ==
  \A n \in Nat : is_power_of_two[n] = (n = 1 \/ (n > 1 /\ n % 2 = 0 /\ is_power_of_two[n \div 2]))
<1> DEFINE V == BOOLEAN
           measure == [n \in Nat |-> n]
           step == [x \in [Nat -> V] \X Nat |->
                      x[2] = 1 \/ (x[2] > 1 /\ x[2] % 2 = 0 /\ x[1][x[2] \div 2])]
           Fits(f) == f = [n \in Nat |-> n = 1 \/ (n > 1 /\ n % 2 = 0 /\ f[n \div 2])]
           F == CHOOSE f : Fits(f)
<1>0. \A n \in Nat : n \div 2 \in Nat /\ (n > 1 => n \div 2 < n)
  OBVIOUS
<1>1. measure \in [Nat -> Nat]
  OBVIOUS
<1>2. step \in [[Nat -> V] \X Nat -> V]
  OBVIOUS
<1>3. LooksBelow(Nat, V, measure, step)
  <2> SUFFICES ASSUME NEW n \in Nat, NEW g \in [Nat -> V], NEW h \in [Nat -> V],
                      Alike(Nat, measure, n, g, h)
               PROVE  step[<<g, n>>] = step[<<h, n>>]
    BY DEF LooksBelow
  <2>1. n > 1 => g[n \div 2] = h[n \div 2]
    BY <1>0 DEF Alike
  <2> HIDE DEF V
  <2> QED
    BY <2>1
<1>4. PICK f : Solves(Nat, V, step, f)
  <2>1. V # {}
    OBVIOUS
  <2> HIDE DEF measure, step, V
  <2> QED
    BY <2>1, <1>1, <1>2, <1>3, Recursion
<1>5. f \in [Nat -> V] /\ \A n \in Nat : f[n] = (n = 1 \/ (n > 1 /\ n % 2 = 0 /\ f[n \div 2]))
  BY <1>4 DEF Solves
<1>6. Fits(f)
  <2> HIDE DEF V
  <2> QED
    BY <1>5
<1>7. Fits(F)
  <2> HIDE DEF Fits
  <2> QED
    BY <1>6
<1>8. is_power_of_two = F
  BY DEF is_power_of_two
<1> HIDE DEF F
<1> QED
  BY <1>7, <1>8

LEMMA ProofSizeInBits == \A n \in Nat : n # 0 => get_proof_size(n) = Bits[n - 1]
<1> DEFINE A == {n \in Nat : n # 0 => get_proof_size(n) = Bits[n - 1]}
<1>0. \A n \in Nat : get_proof_size(n) = IF is_power_of_two[n] THEN Bits[n] - 1 ELSE Bits[n]
  BY DEF get_proof_size
<1>1. ASSUME NEW n \in Nat, 0..n - 1 \subseteq A, n # 0 PROVE get_proof_size(n) = Bits[n - 1]
  <2>1. PICK m \in Nat : n = 2 * m \/ n = 2 * m + 1
    <3>1. n \div 2 \in Nat /\ (n = 2 * (n \div 2) \/ n = 2 * (n \div 2) + 1)
      OBVIOUS
    <3> QED
      BY <3>1
  <2>2. Bits[m] \in Nat /\ Bits[0] = 0 /\ (m # 0 => Bits[m - 1] \in Nat)
    <3>1. 0 \in Nat /\ (m # 0 => m - 1 \in Nat)
      OBVIOUS
    <3> QED
      BY <3>1, BitsIs
  <2>3. CASE n = 1
    <3>1. 1 \in Nat /\ 1 \div 2 = 0 /\ 1 - 1 = 0
      OBVIOUS
    <3>2. is_power_of_two[1]
      BY <3>1, PowersAre
    <3>3. Bits[1] = 1 + Bits[0]
      BY <3>1, BitsIs
    <3> QED
      BY <1>0, <2>2, <2>3, <3>1, <3>2, <3>3
  <2>4. CASE n # 1 /\ n = 2 * m
    <3>1. /\ m # 0 /\ m \in 0..n - 1 /\ n \div 2 = m /\ n % 2 = 0 /\ n > 1
          /\ n - 1 \in Nat /\ n - 1 # 0 /\ (n - 1) \div 2 = m - 1
      <4>1. \A k \in Nat : k # 0 => /\ (2 * k) \div 2 = k /\ (2 * k) % 2 = 0 /\ 2 * k > 1
                                   /\ k \in 0..2 * k - 1 /\ 2 * k - 1 \in Nat
                                   /\ 2 * k - 1 # 0 /\ (2 * k - 1) \div 2 = k - 1
        OBVIOUS
      <4>2. m # 0
        BY <1>1, <2>4
      <4> QED
        BY <2>4, <4>1, <4>2
    <3>2. get_proof_size(m) = Bits[m - 1]
      BY <1>1, <3>1
    <3>3. Bits[n] = 1 + Bits[m] /\ Bits[n - 1] = 1 + Bits[m - 1]
      BY <1>1, <3>1, BitsIs
    <3>4. is_power_of_two[n] = is_power_of_two[m]
      <4>1. is_power_of_two[n] = (n = 1 \/ (n > 1 /\ n % 2 = 0 /\ is_power_of_two[n \div 2]))
        BY PowersAre
      <4>2. is_power_of_two[m] \in BOOLEAN
        BY PowersAre
      <4> QED
        BY <2>4, <3>1, <4>1, <4>2
    <3>5. \A p \in Nat : (1 + p) - 1 = p
      OBVIOUS
    <3>6. get_proof_size(n) = IF is_power_of_two[m] THEN (1 + Bits[m]) - 1 ELSE 1 + Bits[m]
      BY <1>0, <3>3, <3>4
    <3>7. get_proof_size(m) = IF is_power_of_two[m] THEN Bits[m] - 1 ELSE Bits[m]
      BY <1>0
    <3>8. \A p, q \in Nat : p - 1 = q => p = 1 + q
      OBVIOUS
    <3>9. CASE is_power_of_two[m]
      <4>1. Bits[m] - 1 = Bits[m - 1]
        BY <3>2, <3>7, <3>9
      <4>2. Bits[m] = 1 + Bits[m - 1]
        BY <2>2, <3>1, <3>8, <4>1
      <4> QED
        BY <2>2, <3>3, <3>5, <3>6, <3>9, <4>2
    <3>10. CASE ~is_power_of_two[m]
      <4>1. Bits[m] = Bits[m - 1]
        BY <3>2, <3>7, <3>10
      <4> QED
        BY <3>3, <3>6, <3>10, <4>1
    <3> QED
      BY <3>9, <3>10
  <2>5. CASE n # 1 /\ n = 2 * m + 1
    <3>1. /\ m # 0 /\ n \div 2 = m /\ n % 2 = 1 /\ n > 1
          /\ n - 1 \in Nat /\ n - 1 # 0 /\ (n - 1) \div 2 = m
      BY <2>5
    <3>2. Bits[n] = 1 + Bits[m] /\ Bits[n - 1] = 1 + Bits[m]
      BY <1>1, <3>1, BitsIs
    <3>3. ~is_power_of_two[n]
      <4>1. is_power_of_two[n] = (n = 1 \/ (n > 1 /\ n % 2 = 0 /\ is_power_of_two[n \div 2]))
        BY PowersAre
      <4>2. ~(n % 2 = 0)
        BY <3>1
      <4> QED
        BY <2>5, <4>1, <4>2, Zenon
    <3> QED
      BY <1>0, <3>2, <3>3
  <2> QED
    BY <2>1, <2>3, <2>4, <2>5
<1>2. Nat \subseteq A
  <2>1. \A n \in Nat : 0..n - 1 \subseteq A => n \in A
    BY <1>1
  <2> HIDE DEF A
  <2> QED
    BY <2>1, StrongInduction
<1> QED
  BY <1>2

LEMMA ProofSizeIs ==
  ASSUME NEW H, Closed(H), NEW hashes \in Seq(H), Len(hashes) # 0
  PROVE  get_proof_size(Len(hashes)) = Depth(hashes)
<1> DEFINE d == Depth(hashes)
           W(l) == Width(hashes, l)
           A == {j \in Nat : j <= d => Bits[W(d - j) - 1] = j}
<1>1. /\ d \in Nat /\ W(d) = 1 /\ \A e \in 0..d - 1 : W(e) > 1
      /\ \A l \in Nat : W(l) \in Nat /\ W(l + 1) = Half(W(l))
      /\ W(0) = Len(hashes)
  BY DepthIs, Widths, LevelsIn DEF Width
<1>2. Len(hashes) \in Nat
  OBVIOUS
<1> HIDE DEF d, W
<1>3. 0 \in A
  <2>1. d - 0 = d /\ 1 - 1 = 0 /\ 0 \in Nat
    BY <1>1
  <2>2. Bits[0] = 0
    BY <2>1, BitsIs
  <2> QED
    BY <1>1, <2>1, <2>2
<1>4. ASSUME NEW j \in Nat, j \in A PROVE j + 1 \in A
  <2> SUFFICES ASSUME j + 1 <= d PROVE Bits[W(d - (j + 1)) - 1] = j + 1
    OBVIOUS
  <2> DEFINE l == d - (j + 1)
  <2>1. l \in Nat /\ l \in 0..d - 1 /\ l + 1 = d - j /\ j <= d
    BY <1>1
  <2>2. Bits[W(l + 1) - 1] = j
    BY <1>4, <2>1
  <2> HIDE DEF l
  <2>3. W(l) \in Nat /\ W(l) > 1 /\ W(l + 1) = Half(W(l))
    <3>1. W(l) > 1
      BY <1>1, <2>1
    <3> QED
      BY <1>1, <2>1, <3>1
  <2>4. \A w \in Nat : w > 1 => w - 1 \in Nat /\ w - 1 # 0 /\ (w - 1) \div 2 = Half(w) - 1
    BY DEF Half
  <2>5. Bits[W(l) - 1] = 1 + Bits[Half(W(l)) - 1]
    BY <2>3, <2>4, BitsIs
  <2>6. Bits[W(l) - 1] = 1 + j
    BY <2>2, <2>3, <2>5
  <2>7. 1 + j = j + 1
    OBVIOUS
  <2> QED
    BY <2>6, <2>7, Zenon DEF l
<1>5. Nat \subseteq A
  <2> HIDE DEF A
  <2> QED
    BY <1>3, <1>4, SetInduction
<1>6. d \in A /\ d - d = 0 /\ d <= d
  <2>1. d \in A
    BY <1>1, <1>5
  <2>2. d - d = 0 /\ d <= d
    BY <1>1
  <2> QED
    BY <2>1, <2>2
<1>7. Bits[Len(hashes) - 1] = d
  <2>1. Bits[W(d - d) - 1] = d
    BY <1>6
  <2> QED
    BY <1>1, <1>6, <2>1, Zenon
<1> QED
  BY <1>2, <1>7, ProofSizeInBits DEF d

LEMMA TreeSizes ==
  ASSUME NEW H, Closed(H), NEW hashes \in Seq(H), Len(hashes) # 0
  PROVE  /\ get_merkle_tree_size[Len(hashes)] = Offset(hashes, Depth(hashes)) + 1
         /\ Len(Tree(hashes)) = Offset(hashes, Depth(hashes)) + 1
<1> DEFINE d == Depth(hashes)
           W(l) == Width(hashes, l)
           O(l) == Offset(hashes, l)
           T(n) == get_merkle_tree_size[n]
           A == {j \in Nat : j <= d => O(d - j) + T(W(d - j)) = O(d) + 1}
<1>1. /\ d \in Nat /\ W(d) = 1 /\ \A e \in 0..d - 1 : W(e) > 1
      /\ \A l \in Nat : W(l) \in Nat /\ W(l + 1) = Half(W(l)) /\ O(l) \in Nat /\ O(l + 1) = O(l) + W(l)
      /\ W(0) = Len(hashes) /\ O(0) = 0
  BY DepthIs, Widths, LevelsIn, Offsets DEF Width
<1>2. T(1) = 1 /\ \A n \in Nat : T(n) \in Nat /\ (n > 1 => T(n) = n + T(Half(n)))
  <2>1. 1 \in Nat /\ ~(1 > 1)
    OBVIOUS
  <2> QED
    BY <2>1, TreeSizeIs
<1>3. Len(Tree(hashes)) = O(d + 1)
  BY DEF Tree, Offset
<1> HIDE DEF d, W, O, T
<1>4. Len(Tree(hashes)) = O(d) + 1
  BY <1>1, <1>3
<1>5. 0 \in A
  <2>1. d - 0 = d
    BY <1>1
  <2> QED
    BY <1>1, <1>2, <2>1
<1>6. ASSUME NEW j \in Nat, j \in A PROVE j + 1 \in A
  <2> SUFFICES ASSUME j + 1 <= d PROVE O(d - (j + 1)) + T(W(d - (j + 1))) = O(d) + 1
    OBVIOUS
  <2> DEFINE l == d - (j + 1)
  <2>1. l \in Nat /\ l \in 0..d - 1 /\ l + 1 = d - j /\ j <= d
    BY <1>1
  <2>2. O(l + 1) + T(W(l + 1)) = O(d) + 1
    BY <1>6, <2>1
  <2> HIDE DEF l
  <2>3. W(l) \in Nat /\ W(l + 1) = Half(W(l)) /\ O(l) \in Nat /\ O(l + 1) = O(l) + W(l)
    BY <1>1, <2>1
  <2>4. W(l) > 1
    BY <1>1, <2>1
  <2>5. T(W(l)) = W(l) + T(W(l + 1))
    BY <1>2, <2>3, <2>4
  <2>6. T(W(l + 1)) \in Nat
    BY <1>2, <2>3, Halves
  <2>7. O(l) + (W(l) + T(W(l + 1))) = (O(l) + W(l)) + T(W(l + 1))
    BY <2>3, <2>6
  <2>8. O(l) + T(W(l)) = O(d) + 1
    BY <2>2, <2>3, <2>5, <2>7
  <2> QED
    BY <2>8, Zenon DEF l
<1>7. Nat \subseteq A
  <2> HIDE DEF A
  <2> QED
    BY <1>5, <1>6, SetInduction
<1>8. d \in A /\ d - d = 0 /\ d <= d
  <2>1. d \in A
    BY <1>1, <1>7
  <2>2. d - d = 0 /\ d <= d
    BY <1>1
  <2> QED
    BY <2>1, <2>2
<1>9. O(0) + T(W(0)) = O(d) + 1
  BY <1>8
<1>10. T(Len(hashes)) = O(d) + 1
  BY <1>1, <1>2, <1>9
<1> QED
  BY <1>4, <1>10 DEF d, O, T

LEMMA LargerTree ==
  \A n \in Nat : \A m \in 1..n - 1 : get_merkle_tree_size[m] < get_merkle_tree_size[n]
<1> DEFINE T(n) == get_merkle_tree_size[n]
           A == {n \in Nat : \A m \in 1..n - 1 : T(m) < T(n)}
<1>1. T(1) = 1 /\ \A n \in Nat : T(n) \in Nat /\ (n > 1 => T(n) = n + T(Half(n)))
  <2>1. 1 \in Nat /\ ~(1 > 1)
    OBVIOUS
  <2> QED
    BY <2>1, TreeSizeIs
<1> HIDE DEF T
<1>2. ASSUME NEW n \in Nat, 0..n - 1 \subseteq A, NEW m \in 1..n - 1 PROVE T(m) < T(n)
  <2>1. /\ n > 1 /\ m < n /\ m \in Nat /\ Half(n) \in 0..n - 1 /\ Half(m) \in Nat
        /\ m > 1 => Half(m) \in 1..Half(n)
    BY DEF Half
  <2>2. T(n) = n + T(Half(n)) /\ T(Half(n)) \in Nat /\ T(Half(m)) \in Nat
    BY <1>1, <2>1
  <2>3. CASE m = 1
    BY <1>1, <2>1, <2>2, <2>3
  <2>4. CASE m # 1
    <3>1. m > 1
      BY <2>4
    <3>2. T(m) = m + T(Half(m))
      BY <1>1, <2>1, <3>1
    <3>3. T(Half(m)) <= T(Half(n))
      <4>1. CASE Half(m) = Half(n)
        <5>1. \A x \in Nat : x <= x
          OBVIOUS
        <5> QED
          BY <2>2, <4>1, <5>1
      <4>2. CASE Half(m) # Half(n)
        <5>1. Half(m) \in 1..Half(n) - 1
          BY <2>1, <3>1, <4>2
        <5>2. Half(n) \in A
          BY <1>2, <2>1
        <5>3. T(Half(m)) < T(Half(n))
          BY <5>1, <5>2
        <5> QED
          BY <2>2, <5>3
      <4> QED
        BY <4>1, <4>2
    <3> QED
      BY <2>1, <2>2, <3>2, <3>3
  <2> QED
    BY <2>3, <2>4
<1>3. Nat \subseteq A
  <2>1. \A n \in Nat : 0..n - 1 \subseteq A => n \in A
    BY <1>2
  <2> HIDE DEF A
  <2> QED
    BY <2>1, StrongInduction
<1> QED
  BY <1>3 DEF T

-----------------------------------------------------------------------------
(* The items of make_merkle_proof. *)
Results(nodes) == {Ok(Entry(node)) : node \in Range(nodes)} \cup {Err("InvalidMerkleProof")}

Step(nodes, items, offset, size, index) ==
    LET at == offset + ProofSibling(index, size)
    IN  IF size > 1
        THEN IF at < Len(nodes)
             THEN <<Ok(Entry(nodes[at + 1]))>> \o items[<<offset + size, Half(size), index \div 2>>]
             ELSE <<Err("InvalidMerkleProof")>>
        ELSE IF AtRoot(offset, Len(nodes)) THEN <<>>
        ELSE <<Err("InvalidMerkleProof")>>

Walks(nodes, items) ==
    \A offset, size, index \in Nat :
      /\ items[<<offset, size, index>>] \in Seq(Results(nodes))
      /\ items[<<offset, size, index>>] = Step(nodes, items, offset, size, index)

Yields(nodes, items) ==
    \A claimed, leaves \in Nat :
      make_merkle_proof(nodes, claimed, leaves) =
        IF claimed >= leaves THEN items[<<Len(nodes), 0, claimed>>]
        ELSE items[<<0, leaves, claimed>>]

LEMMA Stepping ==
  ASSUME NEW S, NEW nodes \in Seq(S), NEW f,
         NEW offset \in Nat, NEW size \in Nat, NEW index \in Nat,
         size > 1 => f[<<offset + size, Half(size), index \div 2>>] \in Seq(Results(nodes))
  PROVE  Step(nodes, f, offset, size, index) \in Seq(Results(nodes))
<1> DEFINE R == Results(nodes)
           at == offset + ProofSibling(index, size)
           e == Err("InvalidMerkleProof")
<1>1. e \in R /\ \A i \in 1..Len(nodes) : Ok(Entry(nodes[i])) \in R
  BY DEF Results, Range
<1> HIDE DEF R, e
<1>2. <<e>> \in Seq(R) /\ <<>> \in Seq(R)
  BY <1>1
<1>3. ASSUME size > 1, at < Len(nodes)
      PROVE  <<Ok(Entry(nodes[at + 1]))>> \o f[<<offset + size, Half(size), index \div 2>>] \in Seq(R)
  <2>1. at + 1 \in 1..Len(nodes)
    BY <1>3 DEF ProofSibling, Smaller
  <2>2. Ok(Entry(nodes[at + 1])) \in R
    BY <2>1, <1>1
  <2>3. f[<<offset + size, Half(size), index \div 2>>] \in Seq(R)
    BY <1>3 DEF R
  <2> QED
    BY <2>2, <2>3, Headed
<1>4. Step(nodes, f, offset, size, index) =
        IF size > 1
        THEN IF at < Len(nodes)
             THEN <<Ok(Entry(nodes[at + 1]))>> \o f[<<offset + size, Half(size), index \div 2>>]
             ELSE <<e>>
        ELSE IF AtRoot(offset, Len(nodes)) THEN <<>> ELSE <<e>>
  BY DEF Step, e
<1> HIDE DEF at
<1>5. Step(nodes, f, offset, size, index) \in Seq(R)
  BY <1>2, <1>3, <1>4, Zenon
<1> QED
  BY <1>5 DEF R

LEMMA Items ==
  ASSUME NEW S, NEW nodes \in Seq(S)
  PROVE  \E items : Walks(nodes, items) /\ Yields(nodes, items)
<1> DEFINE D == Nat \X Nat \X Nat
           V == Seq(Results(nodes))
           Then(f, it) == Step(nodes, f, it[1], it[2], it[3])
           measure == [d \in D |-> d[2]]
           step == [x \in [D -> V] \X D |-> Then(x[1], x[2])]
           Fits(f) == f = [it \in D |-> Then(f, it)]
           F == CHOOSE f : Fits(f)
<1>1. \A claimed, leaves \in Nat :
        make_merkle_proof(nodes, claimed, leaves) =
          IF claimed >= leaves THEN F[<<Len(nodes), 0, claimed>>] ELSE F[<<0, leaves, claimed>>]
  BY DEF make_merkle_proof, Step
<1>2. ASSUME NEW d \in D
      PROVE  /\ d = <<d[1], d[2], d[3]>> /\ d[1] \in Nat /\ d[2] \in Nat /\ d[3] \in Nat
             /\ <<d[1] + d[2], Half(d[2]), d[3] \div 2>> \in D
             /\ d[2] > 1 => measure[<<d[1] + d[2], Half(d[2]), d[3] \div 2>>] < measure[d]
  <2>1. d = <<d[1], d[2], d[3]>> /\ d[1] \in Nat /\ d[2] \in Nat /\ d[3] \in Nat
    OBVIOUS
  <2>2. d[1] + d[2] \in Nat /\ Half(d[2]) \in Nat /\ d[3] \div 2 \in Nat
    <3>1. \A x, y, z \in Nat : x + y \in Nat /\ Half(y) \in Nat /\ z \div 2 \in Nat
      BY DEF Half
    <3> QED
      BY <2>1, <3>1, Zenon
  <2>3. <<d[1] + d[2], Half(d[2]), d[3] \div 2>> \in D
    BY <2>2
  <2>4. d[2] > 1 => Half(d[2]) < d[2]
    BY <2>1, Halves
  <2> QED
    BY <2>1, <2>3, <2>4
<1>3. ASSUME NEW f, NEW d \in D,
             d[2] > 1 => f[<<d[1] + d[2], Half(d[2]), d[3] \div 2>>] \in V
      PROVE  Then(f, d) \in V
  BY <1>2, <1>3, Stepping
<1>4. V # {}
  <2>1. <<>> \in V
    OBVIOUS
  <2> QED
    BY <2>1, Zenon
<1>5. measure \in [D -> Nat]
  OBVIOUS
<1>6. step \in [[D -> V] \X D -> V]
  <2> HIDE DEF V, Then
  <2>1. \A f \in [D -> V], d \in D : Then(f, d) \in V
    <3> HIDE DEF D
    <3> QED
      BY <1>2, <1>3
  <2> HIDE DEF D
  <2> QED
    BY <2>1
<1>7. LooksBelow(D, V, measure, step)
  <2> SUFFICES ASSUME NEW d \in D, NEW g \in [D -> V], NEW h \in [D -> V], Alike(D, measure, d, g, h)
               PROVE  step[<<g, d>>] = step[<<h, d>>]
    BY DEF LooksBelow
  <2> DEFINE rest == <<d[1] + d[2], Half(d[2]), d[3] \div 2>>
  <2>1. d[2] > 1 => g[rest] = h[rest]
    <3> HIDE DEF D, measure, V, rest
    <3> QED
      BY <1>2 DEF Alike, rest
  <2>2. Then(g, d) = Then(h, d)
    <3> HIDE DEF D, V
    <3> QED
      BY <2>1 DEF Step
  <2> HIDE DEF D, V, Then
  <2> QED
    BY <2>2
<1>8. PICK f : Solves(D, V, step, f)
  <2> HIDE DEF measure, step, D, V
  <2> QED
    BY <1>4, <1>5, <1>6, <1>7, Recursion
<1>9. f \in [D -> V] /\ \A d \in D : f[d] = Then(f, d)
  <2> HIDE DEF D, V, Then
  <2> QED
    BY <1>8 DEF Solves
<1>10. Fits(f)
  <2> HIDE DEF D, V, Then
  <2> QED
    BY <1>9
<1>11. Fits(F)
  <2> HIDE DEF Fits
  <2> QED
    BY <1>10
<1> HIDE DEF F
<1>12. \A d \in D : F[d] = Then(F, d)
  <2> HIDE DEF D, Then
  <2> QED
    BY <1>11
<1> DEFINE A == {n \in Nat : \A d \in D : d[2] = n => F[d] \in V}
<1>13. ASSUME NEW n \in Nat, 0..n - 1 \subseteq A, NEW d \in D, d[2] = n PROVE F[d] \in V
  <2> DEFINE rest == <<d[1] + d[2], Half(d[2]), d[3] \div 2>>
  <2>1. d[2] > 1 => F[rest] \in V
    <3>1. rest \in D /\ rest[2] = Half(d[2])
      BY <1>2
    <3>2. d[2] > 1 => Half(d[2]) \in 0..n - 1
      BY <1>13, Halves
    <3> HIDE DEF rest, D, V
    <3> QED
      BY <3>1, <3>2, <1>13
  <2>2. Then(F, d) \in V
    BY <2>1, <1>3
  <2> HIDE DEF Then, D, V
  <2> QED
    BY <2>2, <1>12
<1>14. Nat \subseteq A
  <2>1. \A n \in Nat : 0..n - 1 \subseteq A => n \in A
    <3> HIDE DEF D, V
    <3> QED
      BY <1>13
  <2> HIDE DEF A
  <2> QED
    BY <2>1, StrongInduction
<1>15. \A offset, size, index \in Nat :
         F[<<offset, size, index>>] \in V
         /\ F[<<offset, size, index>>] = Step(nodes, F, offset, size, index)
  <2> SUFFICES ASSUME NEW offset \in Nat, NEW size \in Nat, NEW index \in Nat
               PROVE  F[<<offset, size, index>>] \in V
                      /\ F[<<offset, size, index>>] = Step(nodes, F, offset, size, index)
    OBVIOUS
  <2> DEFINE d == <<offset, size, index>>
  <2>1. d \in D /\ d[1] = offset /\ d[2] = size /\ d[3] = index
    OBVIOUS
  <2> HIDE DEF d
  <2>2. F[d] \in V
    <3> HIDE DEF D, V
    <3> QED
      BY <2>1, <1>14
  <2>3. F[d] = Step(nodes, F, offset, size, index)
    <3> HIDE DEF D
    <3> QED
      BY <2>1, <1>12
  <2> QED
    BY <2>2, <2>3 DEF d
<1>16. Walks(nodes, F)
  BY <1>15 DEF Walks
<1>17. Yields(nodes, F)
  BY <1>1 DEF Yields
<1> QED
  BY <1>16, <1>17

-----------------------------------------------------------------------------
(* The path of a leaf: its index on level l. *)
Up(index) == LET U[l \in Nat] == IF l = 0 THEN index ELSE U[l - 1] \div 2 IN U

LEMMA UpIs ==
  ASSUME NEW index \in Nat
  PROVE  /\ Up(index)[0] = index
         /\ \A l \in Nat : Up(index)[l] \in Nat /\ Up(index)[l + 1] = Up(index)[l] \div 2
<1> DEFINE measure == [l \in Nat |-> l]
           step == [x \in [Nat -> Nat] \X Nat |-> IF x[2] = 0 THEN index ELSE x[1][x[2] - 1] \div 2]
           Fits(f) == f = [l \in Nat |-> IF l = 0 THEN index ELSE f[l - 1] \div 2]
           U == CHOOSE f : Fits(f)
<1>1. measure \in [Nat -> Nat]
  OBVIOUS
<1>2. step \in [[Nat -> Nat] \X Nat -> Nat]
  OBVIOUS
<1>3. LooksBelow(Nat, Nat, measure, step)
  <2> SUFFICES ASSUME NEW l \in Nat, NEW g \in [Nat -> Nat], NEW h \in [Nat -> Nat],
                      Alike(Nat, measure, l, g, h)
               PROVE  step[<<g, l>>] = step[<<h, l>>]
    BY DEF LooksBelow
  <2>1. l # 0 => g[l - 1] = h[l - 1]
    BY DEF Alike
  <2> QED
    BY <2>1
<1>4. PICK f : Solves(Nat, Nat, step, f)
  <2> HIDE DEF measure, step
  <2> QED
    BY <1>1, <1>2, <1>3, Recursion
<1>5. f \in [Nat -> Nat] /\ \A l \in Nat : f[l] = IF l = 0 THEN index ELSE f[l - 1] \div 2
  BY <1>4 DEF Solves
<1>6. Fits(f)
  BY <1>5
<1>7. Fits(U)
  <2> HIDE DEF Fits
  <2> QED
    BY <1>6
<1>8. Up(index) = U
  BY DEF Up
<1> HIDE DEF U
<1>9. U[0] = index
  BY <1>7
<1>10. ASSUME NEW l \in Nat PROVE U[l + 1] = U[l] \div 2
  <2>1. l + 1 \in Nat /\ l + 1 # 0 /\ (l + 1) - 1 = l
    OBVIOUS
  <2> QED
    BY <2>1, <1>7
<1> DEFINE A == {l \in Nat : U[l] \in Nat}
<1>11. 0 \in A
  BY <1>9
<1>12. ASSUME NEW l \in Nat, l \in A PROVE l + 1 \in A
  <2>1. U[l] \in Nat
    BY <1>12
  <2>2. U[l + 1] \in Nat
    BY <2>1, <1>10
  <2> QED
    BY <2>2
<1>13. Nat \subseteq A
  <2> HIDE DEF A
  <2> QED
    BY <1>11, <1>12, SetInduction
<1> QED
  BY <1>8, <1>9, <1>10, <1>13

(* A leaf's ancestor is on the level, as long as the leaf is. *)
LEMMA OnLevel ==
  ASSUME NEW H, Closed(H), NEW hashes \in Seq(H), Len(hashes) # 0,
         NEW index \in 0..Len(hashes) - 1
  PROVE  \A l \in Nat : Up(index)[l] < Width(hashes, l)
<1> DEFINE W(l) == Width(hashes, l)
           U(l) == Up(index)[l]
           A == {l \in Nat : U(l) < W(l)}
<1>1. \A l \in Nat : W(l) \in Nat /\ W(l + 1) = Half(W(l))
  BY Widths
<1>2. W(0) = Len(hashes)
  BY LevelsIn DEF Width
<1>3. index \in Nat /\ U(0) = index /\ \A l \in Nat : U(l) \in Nat /\ U(l + 1) = U(l) \div 2
  <2>1. index \in Nat
    OBVIOUS
  <2> QED
    BY <2>1, UpIs, Zenon
<1> HIDE DEF W, U
<1>4. 0 \in A
  BY <1>2, <1>3
<1>5. ASSUME NEW l \in Nat, l \in A PROVE l + 1 \in A
  <2>1. \A u, w \in Nat : u < w => u \div 2 < Half(w)
    BY DEF Half
  <2>2. U(l) < W(l) /\ U(l) \in Nat /\ W(l) \in Nat
    BY <1>1, <1>3, <1>5
  <2>3. U(l + 1) < W(l + 1)
    BY <1>1, <1>3, <2>1, <2>2
  <2> QED
    BY <2>3
<1>6. Nat \subseteq A
  <2> HIDE DEF A
  <2> QED
    BY <1>4, <1>5, SetInduction
<1> QED
  BY <1>6 DEF U, W

(* The nodes of the tree by level and place, and the one the iterator      *)
(* takes beside the path of `index`.                                       *)
NodeAt(hashes, l, i) == Levels(hashes)[l][i]
Beside(hashes, index, l) ==
    NodeAt(hashes, l, ProofSibling(Up(index)[l], Width(hashes, l)) + 1)

LEMMA Inner ==
  ASSUME NEW H, Closed(H), NEW hashes \in Seq(H), Len(hashes) # 0,
         NEW l \in Nat, NEW i \in 1..Width(hashes, l + 1)
  PROVE  /\ 2 * i - 1 \in 1..Width(hashes, l)
         /\ 2 * i <= Width(hashes, l) => 2 * i \in 1..Width(hashes, l)
         /\ NodeAt(hashes, l + 1, i) =
              join_nodes(NodeAt(hashes, l, 2 * i - 1),
                         NodeAt(hashes, l, IF 2 * i <= Width(hashes, l) THEN 2 * i ELSE 2 * i - 1))
<1> DEFINE L == Levels(hashes)
           w == Width(hashes, l)
<1>1. L[l] \in Seq(H) /\ Len(L[l]) # 0 /\ L[l + 1] = Above(L[l])
  BY LevelsIn
<1>2. w \in Nat /\ w = Len(L[l]) /\ Width(hashes, l + 1) = Half(w)
  BY Widths DEF Width
<1>3. i \in 1..Half(w)
  BY <1>2
<1> HIDE DEF L, w
<1>4. Above(L[l])[i] = join_nodes(L[l][2 * i - 1], L[l][IF 2 * i <= w THEN 2 * i ELSE 2 * i - 1])
  BY <1>1, <1>2, <1>3, AboveIs
<1>5. 2 * i - 1 \in 1..w /\ (2 * i <= w => 2 * i \in 1..w)
  <2>1. \A n \in Nat : \A k \in 1..Half(n) : 2 * k - 1 \in 1..n /\ (2 * k <= n => 2 * k \in 1..n)
    BY DEF Half
  <2> QED
    BY <1>2, <1>3, <2>1, Zenon
<1> QED
  BY <1>1, <1>4, <1>5 DEF NodeAt, L, w

LEMMA InTree ==
  ASSUME NEW H, Closed(H), NEW hashes \in Seq(H), Len(hashes) # 0,
         NEW l \in 0..Depth(hashes), NEW i \in 1..Width(hashes, l)
  PROVE  /\ Offset(hashes, l) + i \in 1..Len(Tree(hashes))
         /\ Tree(hashes)[Offset(hashes, l) + i] = NodeAt(hashes, l, i)
         /\ NodeAt(hashes, l, i) \in H
<1>1. Depth(hashes) \in Nat
  BY DepthIs
<1>2. l \in Nat /\ Depth(hashes) + 1 \in Nat /\ l < Depth(hashes) + 1
  BY <1>1
<1>3. Len(Tree(hashes)) = Offset(hashes, Depth(hashes) + 1)
  BY DEF Tree, Offset
<1>4. /\ Offset(hashes, l) + i \in 1..Offset(hashes, Depth(hashes) + 1)
      /\ Below(hashes)[Depth(hashes) + 1][Offset(hashes, l) + i] = Levels(hashes)[l][i]
  BY <1>2, Placed
<1>5. Levels(hashes)[l] \in Seq(H)
  BY <1>2, LevelsIn
<1>6. Levels(hashes)[l][i] \in H
  BY <1>5 DEF Width
<1> QED
  BY <1>3, <1>4, <1>6 DEF Tree, NodeAt

LEMMA EntryTwice == \A node : Entry(Entry(node)) = Entry(node)
BY DEF Entry

Siblings(hashes, index, items) ==
    /\ items = [i \in 1..Depth(hashes) |-> items[i]]
    /\ \A i \in 1..Depth(hashes) : items[i] = Ok(Entry(Beside(hashes, index, i - 1)))

LEMMA TreeIn ==
  ASSUME NEW H, Closed(H), NEW hashes \in Seq(H), Len(hashes) # 0
  PROVE  Tree(hashes) \in Seq(H) /\ Tree(hashes) # <<>>
<1>1. Depth(hashes) + 1 \in Nat
  BY DepthIs
<1>2. Tree(hashes) \in Seq(H)
  BY <1>1, BelowIn DEF Tree
<1>3. Len(Tree(hashes)) = Offset(hashes, Depth(hashes)) + 1 /\ Offset(hashes, Depth(hashes)) \in Nat
  BY DepthIs, TreeSizes, Offsets
<1>4. Len(<<>>) = 0
  OBVIOUS
<1> QED
  BY <1>2, <1>3, <1>4

LEMMA SiblingInLevel ==
  ASSUME NEW w \in Nat, NEW u \in 0..w - 1
  PROVE  ProofSibling(u, w) \in 0..w - 1
BY DEF ProofSibling, Smaller

LEMMA PathYielded ==
  ASSUME NEW H, Closed(H), NEW hashes \in Seq(H), Len(hashes) # 0,
         NEW index \in 0..Len(hashes) - 1
  PROVE  Siblings(hashes, index, make_merkle_proof(Tree(hashes), index, Len(hashes)))
<1> DEFINE T == Tree(hashes)
           d == Depth(hashes)
           W(l) == Width(hashes, l)
           O(l) == Offset(hashes, l)
           U(l) == Up(index)[l]
           S(l) == ProofSibling(U(l), W(l))
           e(l) == Ok(Entry(Beside(hashes, index, l)))
           V == Results(T)
<1>1. T \in Seq(H) /\ Len(T) = O(d) + 1 /\ d \in Nat
  BY TreeIn, TreeSizes, DepthIs
<1>2. PICK items : Walks(T, items) /\ Yields(T, items)
  <2> HIDE DEF T
  <2> QED
    BY <1>1, Items
<1> DEFINE at(l) == <<O(l), W(l), U(l)>>
           R == [l \in 0..d |-> items[at(l)]]
           x == [l \in 0..d |-> e(l)]
<1>3. make_merkle_proof(T, index, Len(hashes)) = items[<<0, Len(hashes), index>>]
  <2>1. index \in Nat /\ Len(hashes) \in Nat /\ ~(index >= Len(hashes))
    OBVIOUS
  <2> HIDE DEF T
  <2> QED
    BY <1>2, <2>1 DEF Yields
<1>4. /\ \A l \in Nat : W(l) \in Nat /\ W(l + 1) = Half(W(l))
      /\ W(d) = 1 /\ W(0) = Len(hashes) /\ \A l \in 0..d - 1 : W(l) > 1
  BY Widths, LevelsIn, DepthIs DEF Width
<1>5. /\ O(0) = 0 /\ \A l \in Nat : O(l) \in Nat /\ O(l + 1) = O(l) + W(l)
  <2>1. 0 \in Nat
    OBVIOUS
  <2> QED
    BY <2>1, Offsets
<1>6. /\ U(0) = index /\ \A l \in Nat : U(l) \in Nat /\ U(l + 1) = U(l) \div 2 /\ U(l) < W(l)
  <2>1. index \in Nat
    OBVIOUS
  <2>2. U(0) = index /\ \A l \in Nat : U(l) \in Nat /\ U(l + 1) = U(l) \div 2
    BY <2>1, UpIs, Zenon
  <2>3. \A l \in Nat : U(l) < W(l)
    BY OnLevel
  <2> QED
    BY <2>2, <2>3
<1> HIDE DEF W, O, U
<1>7. ASSUME NEW l \in 0..d
      PROVE  /\ S(l) \in Nat /\ O(l) + S(l) < Len(T) /\ (O(l) + S(l)) + 1 \in 1..Len(T)
             /\ T[(O(l) + S(l)) + 1] = Beside(hashes, index, l)
  <2>1. l \in Nat
    BY <1>1
  <2>2. S(l) \in 0..W(l) - 1
    <3>1. W(l) \in Nat /\ U(l) \in Nat /\ U(l) < W(l)
      BY <1>4, <1>6, <2>1
    <3>2. U(l) \in 0..W(l) - 1
      BY <3>1
    <3> QED
      BY <3>1, <3>2, SiblingInLevel
  <2>3. O(l) \in Nat /\ W(l) \in Nat
    BY <1>4, <1>5, <2>1
  <2>4. S(l) + 1 \in 1..Width(hashes, l)
    BY <2>2, <2>3 DEF W
  <2>5. /\ O(l) + (S(l) + 1) \in 1..Len(T)
        /\ T[O(l) + (S(l) + 1)] = NodeAt(hashes, l, S(l) + 1)
    <3> HIDE DEF S
    <3> QED
      BY <2>4, InTree DEF O
  <2>6. NodeAt(hashes, l, S(l) + 1) = Beside(hashes, index, l)
    BY DEF Beside, U, W
  <2> HIDE DEF S, T
  <2>7. S(l) \in Nat /\ O(l) + (S(l) + 1) = (O(l) + S(l)) + 1
    BY <2>2, <2>3
  <2>8. Len(T) \in Nat
    BY <1>1
  <2>9. O(l) + S(l) < Len(T)
    BY <2>3, <2>5, <2>7, <2>8
  <2> QED
    BY <2>5, <2>6, <2>7, <2>9
<1>8. ASSUME NEW l \in 0..d PROVE R[l] \in Seq(V) /\ R[l] = Step(T, items, O(l), W(l), U(l))
  <2>1. O(l) \in Nat /\ W(l) \in Nat /\ U(l) \in Nat
    <3>1. l \in Nat
      BY <1>1
    <3> QED
      BY <3>1, <1>4, <1>5, <1>6
  <2> HIDE DEF T
  <2>2. items[at(l)] \in Seq(V) /\ items[at(l)] = Step(T, items, O(l), W(l), U(l))
    BY <2>1, <1>2 DEF Walks
  <2> QED
    BY <2>2
<1>9. ASSUME NEW l \in 0..d - 1 PROVE x[l] \in V /\ R[l] = <<x[l]>> \o R[l + 1]
  <2>1. l \in 0..d /\ l + 1 \in 0..d /\ l \in Nat
    BY <1>1
  <2>2. W(l) > 1
    BY <1>4
  <2>3. O(l) + S(l) < Len(T) /\ T[(O(l) + S(l)) + 1] = Beside(hashes, index, l)
    BY <1>7, <2>1
  <2>4. O(l + 1) = O(l) + W(l) /\ W(l + 1) = Half(W(l)) /\ U(l + 1) = U(l) \div 2
    BY <1>4, <1>5, <1>6, <2>1
  <2>5. Step(T, items, O(l), W(l), U(l)) =
          <<Ok(Entry(T[(O(l) + S(l)) + 1]))>> \o items[<<O(l) + W(l), Half(W(l)), U(l) \div 2>>]
    <3> HIDE DEF T
    <3> QED
      BY <2>2, <2>3 DEF Step
  <2>6. R[l] = Step(T, items, O(l), W(l), U(l))
    BY <1>8, <2>1
  <2>7. R[l + 1] = items[<<O(l) + W(l), Half(W(l)), U(l) \div 2>>]
    BY <2>1, <2>4
  <2>8. x[l] = Ok(Entry(T[(O(l) + S(l)) + 1]))
    BY <2>1, <2>3
  <2>9. x[l] \in V
    <3>1. (O(l) + S(l)) + 1 \in 1..Len(T)
      BY <1>7, <2>1
    <3>2. T[(O(l) + S(l)) + 1] \in Range(T)
      BY <1>1, <3>1 DEF Range
    <3> HIDE DEF x
    <3> QED
      BY <2>8, <3>2 DEF Results
  <2> HIDE DEF R, x
  <2> QED
    BY <2>5, <2>6, <2>7, <2>8, <2>9, Zenon
<1>10. R[d] = <<>>
  <2>1. d \in 0..d
    BY <1>1
  <2>2. R[d] = Step(T, items, O(d), W(d), U(d))
    BY <1>8, <2>1
  <2>3. ~(1 > 1)
    OBVIOUS
  <2>4. Step(T, items, O(d), W(d), U(d)) = <<>>
    BY <1>1, <1>4, <2>3 DEF Step, AtRoot
  <2> QED
    BY <2>2, <2>4
<1>11. Ahead(d, x, R[0], 0)
  <2>1. Unfolds(V, d, x, R)
    BY <1>8, <1>9, <1>10 DEF Unfolds
  <2>2. d \in Nat
    BY <1>1
  <2> HIDE DEF x, R, V, d
  <2> QED
    BY <2>1, <2>2, Unfolded
<1>12. R[0] = items[<<0, Len(hashes), index>>] /\ 0 \in 0..d
  <2>1. 0 \in 0..d
    BY <1>1
  <2>2. at(0) = <<0, Len(hashes), index>>
    BY <1>4, <1>5, <1>6
  <2> HIDE DEF at, d
  <2> QED
    BY <2>1, <2>2
<1>13. \A i \in 1..d : x[0 + i - 1] = e(i - 1)
  BY <1>1
<1> DEFINE q == R[0]
<1>14. q \in Seq(V)
  BY <1>8, <1>12
<1>15. Len(q) = d /\ \A i \in 1..d : q[i] = e(i - 1)
  <2>1. d - 0 = d
    BY <1>1
  <2> HIDE DEF x, e, R
  <2> QED
    BY <1>11, <1>13, <2>1 DEF Ahead
<1> HIDE DEF V, R
<1>16. q = [i \in 1..d |-> q[i]]
  <2> HIDE DEF q
  <2> QED
    BY <1>14, <1>15
<1>17. Siblings(hashes, index, q)
  BY <1>15, <1>16 DEF Siblings
<1> QED
  BY <1>3, <1>12, <1>17

(* set_merkle_proof stores them. *)
Path(hashes, index) == [i \in 1..Depth(hashes) |-> Entry(Beside(hashes, index, i - 1))]

LEMMA PathStored ==
  ASSUME NEW H, Closed(H), NEW hashes \in Seq(H), Len(hashes) # 0, NEW index, NEW items,
         Siblings(hashes, index, items)
  PROVE  set_merkle_proof(items, get_proof_size(Len(hashes))) = Ok(Path(hashes, index))
<1> DEFINE d == Depth(hashes)
           e(i) == Entry(Beside(hashes, index, i - 1))
           I == {i \in 1..Len(items) : ~items[i].ok}
           bad == IF I # {} THEN Min(I) ELSE 0
           size == get_proof_size(Len(hashes))
<1>1. d \in Nat /\ size = d
  BY DepthIs, ProofSizeIs
<1>2. items = [i \in 1..d |-> items[i]] /\ \A i \in 1..d : items[i] = Ok(e(i))
  BY DEF Siblings
<1>3. Path(hashes, index) = [i \in 1..d |-> e(i)]
  BY DEF Path
<1> HIDE DEF d, e, size
<1>4. IsSeq(items) /\ Len(items) = d /\ DOMAIN items = 1..d
  BY <1>1, <1>2, FunctionIsSeq
<1>5. I = {}
  <2>1. ASSUME NEW i \in 1..d PROVE items[i].ok
    BY <1>2 DEF Ok
  <2> QED
    BY <1>4, <2>1
<1>6. SelectInSeq(items, LAMBDA i : ~i.ok) = bad
  BY DEF SelectInSeq
<1>7. set_merkle_proof(items, size) =
        IF bad # 0 /\ bad <= size THEN items[bad]
        ELSE IF Len(items) # size THEN Err("InvalidMerkleProof")
        ELSE Ok([i \in DOMAIN items |-> items[i].value])
  <2> HIDE DEF bad
  <2> QED
    BY <1>6 DEF set_merkle_proof
<1>8. bad = 0
  BY <1>5
<1>9. set_merkle_proof(items, size) = Ok([i \in 1..d |-> items[i].value])
  <2> HIDE DEF bad
  <2> QED
    BY <1>1, <1>4, <1>7, <1>8
<1>10. [i \in 1..d |-> items[i].value] = [i \in 1..d |-> e(i)]
  BY <1>2 DEF Ok
<1> QED
  BY <1>3, <1>9, <1>10 DEF size

(* A proof of the path's siblings leads from a leaf to the root. *)
LEMMA JoinsEntries ==
  ASSUME NEW a, NEW b, NEW c, NEW d, Entry(a) = Entry(c), Entry(b) = Entry(d)
  PROVE  join_nodes(a, b) = join_nodes(c, d)
BY DEF join_nodes

LEMMA OneUp ==
  ASSUME NEW H, Closed(H), NEW hashes \in Seq(H), Len(hashes) # 0,
         NEW l \in Nat, NEW u \in 0..Width(hashes, l) - 1, NEW entry,
         Entry(entry) = Entry(NodeAt(hashes, l, ProofSibling(u, Width(hashes, l)) + 1))
  PROVE  Parent(u, NodeAt(hashes, l, u + 1), entry) = NodeAt(hashes, l + 1, u \div 2 + 1)
<1> DEFINE w == Width(hashes, l)
           N(i) == NodeAt(hashes, l, i)
           k == u \div 2 + 1
           s == ProofSibling(u, w)
<1>1. w \in Nat /\ Width(hashes, l + 1) = Half(w)
  BY Widths
<1>2. Entry(entry) = Entry(N(s + 1))
  OBVIOUS
<1>3. k \in 1..Width(hashes, l + 1)
  BY <1>1 DEF Half
<1>4. NodeAt(hashes, l + 1, k) = join_nodes(N(2 * k - 1), N(IF 2 * k <= w THEN 2 * k ELSE 2 * k - 1))
  BY <1>3, Inner
<1>5. u \in 0..w - 1
  OBVIOUS
<1> HIDE DEF N, w
<1>6. CASE u % 2 = 0
  <2>1. 2 * k - 1 = u + 1 /\ s + 1 = IF 2 * k <= w THEN 2 * k ELSE 2 * k - 1
    BY <1>1, <1>5, <1>6 DEF ProofSibling, Smaller
  <2>2. join_nodes(N(u + 1), entry) = join_nodes(N(u + 1), N(s + 1))
    BY <1>2, JoinsEntries
  <2>3. Parent(u, N(u + 1), entry) = join_nodes(N(u + 1), entry)
    BY <1>6 DEF Parent
  <2> QED
    BY <1>4, <2>1, <2>2, <2>3 DEF N
<1>7. CASE u % 2 # 0
  <2>1. 2 * k = u + 1 /\ 2 * k <= w /\ s + 1 = 2 * k - 1
    BY <1>1, <1>5, <1>7 DEF ProofSibling, Smaller
  <2>2. join_nodes(entry, N(u + 1)) = join_nodes(N(s + 1), N(u + 1))
    BY <1>2, JoinsEntries
  <2>3. Parent(u, N(u + 1), entry) = join_nodes(entry, N(u + 1))
    BY <1>7 DEF Parent
  <2> QED
    BY <1>4, <2>1, <2>2, <2>3 DEF N
<1> QED
  BY <1>6, <1>7

LEMMA PathLeads ==
  ASSUME NEW H, Closed(H), NEW hashes \in Seq(H), Len(hashes) # 0,
         NEW index \in 0..Len(hashes) - 1,
         NEW E, NEW proof \in Seq(E), Len(proof) = Depth(hashes),
         \A i \in 1..Depth(hashes) : Entry(proof[i]) = Entry(Beside(hashes, index, i - 1))
  PROVE  get_merkle_root(index, hashes[index + 1], proof) = Ok(root(Tree(hashes)))
<1> DEFINE d == Depth(hashes)
           W(l) == Width(hashes, l)
           U(l) == Up(index)[l]
           N(l, i) == NodeAt(hashes, l, i)
           leaf == hashes[index + 1]
           n == Len(proof)
<1>1. PICK up, hash : Climbs(index, leaf, proof, up, hash)
  <2>1. index \in Nat
    OBVIOUS
  <2> QED
    BY <2>1, Climbing
<1>2. /\ n = d /\ d \in Nat /\ index \in Nat
      /\ \A l \in Nat : W(l) \in Nat /\ U(l) \in Nat /\ U(l) < W(l) /\ U(l + 1) = U(l) \div 2
      /\ W(d) = 1 /\ U(0) = index
  <2>1. index \in Nat
    OBVIOUS
  <2>2. U(0) = index /\ \A l \in Nat : U(l) \in Nat /\ U(l + 1) = U(l) \div 2
    BY <2>1, UpIs, Zenon
  <2>3. \A l \in Nat : U(l) < W(l)
    BY OnLevel
  <2>4. W(d) = 1 /\ d \in Nat /\ \A l \in Nat : W(l) \in Nat
    BY DepthIs, Widths
  <2> HIDE DEF W, U
  <2> QED
    BY <2>1, <2>2, <2>3, <2>4
<1>3. /\ up[0] = index /\ hash[0] = leaf
      /\ \A i \in 1..n : up[i] = up[i - 1] \div 2 /\ hash[i] = Parent(up[i - 1], hash[i - 1], proof[i])
      /\ get_merkle_root(index, leaf, proof) =
           IF up[n] = 0 THEN Ok(hash[n]) ELSE Err("InvalidMerkleProof")
  BY <1>1 DEF Climbs
<1>4. \A i \in 1..d : Entry(proof[i]) = Entry(N(i - 1, ProofSibling(U(i - 1), W(i - 1)) + 1))
  BY DEF Beside
<1>5. N(0, index + 1) = leaf
  BY LevelsIn DEF NodeAt
<1>6. root(Tree(hashes)) = N(d, 1)
  <2>1. Tree(hashes) \in Seq(H) /\ Tree(hashes) # <<>> /\ Len(Tree(hashes)) = Offset(hashes, d) + 1
    BY TreeIn, TreeSizes
  <2>2. d \in 0..d /\ 1 \in 1..Width(hashes, d)
    BY <1>2
  <2>3. Tree(hashes)[Offset(hashes, d) + 1] = N(d, 1)
    BY <2>2, InTree
  <2> QED
    BY <2>1, <2>3 DEF root, Last
<1>7. ASSUME NEW l \in Nat, NEW entry, Entry(entry) = Entry(N(l, ProofSibling(U(l), W(l)) + 1))
      PROVE  Parent(U(l), N(l, U(l) + 1), entry) = N(l + 1, U(l + 1) + 1)
  <2>1. U(l) \in Nat /\ W(l) \in Nat /\ U(l) < W(l) /\ U(l + 1) = U(l) \div 2
    BY <1>2
  <2>2. U(l) \in 0..Width(hashes, l) - 1
    BY <2>1
  <2>3. Entry(entry) = Entry(NodeAt(hashes, l, ProofSibling(U(l), Width(hashes, l)) + 1))
    BY <1>7
  <2> HIDE DEF U
  <2>4. Parent(U(l), NodeAt(hashes, l, U(l) + 1), entry) = NodeAt(hashes, l + 1, U(l) \div 2 + 1)
    BY <2>2, <2>3, OneUp
  <2> QED
    BY <2>1, <2>4
<1> HIDE DEF N, W, U, d, n, leaf
<1> DEFINE A == {i \in Nat : i <= d => up[i] = U(i) /\ hash[i] = N(i, U(i) + 1)}
<1>8. 0 \in A
  BY <1>2, <1>3, <1>5
<1>9. ASSUME NEW i \in Nat, i \in A PROVE i + 1 \in A
  <2> SUFFICES ASSUME i + 1 <= d PROVE up[i + 1] = U(i + 1) /\ hash[i + 1] = N(i + 1, U(i + 1) + 1)
    OBVIOUS
  <2>1. i + 1 \in 1..d /\ (i + 1) - 1 = i /\ i <= d
    BY <1>2
  <2>2. up[i] = U(i) /\ hash[i] = N(i, U(i) + 1)
    BY <1>9, <2>1
  <2>3. up[i + 1] = up[i] \div 2 /\ hash[i + 1] = Parent(up[i], hash[i], proof[i + 1])
    BY <1>2, <1>3, <2>1
  <2>4. Entry(proof[i + 1]) = Entry(N(i, ProofSibling(U(i), W(i)) + 1))
    BY <1>4, <2>1
  <2>5. Parent(U(i), N(i, U(i) + 1), proof[i + 1]) = N(i + 1, U(i + 1) + 1)
    BY <1>7, <2>4
  <2>6. U(i + 1) = U(i) \div 2
    BY <1>2
  <2> QED
    BY <2>2, <2>3, <2>5, <2>6
<1>10. Nat \subseteq A
  <2> HIDE DEF A
  <2> QED
    BY <1>8, <1>9, SetInduction
<1>11. up[d] = U(d) /\ hash[d] = N(d, U(d) + 1)
  <2>1. d \in A /\ d <= d
    BY <1>2, <1>10
  <2> QED
    BY <2>1
<1>12. U(d) = 0
  <2>1. U(d) \in Nat /\ U(d) < W(d) /\ W(d) = 1
    BY <1>2
  <2> QED
    BY <2>1
<1>13. get_merkle_root(index, leaf, proof) = Ok(N(d, 1))
  <2>1. 0 + 1 = 1
    OBVIOUS
  <2> QED
    BY <1>2, <1>3, <1>11, <1>12, <2>1
<1> QED
  BY <1>6, <1>13 DEF leaf

-----------------------------------------------------------------------------
(* Any other request runs into an error. *)
AllOk(items) == \A i \in DOMAIN items : items[i].ok

LEMMA ErrIsNotOk == ~AllOk(<<Err("InvalidMerkleProof")>>)
<1>1. 1 \in DOMAIN <<Err("InvalidMerkleProof")>>
  OBVIOUS
<1>2. ~Err("InvalidMerkleProof").ok
  BY DEF Err
<1> QED
  BY <1>1, <1>2 DEF AllOk

LEMMA RestIsOk ==
  ASSUME NEW S, NEW a \in S, NEW q \in Seq(S), AllOk(<<a>> \o q)
  PROVE  AllOk(q)
<1>1. /\ <<a>> \o q \in Seq(S) /\ Len(<<a>> \o q) = Len(q) + 1
      /\ \A i \in 1..Len(q) : (<<a>> \o q)[i + 1] = q[i]
  BY Headed
<1>2. DOMAIN q = 1..Len(q) /\ DOMAIN (<<a>> \o q) = 1..Len(<<a>> \o q)
  BY <1>1
<1>3. ASSUME NEW i \in 1..Len(q) PROVE q[i].ok
  <2>1. i + 1 \in 1..Len(q) + 1
    OBVIOUS
  <2>2. i + 1 \in DOMAIN (<<a>> \o q)
    BY <1>1, <1>2, <2>1, Zenon
  <2>3. (<<a>> \o q)[i + 1].ok
    BY <2>2 DEF AllOk
  <2>4. (<<a>> \o q)[i + 1] = q[i]
    BY <1>1, Zenon
  <2> QED
    BY <2>3, <2>4, Zenon
<1> QED
  BY <1>2, <1>3 DEF AllOk

LEMMA WalkEndsAtRoot ==
  ASSUME NEW S, NEW nodes \in Seq(S), NEW items, Walks(nodes, items),
         NEW offset \in Nat, NEW size \in Nat, size # 0, NEW index \in Nat,
         AllOk(items[<<offset, size, index>>])
  PROVE  offset + get_merkle_tree_size[size] = Len(nodes)
<1> DEFINE T(n) == get_merkle_tree_size[n]
           Fine(o, n, i) == AllOk(items[<<o, n, i>>])
           A == {n \in Nat : n # 0 => \A o, i \in Nat : Fine(o, n, i) => o + T(n) = Len(nodes)}
           V == Seq(Results(nodes))
<1>1. T(1) = 1 /\ \A n \in Nat : T(n) \in Nat /\ (n > 1 => T(n) = n + T(Half(n)))
  <2>1. 1 \in Nat /\ ~(1 > 1)
    OBVIOUS
  <2> QED
    BY <2>1, TreeSizeIs
<1> HIDE DEF T
<1>2. ASSUME NEW n \in Nat, 0..n - 1 \subseteq A, n # 0, NEW o \in Nat, NEW i \in Nat, Fine(o, n, i)
      PROVE  o + T(n) = Len(nodes)
  <2> DEFINE at == o + ProofSibling(i, n)
             rest == <<o + n, Half(n), i \div 2>>
  <2>1. AllOk(Step(nodes, items, o, n, i))
    BY <1>2 DEF Walks
  <2>2. CASE n = 1
    <3>1. ~(n > 1)
      BY <2>2
    <3>2. AtRoot(o, Len(nodes))
      BY <2>1, <3>1, ErrIsNotOk, Zenon DEF Step
    <3> QED
      BY <1>1, <2>2, <3>2 DEF AtRoot
  <2>3. CASE n # 1
    <3>1. n > 1
      BY <1>2, <2>3
    <3>2. at < Len(nodes) /\ AllOk(<<Ok(Entry(nodes[at + 1]))>> \o items[rest])
      BY <2>1, <3>1, ErrIsNotOk, Zenon DEF Step
    <3>3. o + n \in Nat /\ Half(n) \in Nat /\ i \div 2 \in Nat /\ Half(n) # 0 /\ Half(n) \in 0..n - 1
      BY <3>1 DEF Half
    <3>4. items[rest] \in V
      BY <3>3 DEF Walks
    <3>5. Ok(Entry(nodes[at + 1])) \in Results(nodes)
      <4>1. at \in Nat
        BY <3>1 DEF ProofSibling, Smaller
      <4> HIDE DEF at
      <4>2. at + 1 \in 1..Len(nodes)
        BY <3>2, <4>1
      <4>3. nodes[at + 1] \in Range(nodes)
        BY <4>2 DEF Range
      <4> QED
        BY <4>3 DEF Results
    <3> HIDE DEF at, rest
    <3>6. AllOk(items[rest])
      BY <3>2, <3>4, <3>5, RestIsOk
    <3>7. Fine(o + n, Half(n), i \div 2)
      BY <3>6 DEF rest
    <3>8. (o + n) + T(Half(n)) = Len(nodes)
      <4> HIDE DEF Fine
      <4> QED
        BY <1>2, <3>3, <3>7
    <3>9. T(n) = n + T(Half(n)) /\ T(Half(n)) \in Nat
      BY <1>1, <3>1, <3>3
    <3> QED
      BY <3>8, <3>9
  <2> QED
    BY <2>2, <2>3
<1>3. Nat \subseteq A
  <2>1. \A n \in Nat : 0..n - 1 \subseteq A => n \in A
    <3> HIDE DEF Fine
    <3> QED
      BY <1>2
  <2> HIDE DEF A
  <2> QED
    BY <2>1, StrongInduction
<1>4. Fine(offset, size, index)
  OBVIOUS
<1> HIDE DEF Fine
<1> QED
  BY <1>3, <1>4 DEF T

LEMMA OnlyThatRequest ==
  ASSUME NEW H, Closed(H), NEW hashes \in Seq(H), Len(hashes) # 0,
         NEW index \in Nat, NEW size \in Nat,
         AllOk(make_merkle_proof(Tree(hashes), index, size))
  PROVE  size = Len(hashes) /\ index < size
<1> DEFINE T == Tree(hashes)
           n == Len(hashes)
<1>1. T \in Seq(H) /\ Len(T) \in Nat /\ n \in Nat
  BY TreeIn
<1>2. Len(T) = get_merkle_tree_size[n]
  BY TreeSizes
<1> HIDE DEF T, n
<1>3. PICK items : Walks(T, items) /\ Yields(T, items)
  BY <1>1, Items
<1>4. index < size
  <2> SUFFICES ASSUME index >= size PROVE FALSE
    OBVIOUS
  <2>1. make_merkle_proof(T, index, size) = items[<<Len(T), 0, index>>]
    BY <1>3 DEF Yields
  <2>2. items[<<Len(T), 0, index>>] = Step(T, items, Len(T), 0, index)
    <3>1. 0 \in Nat
      OBVIOUS
    <3> QED
      BY <1>1, <1>3, <3>1 DEF Walks
  <2>3. ~(0 > 1) /\ ~AtRoot(Len(T), Len(T))
    BY <1>1 DEF AtRoot
  <2>4. Step(T, items, Len(T), 0, index) = <<Err("InvalidMerkleProof")>>
    BY <2>3, Zenon DEF Step
  <2> QED
    BY <2>1, <2>2, <2>4, ErrIsNotOk DEF T
<1>5. make_merkle_proof(T, index, size) = items[<<0, size, index>>]
  <2>1. ~(index >= size)
    BY <1>4
  <2> QED
    BY <1>3, <2>1 DEF Yields
<1>6. 0 + get_merkle_tree_size[size] = Len(T)
  <2>1. size # 0 /\ 0 \in Nat
    BY <1>4
  <2>2. AllOk(items[<<0, size, index>>])
    BY <1>5 DEF T
  <2> QED
    BY <1>1, <1>3, <2>1, <2>2, WalkEndsAtRoot
<1>7. get_merkle_tree_size[size] = get_merkle_tree_size[n]
  <2>1. get_merkle_tree_size[size] \in Nat
    BY TreeSizeIs
  <2> QED
    BY <1>2, <1>6, <2>1
<1>8. size = n
  <2>1. n # 0 /\ size # 0
    BY <1>4 DEF n
  <2>2. size < n => size \in 1..n - 1
    BY <1>1, <2>1
  <2>3. n < size => n \in 1..size - 1
    BY <1>1, <2>1
  <2>4. get_merkle_tree_size[n] \in Nat
    BY <1>1, TreeSizeIs
  <2>5. ~(get_merkle_tree_size[n] < get_merkle_tree_size[n])
    BY <2>4
  <2>6. ~(size < n) /\ ~(n < size)
    BY <1>1, <1>7, <2>2, <2>3, <2>5, LargerTree
  <2> QED
    BY <1>1, <2>6
<1> QED
  BY <1>4, <1>8 DEF n

-----------------------------------------------------------------------------
(* What leads to the root is a leaf of the tree, with the siblings of its  *)
(* path.                                                                   *)
LeavesOnly(hashes) == \A i \in DOMAIN hashes : \E c : hashes[i] = get_merkle_node(c)

OnTree(hashes, l, node) == \E k \in 1..Width(hashes, l) : node = NodeAt(hashes, l, k)

LEMMA NodesAreHashes ==
  ASSUME NEW H, Closed(H), NEW hashes \in Seq(H), Len(hashes) # 0, LeavesOnly(hashes),
         NEW l \in Nat, NEW k \in 1..Width(hashes, l)
  PROVE  /\ IsHash(NodeAt(hashes, l, k))
         /\ l # 0 => \E a, b : NodeAt(hashes, l, k) = join_nodes(a, b)
         /\ l = 0 => \E c : NodeAt(hashes, l, k) = get_merkle_node(c)
<1>1. CASE l = 0
  <2>1. k \in DOMAIN hashes /\ NodeAt(hashes, l, k) = hashes[k]
    <3>1. Levels(hashes)[0] = hashes
      BY LevelsIn
    <3>2. k \in 1..Len(hashes) /\ NodeAt(hashes, l, k) = hashes[k]
      BY <1>1, <3>1 DEF NodeAt, Width
    <3> QED
      BY <3>2
  <2>2. PICK c : hashes[k] = get_merkle_node(c)
    BY <2>1 DEF LeavesOnly
  <2> QED
    BY <1>1, <2>1, <2>2, LeavesAreHashes
<1>2. CASE l # 0
  <2>1. l - 1 \in Nat /\ (l - 1) + 1 = l
    BY <1>2
  <2> DEFINE m == l - 1
  <2>2. m \in Nat /\ k \in 1..Width(hashes, m + 1)
    BY <2>1
  <2> HIDE DEF m
  <2>3. NodeAt(hashes, m + 1, k) =
          join_nodes(NodeAt(hashes, m, 2 * k - 1),
                     NodeAt(hashes, m, IF 2 * k <= Width(hashes, m) THEN 2 * k ELSE 2 * k - 1))
    BY <2>2, Inner
  <2>4. PICK a, b : NodeAt(hashes, l, k) = join_nodes(a, b)
    <3>1. m + 1 = l
      BY <2>1 DEF m
    <3> QED
      BY <2>3, <3>1, Zenon
  <2> QED
    BY <1>2, <2>4, JoinsAreHashes
<1> QED
  BY <1>1, <1>2

LEMMA OneDown ==
  ASSUME NEW H, Closed(H), NEW hashes \in Seq(H), Len(hashes) # 0, LeavesOnly(hashes),
         NEW l \in Nat, NEW k \in 1..Width(hashes, l + 1),
         NEW u \in Nat, NEW node, IsHash(node), NEW entry,
         Parent(u, node, entry) = NodeAt(hashes, l + 1, k)
  PROVE  /\ OnTree(hashes, l, node)
         /\ (u < Width(hashes, l) /\ k = u \div 2 + 1) =>
              /\ node = NodeAt(hashes, l, u + 1)
              /\ Entry(entry) = Entry(NodeAt(hashes, l, ProofSibling(u, Width(hashes, l)) + 1))
<1> DEFINE w == Width(hashes, l)
           N(i) == NodeAt(hashes, l, i)
           i1 == 2 * k - 1
           i2 == IF 2 * k <= w THEN 2 * k ELSE 2 * k - 1
           s == ProofSibling(u, w)
<1>1. w \in Nat /\ Width(hashes, l + 1) = Half(w)
  BY Widths
<1>2. NodeAt(hashes, l + 1, k) = join_nodes(N(i1), N(i2)) /\ i1 \in 1..w /\ i2 \in 1..w
  BY Inner
<1>3. IsHash(N(i1)) /\ IsHash(N(i2))
  <2> HIDE DEF i1, i2
  <2> QED
    BY <1>2, NodesAreHashes
<1>4. k \in 1..Half(w)
  BY <1>1
<1> HIDE DEF w, N
<1>5. CASE u % 2 = 0
  <2>1. join_nodes(node, entry) = join_nodes(N(i1), N(i2))
    BY <1>2, <1>5 DEF Parent
  <2> HIDE DEF i1, i2
  <2>2. Entry(node) = Entry(N(i1)) /\ Entry(entry) = Entry(N(i2))
    BY <2>1, JoinTellsChildren
  <2>3. node = N(i1)
    BY <2>2, <1>3, EntryTellsHash
  <2>4. (u < w /\ k = u \div 2 + 1) => i1 = u + 1 /\ i2 = s + 1
    BY <1>1, <1>4, <1>5 DEF ProofSibling, Smaller, i1, i2
  <2>5. OnTree(hashes, l, node)
    BY <1>2, <2>3 DEF OnTree, w, N
  <2> QED
    BY <2>2, <2>3, <2>4, <2>5 DEF N, w
<1>6. CASE u % 2 # 0
  <2>1. join_nodes(entry, node) = join_nodes(N(i1), N(i2))
    BY <1>2, <1>6 DEF Parent
  <2> HIDE DEF i1, i2
  <2>2. Entry(entry) = Entry(N(i1)) /\ Entry(node) = Entry(N(i2))
    BY <2>1, JoinTellsChildren
  <2>3. node = N(i2)
    BY <2>2, <1>3, EntryTellsHash
  <2>4. (u < w /\ k = u \div 2 + 1) => i2 = u + 1 /\ i1 = s + 1
    BY <1>1, <1>4, <1>6 DEF ProofSibling, Smaller, i1, i2
  <2>5. OnTree(hashes, l, node)
    BY <1>2, <2>3 DEF OnTree, w, N
  <2> QED
    BY <2>2, <2>3, <2>4, <2>5 DEF N, w
<1> QED
  BY <1>5, <1>6

LEMMA PowerIs ==
  /\ PowerOfTwo[0] = 1
  /\ \A l \in Nat : PowerOfTwo[l] \in Nat /\ PowerOfTwo[l + 1] = 2 * PowerOfTwo[l]
<1> DEFINE measure == [l \in Nat |-> l]
           step == [x \in [Nat -> Nat] \X Nat |-> IF x[2] = 0 THEN 1 ELSE 2 * x[1][x[2] - 1]]
           Fits(f) == f = [k \in Nat |-> IF k = 0 THEN 1 ELSE 2 * f[k - 1]]
           P == CHOOSE f : Fits(f)
<1>1. measure \in [Nat -> Nat]
  OBVIOUS
<1>2. step \in [[Nat -> Nat] \X Nat -> Nat]
  OBVIOUS
<1>3. LooksBelow(Nat, Nat, measure, step)
  <2> SUFFICES ASSUME NEW l \in Nat, NEW g \in [Nat -> Nat], NEW h \in [Nat -> Nat],
                      Alike(Nat, measure, l, g, h)
               PROVE  step[<<g, l>>] = step[<<h, l>>]
    BY DEF LooksBelow
  <2>1. l # 0 => g[l - 1] = h[l - 1]
    BY DEF Alike
  <2> QED
    BY <2>1
<1>4. PICK f : Solves(Nat, Nat, step, f)
  <2> HIDE DEF measure, step
  <2> QED
    BY <1>1, <1>2, <1>3, Recursion
<1>5. f \in [Nat -> Nat] /\ \A l \in Nat : f[l] = IF l = 0 THEN 1 ELSE 2 * f[l - 1]
  BY <1>4 DEF Solves
<1>6. Fits(f)
  BY <1>5
<1>7. Fits(P)
  <2> HIDE DEF Fits
  <2> QED
    BY <1>6
<1>8. PowerOfTwo = P
  BY DEF PowerOfTwo
<1> HIDE DEF P
<1>9. P[0] = 1
  BY <1>7
<1>10. ASSUME NEW l \in Nat PROVE P[l + 1] = 2 * P[l]
  <2>1. l + 1 \in Nat /\ l + 1 # 0 /\ (l + 1) - 1 = l
    OBVIOUS
  <2> QED
    BY <2>1, <1>7
<1> DEFINE A == {l \in Nat : P[l] \in Nat}
<1>11. 0 \in A
  BY <1>9
<1>12. ASSUME NEW l \in Nat, l \in A PROVE l + 1 \in A
  <2>1. P[l] \in Nat
    BY <1>12
  <2>2. P[l + 1] \in Nat
    BY <2>1, <1>10
  <2> QED
    BY <2>2
<1>13. Nat \subseteq A
  <2> HIDE DEF A
  <2> QED
    BY <1>11, <1>12, SetInduction
<1> QED
  BY <1>8, <1>9, <1>10, <1>13

(* What an accepted claim says of the tree. *)
Leads(hashes, index, node, proof) ==
    /\ Len(proof) = Depth(hashes)
    /\ OnTree(hashes, 0, node)
    /\ index < PowerOfTwo[Depth(hashes)]
    /\ index < Len(hashes) =>
         /\ node = hashes[index + 1]
         /\ \A i \in 1..Depth(hashes) : Entry(proof[i]) = Entry(Beside(hashes, index, i - 1))

LEMMA Accepted ==
  ASSUME NEW H, Closed(H), NEW hashes \in Seq(H), Len(hashes) # 0, LeavesOnly(hashes),
         NEW index \in Nat, NEW content, NEW E, NEW proof \in Seq(E),
         get_merkle_root(index, get_merkle_node(content), proof) = Ok(root(Tree(hashes)))
  PROVE  Leads(hashes, index, get_merkle_node(content), proof)
<1> DEFINE d == Depth(hashes)
           W(l) == Width(hashes, l)
           N(l, i) == NodeAt(hashes, l, i)
           leaf == get_merkle_node(content)
           p == Len(proof)
           On(l, node) == OnTree(hashes, l, node)
           P(l) == PowerOfTwo[l]
<1>1. PICK up, hash : Climbs(index, leaf, proof, up, hash)
  BY Climbing
<1>2. /\ d \in Nat /\ W(d) = 1 /\ W(0) = Len(hashes) /\ p \in Nat
      /\ \A l \in Nat : W(l) \in Nat /\ W(l + 1) = Half(W(l))
  <2>1. d \in Nat /\ W(d) = 1
    BY DepthIs
  <2>2. W(0) = Len(hashes)
    BY LevelsIn DEF Width
  <2>3. \A l \in Nat : W(l) \in Nat /\ W(l + 1) = Half(W(l))
    BY Widths
  <2>4. p \in Nat
    OBVIOUS
  <2> QED
    BY <2>1, <2>2, <2>3, <2>4
<1>3. root(Tree(hashes)) = N(d, 1)
  <2>1. Tree(hashes) \in Seq(H) /\ Tree(hashes) # <<>> /\ Len(Tree(hashes)) = Offset(hashes, d) + 1
    BY TreeIn, TreeSizes
  <2>2. d \in 0..d /\ 1 \in 1..Width(hashes, d)
    BY <1>2
  <2>3. Tree(hashes)[Offset(hashes, d) + 1] = N(d, 1)
    BY <2>2, InTree
  <2> QED
    BY <2>1, <2>3 DEF root, Last
<1>4. /\ up[0] = index /\ hash[0] = leaf /\ \A i \in 0..p : up[i] \in Nat
      /\ \A i \in 1..p : up[i] = up[i - 1] \div 2 /\ hash[i] = Parent(up[i - 1], hash[i - 1], proof[i])
      /\ get_merkle_root(index, leaf, proof) =
           IF up[p] = 0 THEN Ok(hash[p]) ELSE Err("InvalidMerkleProof")
  BY <1>1 DEF Climbs
<1>5. up[p] = 0 /\ hash[p] = N(d, 1)
  BY <1>3, <1>4 DEF Ok, Err
<1>6. ASSUME NEW i \in 1..p PROVE \E a, b : hash[i] = join_nodes(a, b)
  <2>1. hash[i] = Parent(up[i - 1], hash[i - 1], proof[i])
    BY <1>4
  <2> QED
    BY <2>1 DEF Parent
<1>7. ASSUME NEW i \in 0..p PROVE IsHash(hash[i])
  <2>1. CASE i = 0
    BY <2>1, <1>4, LeavesAreHashes
  <2>2. CASE i # 0
    <3>1. i \in 1..p
      BY <2>2, <1>2
    <3> QED
      BY <3>1, <1>6, JoinsAreHashes
  <2> QED
    BY <2>1, <2>2
<1>8. ASSUME NEW l \in Nat, NEW k \in 1..W(l), NEW node, node = N(l, k)
      PROVE  /\ On(l, node)
             /\ l # 0 => \E a, b : node = join_nodes(a, b)
             /\ l = 0 => \E c : node = get_merkle_node(c)
  BY <1>8, NodesAreHashes DEF OnTree
<1>9. ASSUME NEW l \in Nat, NEW i \in 0..p - 1, NEW k \in 1..W(l + 1), hash[i + 1] = N(l + 1, k)
      PROVE  /\ On(l, hash[i])
             /\ (up[i] < W(l) /\ k = up[i] \div 2 + 1) =>
                  /\ hash[i] = N(l, up[i] + 1)
                  /\ Entry(proof[i + 1]) = Entry(N(l, ProofSibling(up[i], W(l)) + 1))
  <2>1. i \in 0..p /\ i + 1 \in 1..p /\ (i + 1) - 1 = i
    BY <1>2
  <2>2. up[i] \in Nat /\ IsHash(hash[i])
    BY <1>4, <1>7, <2>1
  <2>3. Parent(up[i], hash[i], proof[i + 1]) = NodeAt(hashes, l + 1, k)
    BY <1>4, <1>9, <2>1
  <2> QED
    BY <2>2, <2>3, OneDown
<1>10. On(d, hash[p])
  <2>1. 1 \in 1..W(d)
    BY <1>2
  <2> QED
    BY <1>2, <1>5, <1>8, <2>1
<1>11. \A l \in Nat : \A node : On(l, node) => \E k \in 1..W(l) : node = N(l, k)
  BY DEF OnTree
<1> HIDE DEF d, W, N, leaf, p, On, P
<1> DEFINE B == {j \in Nat : j <= p /\ j <= d => On(d - j, hash[p - j])}
<1>12. Nat \subseteq B
  <2>1. 0 \in B
    <3>1. d - 0 = d /\ p - 0 = p
      BY <1>2
    <3> QED
      BY <1>10, <3>1
  <2>2. ASSUME NEW j \in Nat, j \in B PROVE j + 1 \in B
    <3> SUFFICES ASSUME j + 1 <= p, j + 1 <= d PROVE On(d - (j + 1), hash[p - (j + 1)])
      OBVIOUS
    <3> DEFINE l == d - (j + 1)
               i == p - (j + 1)
    <3>1. /\ l \in Nat /\ l + 1 = d - j /\ l + 1 \in Nat /\ j <= p /\ j <= d
          /\ i \in 0..p - 1 /\ i + 1 = p - j
      BY <1>2
    <3>2. On(l + 1, hash[i + 1])
      BY <2>2, <3>1
    <3> HIDE DEF l, i
    <3>3. PICK k \in 1..W(l + 1) : hash[i + 1] = N(l + 1, k)
      BY <1>11, <3>1, <3>2
    <3>4. On(l, hash[i])
      BY <1>9, <3>1, <3>3
    <3> QED
      BY <3>4 DEF l, i
  <2> HIDE DEF B
  <2> QED
    BY <2>1, <2>2, SetInduction
<1>13. p = d
  <2>1. CASE p > d
    <3>1. d \in B /\ d <= p /\ d <= d /\ d - d = 0 /\ p - d \in 1..p /\ 0 \in Nat
      <4>1. d \in B
        BY <1>2, <1>12
      <4>2. d <= p /\ d <= d /\ d - d = 0 /\ p - d \in 1..p
        BY <1>2, <2>1
      <4> QED
        BY <4>1, <4>2
    <3>2. On(0, hash[p - d])
      BY <3>1
    <3>3. PICK k \in 1..W(0) : hash[p - d] = N(0, k)
      BY <1>11, <3>1, <3>2
    <3>4. PICK c : hash[p - d] = get_merkle_node(c)
      BY <1>8, <3>1, <3>3
    <3> QED
      BY <1>6, <3>1, <3>4, LeafIsNoJoin
  <2>2. CASE p < d
    <3>1. p \in B /\ p <= p /\ p <= d /\ p - p = 0 /\ d - p \in Nat /\ d - p # 0
      <4>1. p \in B
        BY <1>2, <1>12
      <4>2. p <= p /\ p <= d /\ p - p = 0 /\ d - p \in Nat /\ d - p # 0
        BY <1>2, <2>2
      <4> QED
        BY <4>1, <4>2
    <3>2. On(d - p, hash[0])
      BY <3>1
    <3>3. PICK k \in 1..W(d - p) : hash[0] = N(d - p, k)
      BY <1>11, <3>1, <3>2
    <3>4. PICK a, b : hash[0] = join_nodes(a, b)
      BY <1>8, <3>1, <3>3
    <3> QED
      BY <1>4, <3>4, LeafIsNoJoin DEF leaf
  <2> QED
    BY <1>2, <2>1, <2>2
<1>14. On(0, leaf)
  <2>1. d \in B
    BY <1>2, <1>12
  <2>2. d <= p /\ d <= d /\ d - d = 0 /\ p - d = 0
    BY <1>2, <1>13
  <2>3. On(d - d, hash[p - d])
    BY <2>1, <2>2
  <2> QED
    BY <1>4, <2>2, <2>3
<1> DEFINE Same(i) == up[i] < W(i) => hash[i] = N(i, up[i] + 1)
           C == {j \in Nat : j <= d => Same(d - j) /\ up[d - j] < P(j)}
<1>15. \A l \in Nat : P(l) \in Nat /\ P(0) = 1 /\ P(l + 1) = 2 * P(l)
  BY PowerIs DEF P
<1>16. ASSUME NEW i \in 0..d - 1
       PROVE  /\ up[i] \in Nat /\ up[i + 1] = up[i] \div 2
              /\ up[i] < W(i) => up[i] \div 2 + 1 \in 1..W(i + 1) /\ up[i + 1] < W(i + 1)
  <2>1. i \in 0..p /\ i + 1 \in 1..p /\ (i + 1) - 1 = i /\ i \in Nat
    BY <1>2, <1>13
  <2>2. up[i] \in Nat /\ up[i + 1] = up[i] \div 2
    BY <1>4, <2>1
  <2>3. \A u, w \in Nat : u < w => u \div 2 + 1 \in 1..Half(w) /\ u \div 2 < Half(w)
    BY DEF Half
  <2>4. W(i) \in Nat /\ W(i + 1) = Half(W(i))
    BY <1>2, <2>1
  <2> QED
    BY <2>2, <2>3, <2>4
<1>17. Nat \subseteq C
  <2>1. 0 \in C
    <3>1. d - 0 = d /\ 0 + 1 = 1 /\ 0 \in Nat
      BY <1>2
    <3>2. Same(d)
      BY <1>5, <1>13, <3>1
    <3>3. up[d] < P(0)
      <4>1. P(0) = 1 /\ up[d] = 0 /\ 0 < 1
        BY <1>5, <1>13, <1>15, <3>1
      <4> QED
        BY <4>1, Zenon
    <3> QED
      BY <3>1, <3>2, <3>3
  <2>2. ASSUME NEW j \in Nat, j \in C PROVE j + 1 \in C
    <3> SUFFICES ASSUME j + 1 <= d PROVE Same(d - (j + 1)) /\ up[d - (j + 1)] < P(j + 1)
      OBVIOUS
    <3> DEFINE l == d - (j + 1)
    <3>1. l \in Nat /\ l + 1 = d - j /\ j <= d /\ l \in 0..d - 1 /\ l \in 0..p - 1
      BY <1>2, <1>13
    <3>2. Same(l + 1) /\ up[l + 1] < P(j)
      BY <2>2, <3>1
    <3> HIDE DEF l
    <3>3. up[l] \in Nat /\ up[l + 1] = up[l] \div 2 /\ P(j) \in Nat /\ P(j + 1) = 2 * P(j)
      BY <1>15, <1>16, <3>1
    <3>4. up[l] < P(j + 1)
      BY <3>2, <3>3
    <3>5. ASSUME up[l] < W(l) PROVE hash[l] = N(l, up[l] + 1)
      <4>1. up[l] \div 2 + 1 \in 1..W(l + 1) /\ up[l + 1] < W(l + 1)
        BY <1>16, <3>1, <3>5
      <4>2. hash[l + 1] = N(l + 1, up[l] \div 2 + 1)
        BY <3>2, <3>3, <4>1
      <4> QED
        BY <1>9, <3>1, <3>5, <4>1, <4>2
    <3> QED
      BY <3>4, <3>5 DEF l
  <2> HIDE DEF C
  <2> QED
    BY <2>1, <2>2, SetInduction
<1>18. \A i \in 0..d : Same(i)
  <2> SUFFICES ASSUME NEW i \in 0..d PROVE Same(i)
    OBVIOUS
  <2>1. d - i \in Nat /\ d - i <= d /\ d - (d - i) = i
    BY <1>2
  <2>2. d - i \in C
    BY <1>17, <2>1
  <2> QED
    BY <2>1, <2>2
<1>19. index < P(d)
  <2>1. d \in C
    BY <1>2, <1>17
  <2>2. d <= d /\ d - d = 0
    BY <1>2
  <2> QED
    BY <1>4, <2>1, <2>2
<1>20. ASSUME index < Len(hashes)
       PROVE  /\ leaf = hashes[index + 1]
              /\ \A i \in 1..d : Entry(proof[i]) = Entry(Beside(hashes, index, i - 1))
  <2> DEFINE U(l) == Up(index)[l]
             A == {i \in Nat : i <= d => up[i] = U(i)}
  <2>1. U(0) = index /\ \A l \in Nat : U(l) \in Nat /\ U(l + 1) = U(l) \div 2
    BY UpIs
  <2>2. \A l \in Nat : U(l) < W(l)
    <3>1. index \in 0..Len(hashes) - 1
      BY <1>20
    <3> QED
      BY <3>1, OnLevel DEF W
  <2>3. \A l \in Nat : Beside(hashes, index, l) = N(l, ProofSibling(U(l), W(l)) + 1)
    BY DEF Beside, N, W
  <2> HIDE DEF U
  <2>4. Nat \subseteq A
    <3>1. 0 \in A
      BY <1>4, <2>1
    <3>2. ASSUME NEW i \in Nat, i \in A PROVE i + 1 \in A
      <4> SUFFICES ASSUME i + 1 <= d PROVE up[i + 1] = U(i + 1)
        OBVIOUS
      <4>1. i \in 0..d - 1 /\ i <= d
        BY <1>2
      <4>2. up[i] = U(i) /\ up[i + 1] = up[i] \div 2
        BY <1>16, <3>2, <4>1
      <4> QED
        BY <2>1, <4>2
    <3> HIDE DEF A
    <3> QED
      BY <3>1, <3>2, SetInduction
  <2>5. leaf = hashes[index + 1]
    <3>1. 0 \in 0..d /\ 0 \in Nat
      BY <1>2
    <3>2. hash[0] = N(0, up[0] + 1)
      BY <1>18, <3>1, <2>1, <2>2, <1>4
    <3>3. N(0, index + 1) = hashes[index + 1]
      BY LevelsIn DEF N, NodeAt
    <3> QED
      BY <1>4, <3>2, <3>3
  <2>6. ASSUME NEW j \in 1..d PROVE Entry(proof[j]) = Entry(Beside(hashes, index, j - 1))
    <3> DEFINE i == j - 1
    <3>1. /\ i \in Nat /\ i \in 0..d - 1 /\ i \in 0..p - 1 /\ i + 1 = j /\ i + 1 \in 0..d
          /\ i <= d
      BY <1>2, <1>13
    <3> HIDE DEF i
    <3>2. up[i] = U(i) /\ up[i] < W(i)
      BY <2>2, <2>4, <3>1
    <3>3. up[i] \div 2 + 1 \in 1..W(i + 1) /\ up[i + 1] < W(i + 1) /\ up[i + 1] = up[i] \div 2
      BY <1>16, <3>1, <3>2
    <3>4. hash[i + 1] = N(i + 1, up[i] \div 2 + 1)
      BY <1>18, <3>1, <3>3
    <3>5. Entry(proof[i + 1]) = Entry(N(i, ProofSibling(up[i], W(i)) + 1))
      BY <1>9, <3>1, <3>2, <3>3, <3>4
    <3>6. Beside(hashes, index, i) = N(i, ProofSibling(U(i), W(i)) + 1)
      BY <2>3, <3>1
    <3>7. Entry(proof[i + 1]) = Entry(Beside(hashes, index, i))
      BY <3>2, <3>5, <3>6
    <3> QED
      BY <3>1, <3>7 DEF i
  <2> QED
    BY <2>5, <2>6
<1>21. p = d /\ On(0, leaf) /\ index < P(d)
  BY <1>13, <1>14, <1>19
<1> QED
  BY <1>20, <1>21 DEF Leads, p, d, leaf, On, P
=============================================================================
