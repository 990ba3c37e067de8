--------------------------- MODULE DataInduction ---------------------------
(***************************************************************************)
(* Sequences, and induction and recursion over data in a first-order form: *)
(* the statement proved by induction is a set, the step of a recursion is  *)
(* a function.  What the other proof modules say of recursive functions    *)
(* and of folds rests on these lemmas, and they on the library's theorem   *)
(* that < is well-founded on the natural numbers.                          *)
(***************************************************************************)
EXTENDS Naturals, SequencesExt, FiniteSetTheorems, WellFoundedInduction, TLAPS

-----------------------------------------------------------------------------
(* Sequences whose elements have no common type. *)
IsSeq(q) == q \in Seq(Range(q))

LEMMA FunctionIsSeq ==
    ASSUME NEW n \in Nat, NEW q, q = [i \in 1..n |-> q[i]]
    PROVE  IsSeq(q) /\ Len(q) = n /\ DOMAIN q = 1..n
<1>1. DOMAIN q = 1..n
  OBVIOUS
<1>2. \A i \in 1..n : q[i] \in Range(q)
  BY <1>1 DEF Range
<1>3. q \in [1..n -> Range(q)]
  BY <1>2
<1>4. q \in Seq(Range(q)) /\ Len(q) = n
  BY <1>3
<1> QED
  BY <1>1, <1>4 DEF IsSeq

LEMMA TypedIsSeq == ASSUME NEW S, NEW q \in Seq(S) PROVE IsSeq(q)
<1>1. Len(q) \in Nat /\ q = [i \in 1..Len(q) |-> q[i]]
  OBVIOUS
<1> QED
  BY <1>1, FunctionIsSeq

LEMMA Concatenated ==
    ASSUME NEW S, NEW a \in Seq(S), NEW b \in Seq(S)
    PROVE  /\ a \o b \in Seq(S)
           /\ Len(a \o b) = Len(a) + Len(b)
           /\ \A i \in 1..Len(a) : i \in 1..Len(a \o b) /\ (a \o b)[i] = a[i]
           /\ \A i \in 1..Len(b) : Len(a) + i \in 1..Len(a \o b) /\ (a \o b)[Len(a) + i] = b[i]
<1>1. /\ a \o b \in Seq(S)
      /\ Len(a \o b) = Len(a) + Len(b)
      /\ \A i \in 1..Len(a) : (a \o b)[i] = a[i]
      /\ \A i \in Len(a) + 1..Len(a) + Len(b) : (a \o b)[i] = b[i - Len(a)]
  OBVIOUS
<1>2. Len(a) \in Nat /\ Len(b) \in Nat
  OBVIOUS
<1>3. \A i \in 1..Len(a) : i \in 1..Len(a \o b)
  BY <1>1, <1>2
<1>4. ASSUME NEW i \in 1..Len(b)
      PROVE  Len(a) + i \in 1..Len(a \o b) /\ (a \o b)[Len(a) + i] = b[i]
  <2>1. Len(a) + i \in Len(a) + 1..Len(a) + Len(b) /\ (Len(a) + i) - Len(a) = i
    BY <1>2
  <2>2. (a \o b)[Len(a) + i] = b[(Len(a) + i) - Len(a)]
    BY <2>1, <1>1
  <2> QED
    BY <1>1, <1>2, <2>1, <2>2
<1> QED
  BY <1>1, <1>3, <1>4

LEMMA InFirst ==
    ASSUME NEW S, NEW a \in Seq(S), NEW b \in Seq(S), NEW i \in 1..Len(a)
    PROVE  i \in 1..Len(a \o b) /\ (a \o b)[i] = a[i]
BY Concatenated

LEMMA InSecond ==
    ASSUME NEW S, NEW a \in Seq(S), NEW b \in Seq(S), NEW i \in 1..Len(b)
    PROVE  Len(a) + i \in 1..Len(a \o b) /\ (a \o b)[Len(a) + i] = b[i]
BY Concatenated

LEMMA Joined ==
    ASSUME NEW a, NEW b, IsSeq(a), IsSeq(b)
    PROVE  /\ IsSeq(a \o b)
           /\ Len(a \o b) = Len(a) + Len(b)
           /\ \A i \in 1..Len(a) : (a \o b)[i] = a[i]
           /\ \A i \in Len(a) + 1..Len(a) + Len(b) : (a \o b)[i] = b[i - Len(a)]
<1> DEFINE S == Range(a) \cup Range(b)
<1>1. a \in Seq(S) /\ b \in Seq(S)
  BY DEF IsSeq
<1> HIDE DEF S
<1>2. /\ a \o b \in Seq(S)
      /\ Len(a \o b) = Len(a) + Len(b)
      /\ \A i \in 1..Len(a) : (a \o b)[i] = a[i]
      /\ \A i \in Len(a) + 1..Len(a) + Len(b) : (a \o b)[i] = b[i - Len(a)]
  BY <1>1
<1>3. IsSeq(a \o b)
  BY <1>2, TypedIsSeq
<1> QED
  BY <1>2, <1>3

(* Two sequences and an element after them. *)
LEMMA JoinedAndOne ==
    ASSUME NEW x, IsSeq(x), NEW y, IsSeq(y), NEW z, NEW q, q = (x \o y) \o <<z>>
    PROVE  /\ Len(q) = Len(x) + Len(y) + 1
           /\ \A i \in 1..Len(x) : q[i] = x[i]
           /\ \A i \in 1..Len(y) : q[Len(x) + i] = y[i]
           /\ q[Len(x) + Len(y) + 1] = z
<1> DEFINE w == <<z>>
           xy == x \o y
<1>1. IsSeq(w) /\ Len(w) = 1 /\ w[1] = z
  <2>1. w \in Seq({z})
    OBVIOUS
  <2> QED
    BY <2>1, TypedIsSeq
<1>2. Len(x) \in Nat /\ Len(y) \in Nat
  BY DEF IsSeq
<1>3. /\ IsSeq(xy) /\ Len(xy) = Len(x) + Len(y)
      /\ \A i \in 1..Len(x) : xy[i] = x[i]
      /\ \A i \in Len(x) + 1..Len(x) + Len(y) : xy[i] = y[i - Len(x)]
  BY Joined, Zenon
<1>4. q = xy \o w
  OBVIOUS
<1> HIDE DEF xy, w
<1>5. /\ Len(q) = Len(xy) + Len(w)
      /\ \A i \in 1..Len(xy) : q[i] = xy[i]
      /\ \A i \in Len(xy) + 1..Len(xy) + Len(w) : q[i] = w[i - Len(xy)]
  <2>1. /\ Len(xy \o w) = Len(xy) + Len(w)
        /\ \A i \in 1..Len(xy) : (xy \o w)[i] = xy[i]
        /\ \A i \in Len(xy) + 1..Len(xy) + Len(w) : (xy \o w)[i] = w[i - Len(xy)]
    BY <1>1, <1>3, Joined, Zenon
  <2> QED
    BY <1>4, <2>1, Zenon
<1>6. ASSUME NEW i \in 1..Len(x) PROVE q[i] = x[i]
  <2>1. i \in 1..Len(xy)
    BY <1>2, <1>3
  <2> QED
    BY <1>3, <1>5, <2>1, Zenon
<1>7. ASSUME NEW i \in 1..Len(y) PROVE q[Len(x) + i] = y[i]
  <2>1. /\ Len(x) + i \in Len(x) + 1..Len(x) + Len(y)
        /\ (Len(x) + i) - Len(x) = i
        /\ Len(x) + i \in 1..Len(x) + Len(y)
    BY <1>2
  <2>2. xy[Len(x) + i] = y[(Len(x) + i) - Len(x)]
    BY <1>3, <2>1, Zenon
  <2>3. q[Len(x) + i] = xy[Len(x) + i]
    BY <1>3, <1>5, <2>1, Zenon
  <2> QED
    BY <2>1, <2>2, <2>3, Zenon
<1>8. q[Len(x) + Len(y) + 1] = z
  <2> DEFINE k == Len(x) + Len(y) + 1
  <2>1. k \in Len(xy) + 1..Len(xy) + Len(w) /\ k - Len(xy) = 1
    BY <1>1, <1>2, <1>3
  <2> HIDE DEF k
  <2>2. q[k] = w[k - Len(xy)]
    BY <1>5, <2>1, Zenon
  <2>3. q[k] = z
    BY <1>1, <2>1, <2>2, Zenon
  <2> QED
    BY <2>3 DEF k
<1>9. Len(q) = Len(x) + Len(y) + 1
  BY <1>1, <1>3, <1>5, Zenon
<1> QED
  BY <1>6, <1>7, <1>8, <1>9

-----------------------------------------------------------------------------
LEMMA LeastElement ==
  ASSUME NEW S \in SUBSET Nat, S # {}
  PROVE  \E m \in S : \A n \in S : m <= n
<1> DEFINE R == OpToRel(<, Nat)
<1>1. IsWellFoundedOn(R, Nat)
  BY NatLessThanWellFounded
<1>2. PICK m \in S : \A n \in S : <<n, m>> \notin R
  <2> HIDE DEF R
  <2> QED
    BY <1>1, WFMin
<1>3. \A n \in S : ~(n < m)
  BY <1>2 DEF OpToRel
<1> QED
  BY <1>3

LEMMA MinOf ==
  ASSUME NEW S \in SUBSET Nat, S # {}
  PROVE  Min(S) \in S /\ \A n \in S : Min(S) <= n
BY LeastElement DEF Min

LEMMA SetInduction ==
  ASSUME NEW S, 0 \in S, \A n \in Nat : n \in S => n + 1 \in S
  PROVE  Nat \subseteq S
<1> SUFFICES ASSUME Nat \ S # {} PROVE FALSE
  OBVIOUS
<1>1. PICK m \in Nat \ S : \A n \in Nat \ S : m <= n
  BY LeastElement
<1>2. m - 1 \in Nat /\ m - 1 \in S
  BY <1>1
<1> QED
  BY <1>1, <1>2

LEMMA StrongInduction ==
  ASSUME NEW S, \A n \in Nat : 0..n - 1 \subseteq S => n \in S
  PROVE  Nat \subseteq S
<1> SUFFICES ASSUME Nat \ S # {} PROVE FALSE
  OBVIOUS
<1>1. PICK m \in Nat \ S : \A n \in Nat \ S : m <= n
  BY LeastElement
<1>2. 0..m - 1 \subseteq S
  BY <1>1
<1> QED
  BY <1>1, <1>2

LEMMA MaxOf ==
  ASSUME NEW n \in Nat, NEW S \in SUBSET (1..n), S # {}
  PROVE  Max(S) \in S /\ \A i \in S : i <= Max(S)
<1> DEFINE T == {k \in 0..n : n - k \in S}
<1>1. T \in SUBSET Nat /\ T # {}
  <2>1. PICK i \in S : TRUE
    OBVIOUS
  <2>2. n - i \in T
    BY <2>1
  <2>3. T # {}
    BY <2>2
  <2>4. T \subseteq Nat
    OBVIOUS
  <2> QED
    BY <2>3, <2>4
<1>2. PICK k \in T : \A j \in T : k <= j
  BY <1>1, LeastElement
<1>3. \A i \in S : i <= n - k
  <2> SUFFICES ASSUME NEW i \in S PROVE i <= n - k
    OBVIOUS
  <2>1. n - i \in T
    OBVIOUS
  <2> QED
    BY <2>1, <1>2
<1>4. \E m \in S : \A i \in S : m >= i
  BY <1>2, <1>3
<1> QED
  BY <1>4 DEF Max

-----------------------------------------------------------------------------
(* A recursive definition over D whose right-hand side at d looks at       *)
(* values of a smaller measure only is satisfied by some function.         *)
Alike(D, measure, d, g, h) == \A e \in D : measure[e] < measure[d] => g[e] = h[e]

LooksBelow(D, V, measure, step) ==
    \A d \in D : \A g, h \in [D -> V] :
      Alike(D, measure, d, g, h) => step[<<g, d>>] = step[<<h, d>>]

Solves(D, V, step, f) == f \in [D -> V] /\ \A d \in D : f[d] = step[<<f, d>>]

LEMMA Recursion ==
  ASSUME NEW D, NEW V, V # {}, NEW measure \in [D -> Nat], NEW step \in [[D -> V] \X D -> V],
         LooksBelow(D, V, measure, step)
  PROVE  \E f : Solves(D, V, step, f)
<1> DEFINE Below(n) == {d \in D : measure[d] < n}
           Good(g, n) == \A d \in Below(n) : g[d] = step[<<g, d>>]
           S == {n \in Nat : \E g \in [D -> V] : Good(g, n)}
<1>0. \A n, k \in Nat : k < n + 1 => k = n \/ k < n
  BY SMTT(40)
<1>1. ASSUME NEW g \in [D -> V], NEW h \in [D -> V], NEW n \in Nat, NEW m \in Nat,
             Good(g, n), Good(h, m), n <= m
      PROVE  \A d \in Below(n) : g[d] = h[d]
  <2> DEFINE T == {k \in Nat : \E d \in Below(n) : measure[d] = k /\ g[d] # h[d]}
  <2> SUFFICES ASSUME T # {} PROVE FALSE
    OBVIOUS
  <2>1. PICK k \in T : \A j \in T : k <= j
    BY LeastElement
  <2>2. PICK d \in Below(n) : measure[d] = k /\ g[d] # h[d]
    BY <2>1
  <2>3. Alike(D, measure, d, g, h)
    <3> SUFFICES ASSUME NEW e \in D, measure[e] < measure[d], g[e] # h[e] PROVE FALSE
      BY DEF Alike
    <3>1. e \in Below(n) /\ measure[e] \in T
      BY <2>2
    <3> QED
      BY <3>1, <2>1, <2>2
  <2>4. step[<<g, d>>] = step[<<h, d>>]
    BY <2>3, <2>2 DEF LooksBelow
  <2>5. d \in Below(m)
    BY <1>1, <2>2
  <2> QED
    BY <1>1, <2>2, <2>4, <2>5
<1>2. 0 \in S
  <2>1. PICK v \in V : TRUE
    OBVIOUS
  <2>2. [d \in D |-> v] \in [D -> V] /\ Below(0) = {}
    OBVIOUS
  <2> QED
    BY <2>2
<1>3. ASSUME NEW n \in Nat, n \in S PROVE n + 1 \in S
  <2>1. PICK g \in [D -> V] : Good(g, n)
    BY <1>3
  <2> DEFINE h == [d \in D |-> IF measure[d] = n THEN step[<<g, d>>] ELSE g[d]]
  <2>2. h \in [D -> V]
    OBVIOUS
  <2>3. ASSUME NEW d \in Below(n + 1) PROVE h[d] = step[<<h, d>>]
    <3>1. Alike(D, measure, d, g, h)
      BY DEF Alike
    <3>2. step[<<g, d>>] = step[<<h, d>>]
      BY <2>2, <3>1 DEF LooksBelow
    <3>3. d \in D /\ measure[d] \in Nat /\ measure[d] < n + 1
      OBVIOUS
    <3>4. measure[d] = n \/ d \in Below(n)
      BY <3>3, <1>0
    <3> QED
      BY <2>1, <3>2, <3>3, <3>4
  <2>4. Good(h, n + 1)
    BY <2>3
  <2>5. n + 1 \in Nat
    OBVIOUS
  <2> QED
    BY <2>2, <2>4, <2>5, Zenon
<1>4. Nat \subseteq S
  <2> HIDE DEF S
  <2> QED
    BY <1>2, <1>3, SetInduction
<1> DEFINE G == [n \in Nat |-> CHOOSE g \in [D -> V] : Good(g, n)]
           f == [d \in D |-> G[measure[d] + 1][d]]
<1>5. \A n \in Nat : G[n] \in [D -> V] /\ Good(G[n], n)
  BY <1>4
<1> HIDE DEF G
<1>6. f \in [D -> V]
  BY <1>5
<1>7. ASSUME NEW d \in D PROVE f[d] = step[<<f, d>>]
  <2> DEFINE n == measure[d] + 1
  <2>1. n \in Nat /\ d \in Below(n)
    OBVIOUS
  <2>2. G[n][d] = step[<<G[n], d>>]
    BY <2>1, <1>5
  <2>3. Alike(D, measure, d, f, G[n])
    <3> SUFFICES ASSUME NEW e \in D, measure[e] < measure[d] PROVE f[e] = G[n][e]
      BY DEF Alike
    <3> DEFINE m == measure[e] + 1
    <3>1. m \in Nat /\ e \in Below(m) /\ m <= n
      OBVIOUS
    <3>2. G[m][e] = G[n][e]
      BY <3>1, <2>1, <1>5, <1>1
    <3> QED
      BY <3>2
  <2>4. step[<<f, d>>] = step[<<G[n], d>>]
    BY <2>3, <1>5, <1>6, <2>1 DEF LooksBelow
  <2> QED
    BY <2>2, <2>4
<1> QED
  BY <1>6, <1>7 DEF Solves

(* The number of bits of a number, by halving it.                          *)
LEMMA Halving ==
  ASSUME NEW bits, bits = CHOOSE f : f = [n \in Nat |-> IF n = 0 THEN 0 ELSE 1 + f[n \div 2]]
  PROVE  /\ bits \in [Nat -> Nat]
         /\ \A n \in Nat : bits[n] = IF n = 0 THEN 0 ELSE 1 + bits[n \div 2]
<1> DEFINE measure == [n \in Nat |-> n]
           step == [x \in [Nat -> Nat] \X Nat |-> IF x[2] = 0 THEN 0 ELSE 1 + x[1][x[2] \div 2]]
           Fits(f) == f = [n \in Nat |-> IF n = 0 THEN 0 ELSE 1 + f[n \div 2]]
           F == CHOOSE f : Fits(f)
<1>0. \A n \in Nat : n \div 2 \in Nat /\ (n # 0 => n \div 2 < n)
  OBVIOUS
<1>1. measure \in [Nat -> Nat]
  OBVIOUS
<1>2. step \in [[Nat -> Nat] \X Nat -> Nat]
  BY <1>0
<1>3. LooksBelow(Nat, Nat, measure, step)
  <2> SUFFICES ASSUME NEW n \in Nat, NEW g \in [Nat -> Nat], NEW h \in [Nat -> Nat],
                      Alike(Nat, measure, n, g, h)
               PROVE  step[<<g, n>>] = step[<<h, n>>]
    BY DEF LooksBelow
  <2>1. n # 0 => g[n \div 2] = h[n \div 2]
    BY <1>0 DEF Alike
  <2> QED
    BY <2>1
<1>4. PICK f : Solves(Nat, Nat, step, f)
  <2> HIDE DEF measure, step
  <2> QED
    BY <1>1, <1>2, <1>3, Recursion
<1>5. f \in [Nat -> Nat] /\ \A n \in Nat : f[n] = IF n = 0 THEN 0 ELSE 1 + f[n \div 2]
  BY <1>4 DEF Solves
<1>6. Fits(f)
  BY <1>5
<1>7. Fits(F)
  <2> HIDE DEF Fits
  <2> QED
    BY <1>6
<1>8. bits = F
  OBVIOUS
<1> HIDE DEF F
<1>9. \A n \in Nat : F[n] = IF n = 0 THEN 0 ELSE 1 + F[n \div 2]
  BY <1>7
<1> DEFINE A == {n \in Nat : F[n] \in Nat}
<1>10. ASSUME NEW n \in Nat, 0..n - 1 \subseteq A PROVE n \in A
  <2>1. n # 0 => n \div 2 \in 0..n - 1
    BY <1>0
  <2>2. n # 0 => F[n \div 2] \in Nat
    BY <2>1, <1>10
  <2>3. F[n] \in Nat
    BY <2>2, <1>9
  <2> QED
    BY <2>3
<1>11. Nat \subseteq A
  <2> HIDE DEF A
  <2> QED
    BY <1>10, StrongInduction
<1>12. F \in [Nat -> Nat]
  BY <1>7, <1>11
<1> QED
  BY <1>8, <1>9, <1>12

-----------------------------------------------------------------------------
(* A fold over 1..n that takes the greatest element last (FoldLeft).       *)
LEMMA MaxOfPrefix ==
  ASSUME NEW k \in Nat, k # 0
  PROVE  Max(1..k) = k /\ (1..k) \ {k} = 1..k - 1
<1>1. Max(1..k) \in 1..k /\ \A i \in 1..k : i <= Max(1..k)
  <2>1. 1..k \in SUBSET (1..k) /\ 1..k # {}
    OBVIOUS
  <2> QED
    BY <2>1, MaxOf
<1> QED
  BY <1>1

Folds(n, base, next, f) ==
    f = [s \in SUBSET (1..n) |->
           IF s = {} THEN base ELSE next[<<f[s \ {Max(s)}], Max(s)>>]]

LEMMA Fold ==
  ASSUME NEW n \in Nat, NEW V, NEW base \in V, NEW next \in [V \X (1..n) -> V]
  PROVE  \E f : f \in [SUBSET (1..n) -> V] /\ Folds(n, base, next, f)
<1> DEFINE D == SUBSET (1..n)
           measure == [s \in D |-> Cardinality(s)]
           step == [x \in [D -> V] \X D |->
                      IF x[2] = {} THEN base
                      ELSE next[<<x[1][x[2] \ {Max(x[2])}], Max(x[2])>>]]
<1>1. ASSUME NEW s \in D
      PROVE  /\ Cardinality(s) \in Nat
             /\ s # {} => /\ Max(s) \in 1..n /\ s \ {Max(s)} \in D
                         /\ Cardinality(s \ {Max(s)}) < Cardinality(s)
  <2>0. IsFiniteSet(1..n)
    <3>1. 1 \in Int /\ n \in Int
      OBVIOUS
    <3> QED
      BY <3>1, FS_Interval, Zenon
  <2>1. IsFiniteSet(s) /\ Cardinality(s) \in Nat
    BY <2>0, FS_Subset, FS_CardinalityType
  <2>2. s # {} => Max(s) \in s
    BY MaxOf
  <2>3. s # {} => Cardinality(s \ {Max(s)}) = Cardinality(s) - 1
    BY <2>1, <2>2, FS_RemoveElement
  <2>4. s # {} => Cardinality(s \ {Max(s)}) < Cardinality(s)
    <3>1. \A c \in Nat : c - 1 < c
      OBVIOUS
    <3> QED
      BY <3>1, <2>1, <2>3
  <2>5. s # {} => Max(s) \in 1..n /\ s \ {Max(s)} \in D
    BY <2>2
  <2> QED
    BY <2>1, <2>4, <2>5
<1>2. measure \in [D -> Nat]
  BY <1>1
<1>3. step \in [[D -> V] \X D -> V]
  BY <1>1
<1>4. LooksBelow(D, V, measure, step)
  <2> SUFFICES ASSUME NEW s \in D, NEW g \in [D -> V], NEW h \in [D -> V], Alike(D, measure, s, g, h)
               PROVE  step[<<g, s>>] = step[<<h, s>>]
    BY DEF LooksBelow
  <2>1. s # {} => g[s \ {Max(s)}] = h[s \ {Max(s)}]
    BY <1>1 DEF Alike
  <2> QED
    BY <2>1
<1>5. PICK f : Solves(D, V, step, f)
  <2>1. V # {}
    OBVIOUS
  <2> HIDE DEF D, measure, step
  <2> QED
    BY <2>1, <1>2, <1>3, <1>4, Recursion
<1>6. /\ f \in [D -> V]
      /\ \A s \in D : f[s] = IF s = {} THEN base ELSE next[<<f[s \ {Max(s)}], Max(s)>>]
  BY <1>5 DEF Solves
<1> HIDE DEF measure, step
<1> QED
  BY <1>6 DEF Folds

LEMMA FoldPrefix ==
  ASSUME NEW n \in Nat, NEW base, NEW next, NEW f, Folds(n, base, next, f), NEW k \in 1..n
  PROVE  f[1..k] = next[<<f[1..k - 1], k>>]
<1>1. Max(1..k) = k /\ (1..k) \ {k} = 1..k - 1
  BY MaxOfPrefix
<1>2. 1..k \in SUBSET (1..n) /\ 1..k # {}
  OBVIOUS
<1> QED
  BY <1>1, <1>2 DEF Folds

-----------------------------------------------------------------------------
(* A sum over a finite set that takes some element at a time (FoldSet).    *)
Some(s) == CHOOSE x \in s : TRUE

Sums(S, weight, f) ==
    f = [s \in SUBSET S |-> IF s = {} THEN 0 ELSE f[s \ {Some(s)}] + weight[Some(s)]]

LEMMA SomeLess ==
  ASSUME NEW S, IsFiniteSet(S), S # {}
  PROVE  /\ Some(S) \in S /\ IsFiniteSet(S \ {Some(S)})
         /\ Cardinality(S) \in Nat /\ Cardinality(S \ {Some(S)}) \in Nat
         /\ Cardinality(S \ {Some(S)}) = Cardinality(S) - 1
<1>1. Some(S) \in S
  BY DEF Some
<1>2. IsFiniteSet(S \ {Some(S)}) /\ Cardinality(S \ {Some(S)}) = Cardinality(S) - 1
  BY <1>1, FS_RemoveElement
<1> QED
  BY <1>1, <1>2, FS_CardinalityType

LEMMA SumExists ==
  ASSUME NEW S, IsFiniteSet(S), NEW weight, \A x \in S : weight[x] \in Nat
  PROVE  \E f : f \in [SUBSET S -> Nat] /\ Sums(S, weight, f)
<1> DEFINE D == SUBSET S
           measure == [s \in D |-> Cardinality(s)]
           step == [x \in [D -> Nat] \X D |->
                      IF x[2] = {} THEN 0 ELSE x[1][x[2] \ {Some(x[2])}] + weight[Some(x[2])]]
<1>1. ASSUME NEW s \in D
      PROVE  /\ Cardinality(s) \in Nat
             /\ s # {} => /\ Some(s) \in S /\ s \ {Some(s)} \in D
                         /\ Cardinality(s \ {Some(s)}) < Cardinality(s)
  <2>1. IsFiniteSet(s) /\ Cardinality(s) \in Nat
    BY FS_Subset, FS_CardinalityType
  <2>2. CASE s # {}
    <3>1. Some(s) \in s /\ Cardinality(s \ {Some(s)}) = Cardinality(s) - 1
      BY <2>1, <2>2, SomeLess
    <3>2. Some(s) \in S /\ s \ {Some(s)} \in D
      BY <3>1
    <3>3. \A c \in Nat : c - 1 < c
      OBVIOUS
    <3> QED
      BY <2>1, <3>1, <3>2, <3>3
  <2> QED
    BY <2>1, <2>2
<1>2. measure \in [D -> Nat]
  BY <1>1
<1>3. step \in [[D -> Nat] \X D -> Nat]
  <2>1. ASSUME NEW g \in [D -> Nat], NEW s \in D, s # {}
        PROVE  g[s \ {Some(s)}] + weight[Some(s)] \in Nat
    <3>1. g[s \ {Some(s)}] \in Nat /\ weight[Some(s)] \in Nat
      BY <1>1, <2>1
    <3> QED
      BY <3>1
  <2> QED
    BY <2>1
<1>4. LooksBelow(D, Nat, measure, step)
  <2> SUFFICES ASSUME NEW s \in D, NEW g \in [D -> Nat], NEW h \in [D -> Nat], Alike(D, measure, s, g, h)
               PROVE  step[<<g, s>>] = step[<<h, s>>]
    BY DEF LooksBelow
  <2>1. s # {} => g[s \ {Some(s)}] = h[s \ {Some(s)}]
    BY <1>1 DEF Alike
  <2> QED
    BY <2>1
<1>5. PICK f : Solves(D, Nat, step, f)
  <2>1. Nat # {}
    OBVIOUS
  <2> HIDE DEF D, measure, step
  <2> QED
    BY <2>1, <1>2, <1>3, <1>4, Recursion
<1>6. /\ f \in [D -> Nat]
      /\ \A s \in D : f[s] = IF s = {} THEN 0 ELSE f[s \ {Some(s)}] + weight[Some(s)]
  BY <1>5 DEF Solves
<1> HIDE DEF measure, step
<1> QED
  BY <1>6 DEF Sums

(* If the weights of the elements of C are larger by one, the sum is       *)
(* larger by the number of them.                                           *)
(* v is w with one more for each element of C. *)
GrowsOn(S, w, v, C) ==
    \A x \in S : w[x] \in Nat /\ v[x] = w[x] + (IF x \in C THEN 1 ELSE 0)

LEMMA SumGrows ==
  ASSUME NEW S, IsFiniteSet(S), NEW C,
         NEW w, NEW f, f \in [SUBSET S -> Nat], Sums(S, w, f),
         NEW v, NEW g, g \in [SUBSET S -> Nat], Sums(S, v, g),
         GrowsOn(S, w, v, C)
  PROVE  g[S] = f[S] + Cardinality(S \cap C)
<1> DEFINE Good == {n \in Nat : \A s \in SUBSET S : Cardinality(s) = n => g[s] = f[s] + Cardinality(s \cap C)}
<1>1. ASSUME NEW s \in SUBSET S
      PROVE  IsFiniteSet(s) /\ IsFiniteSet(s \cap C) /\ Cardinality(s) \in Nat /\ Cardinality(s \cap C) \in Nat
  <2>1. IsFiniteSet(s) /\ IsFiniteSet(s \cap C)
    BY FS_Subset
  <2> QED
    BY <2>1, FS_CardinalityType
<1>2. f[{}] = 0 /\ g[{}] = 0
  BY DEF Sums
<1>3. ASSUME NEW s \in SUBSET S, s # {}
      PROVE  f[s] = f[s \ {Some(s)}] + w[Some(s)] /\ g[s] = g[s \ {Some(s)}] + v[Some(s)]
  BY <1>3 DEF Sums
<1>4. 0 \in Good
  <2>1. ASSUME NEW s \in SUBSET S, Cardinality(s) = 0 PROVE g[s] = f[s] + Cardinality(s \cap C)
    <3>1. s = {} /\ s \cap C = {}
      BY <1>1, <2>1, FS_EmptySet
    <3>2. Cardinality(s \cap C) = 0
      BY <3>1, FS_EmptySet
    <3> QED
      BY <1>2, <3>1, <3>2
  <2> QED
    BY <2>1
<1>5. ASSUME NEW n \in Nat, n \in Good PROVE n + 1 \in Good
  <2>1. ASSUME NEW s \in SUBSET S, Cardinality(s) = n + 1 PROVE g[s] = f[s] + Cardinality(s \cap C)
    <3> DEFINE x == Some(s)
               t == s \ {x}
    <3>1. s # {}
      <4>1. Cardinality(s) # 0
        BY <2>1
      <4> QED
        BY <4>1, FS_EmptySet
    <3>2. x \in s /\ Cardinality(t) = Cardinality(s) - 1
      BY <1>1, <3>1, SomeLess
    <3>3. Cardinality(t) = n /\ t \in SUBSET S /\ x \in S
      BY <2>1, <3>2
    <3>4. g[t] = f[t] + Cardinality(t \cap C)
      BY <1>5, <3>3
    <3>5. f[s] = f[t] + w[x] /\ g[s] = g[t] + v[x]
      BY <1>3, <3>1
    <3>6. f[t] \in Nat /\ w[x] \in Nat /\ v[x] = w[x] + (IF x \in C THEN 1 ELSE 0)
      BY <3>3 DEF GrowsOn
    <3>7. Cardinality(t \cap C) \in Nat /\ IsFiniteSet(t \cap C)
      BY <1>1, <3>3
    <3>8. x \notin t
      OBVIOUS
    <3>9. t \cup {x} = s
      BY <3>2
    <3> HIDE DEF x, t
    <3>10. CASE x \in C
      <4>1. s \cap C = (t \cap C) \cup {x} /\ x \notin t \cap C
        BY <3>8, <3>9, <3>10
      <4>2. Cardinality(s \cap C) = Cardinality(t \cap C) + 1
        BY <3>7, <4>1, FS_AddElement
      <4> QED
        BY <3>4, <3>5, <3>6, <3>7, <3>10, <4>2
    <3>11. CASE x \notin C
      <4>1. s \cap C = t \cap C
        BY <3>9, <3>11
      <4>2. v[x] = w[x]
        BY <3>6, <3>11
      <4>3. g[s] = (f[t] + Cardinality(t \cap C)) + w[x] /\ f[s] = f[t] + w[x]
        BY <3>4, <3>5, <4>2
      <4>4. \A a, b, c \in Nat : (a + c) + b = (a + b) + c
        OBVIOUS
      <4>5. (f[t] + Cardinality(t \cap C)) + w[x] = (f[t] + w[x]) + Cardinality(t \cap C)
        BY <3>3, <3>6, <3>7, <4>4
      <4>6. Cardinality(s \cap C) = Cardinality(t \cap C)
        BY <4>1
      <4> QED
        BY ONLY <4>3, <4>5, <4>6
    <3> QED
      BY <3>10, <3>11
  <2> QED
    BY <2>1
<1>6. Nat \subseteq Good
  <2> HIDE DEF Good
  <2> QED
    BY <1>4, <1>5, SetInduction
<1>7. Cardinality(S) \in Nat /\ S \in SUBSET S
  BY <1>1
<1> QED
  BY <1>6, <1>7

LEMMA SumWithin ==
  ASSUME NEW S, IsFiniteSet(S), NEW weight, NEW f, Sums(S, weight, f),
         NEW V, 0 \in V, \A x \in S : \A n \in V : n + weight[x] \in V
  PROVE  f \in [SUBSET S -> V]
<1> DEFINE Good == {n \in Nat : \A s \in SUBSET S : Cardinality(s) = n => f[s] \in V}
<1>1. ASSUME NEW s \in SUBSET S PROVE IsFiniteSet(s) /\ Cardinality(s) \in Nat
  <2>1. IsFiniteSet(s)
    BY FS_Subset
  <2> QED
    BY <2>1, FS_CardinalityType
<1>2. 0 \in Good
  <2>1. ASSUME NEW s \in SUBSET S, Cardinality(s) = 0 PROVE f[s] \in V
    <3>1. s = {}
      BY <1>1, <2>1, FS_EmptySet
    <3>2. f[{}] = 0
      BY DEF Sums
    <3> QED
      BY <3>1, <3>2
  <2> QED
    BY <2>1
<1>3. ASSUME NEW n \in Nat, n \in Good PROVE n + 1 \in Good
  <2>1. ASSUME NEW s \in SUBSET S, Cardinality(s) = n + 1 PROVE f[s] \in V
    <3>1. s # {}
      <4>1. Cardinality(s) # 0
        BY <2>1
      <4> QED
        BY <4>1, FS_EmptySet
    <3>2. Some(s) \in s /\ Cardinality(s \ {Some(s)}) = Cardinality(s) - 1
      BY <1>1, <3>1, SomeLess
    <3>3. Cardinality(s \ {Some(s)}) = n /\ s \ {Some(s)} \in SUBSET S
      BY <2>1, <3>2
    <3>4. f[s \ {Some(s)}] \in V /\ Some(s) \in S
      BY <1>3, <3>2, <3>3
    <3>5. f[s] = f[s \ {Some(s)}] + weight[Some(s)]
      BY <3>1 DEF Sums
    <3> QED
      BY <3>4, <3>5
  <2> QED
    BY <2>1
<1>4. Nat \subseteq Good
  <2> HIDE DEF Good
  <2> QED
    BY <1>2, <1>3, SetInduction
<1>5. \A s \in SUBSET S : f[s] \in V
  BY <1>1, <1>4
<1>6. f = [s \in SUBSET S |-> f[s]]
  BY DEF Sums
<1> QED
  BY <1>5, <1>6

LEMMA SumTyped ==
  ASSUME NEW S, IsFiniteSet(S), NEW weight, \A x \in S : weight[x] \in Nat, NEW f, Sums(S, weight, f)
  PROVE  f \in [SUBSET S -> Nat]
<1>1. 0 \in Nat /\ \A x \in S : \A n \in Nat : n + weight[x] \in Nat
  OBVIOUS
<1> QED
  BY <1>1, SumWithin, Zenon

LEMMA SumOfZeros ==
  ASSUME NEW S, IsFiniteSet(S), NEW weight, \A x \in S : weight[x] = 0, NEW f, Sums(S, weight, f)
  PROVE  f[S] = 0
<1>1. 0 \in {0} /\ \A x \in S : \A n \in {0} : n + weight[x] \in {0}
  OBVIOUS
<1>2. f \in [SUBSET S -> {0}]
  BY <1>1, SumWithin, Zenon
<1> QED
  BY <1>2
=============================================================================
