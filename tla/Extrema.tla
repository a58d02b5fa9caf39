------------------------------ MODULE Extrema -------------------------------
(***************************************************************************)
(* What Min and Max of FiniteSetsExt and FoldLeft of SequencesExt return,  *)
(* and the ranks of the members of a set, for the proofs about the modules *)
(* that use them.                                                          *)
(***************************************************************************)
EXTENDS Integers, FiniteSetsExt, FiniteSetTheorems, TLAPS

(* Every non-empty set of naturals has a least element, every bounded one a
   greatest: what Min and Max choose.                                       *)
LEMMA LeastNumber ==
    ASSUME NEW S, S \subseteq Nat, S # {}
    PROVE  \E x \in S : \A y \in S : x <= y
  <1> DEFINE R == {ss \in Nat \X Nat : ss[1] < ss[2]}
  <1>1. IsWellFoundedOn(R, Nat)
    BY NatLessThanWellFounded DEF OpToRel
  <1>2. PICK x \in S : \A y \in S : ~(<<y, x>> \in R)
    BY <1>1, WFMin
  <1>3. \A y \in S : ~(y < x)
    BY <1>2
  <1> QED  BY <1>3

LEMMA MinOf ==
    ASSUME NEW S, S \subseteq Nat, S # {}
    PROVE  Min(S) \in S /\ \A y \in S : Min(S) <= y
  BY LeastNumber DEF Min

LEMMA MaxOf ==
    ASSUME NEW S, S \subseteq Nat, S # {}, NEW n \in Nat, \A x \in S : x <= n
    PROVE  Max(S) \in S /\ \A y \in S : Max(S) >= y
  <1> DEFINE U == {k \in Nat : \A x \in S : x <= k}
  <1>1. U \subseteq Nat /\ U # {}
    OBVIOUS
  <1>2. PICK m \in U : \A k \in U : m <= k
    BY <1>1, LeastNumber
  <1>3. m \in S
    <2>1. SUFFICES ASSUME m \notin S  PROVE FALSE
      OBVIOUS
    <2>2. PICK x \in S : TRUE
      OBVIOUS
    <2>3. \A y \in S : y <= m - 1
      BY <2>1, <1>2
    <2>4. m - 1 \in U
      BY <2>2, <2>3
    <2> QED  BY <2>4, <1>2
  <1>4. \E z \in S : \A y \in S : z >= y
    BY <1>2, <1>3
  <1> QED  BY <1>4 DEF Max

LEMMA MaxOfTwo ==
    ASSUME NEW a \in Nat, NEW b \in Nat
    PROVE  Max({a, b}) = IF a >= b THEN a ELSE b
  <1>1. Max({a, b}) \in {a, b} /\ \A y \in {a, b} : Max({a, b}) >= y
    BY MaxOf, a + b \in Nat
  <1> QED  BY <1>1
-----------------------------------------------------------------------------
(* FoldLeft.  It is a CHOOSE of a function that satisfies a recursive       *)
(* equation on the sets of indices; that there is one is shown by building  *)
(* it index by index.                                                       *)

(* A function from 0 .. n can be built step by step.                        *)
StepsTo(n, X, base, step) ==
    {g \in [0 .. n -> X] : g[0] = base /\ \A i \in 1 .. n : g[i] = step[<<i, g[i - 1]>>]}

LEMMA StepsExist ==
    ASSUME NEW N \in Nat, NEW X, NEW base \in X, NEW step \in [(1 .. N) \X X -> X]
    PROVE  \E g : g \in StepsTo(N, X, base, step)
  <1> DEFINE Bad == {n \in 0 .. N : StepsTo(n, X, base, step) = {}}
  <1>1. SUFFICES ASSUME Bad # {}  PROVE FALSE
    BY DEF Bad
  <1>0. Bad \subseteq Nat
    OBVIOUS
  <1>2. PICK n \in Bad : \A m \in Bad : n <= m
    <2> HIDE DEF Bad
    <2> QED  BY <1>0, <1>1, LeastNumber
  <1>3. n \in 0 .. N /\ StepsTo(n, X, base, step) = {}
    OBVIOUS
  <1>4. n # 0
    <2>1. PICK g : g = [i \in 0 .. 0 |-> base]
      OBVIOUS
    <2>2. g \in StepsTo(0, X, base, step)
      BY <2>1 DEF StepsTo
    <2> QED  BY <1>3, <2>2
  <1>5. n - 1 \in 0 .. N /\ n - 1 \notin Bad
    BY <1>2, <1>3, <1>4
  <1>6. PICK g : g \in StepsTo(n - 1, X, base, step)
    BY <1>5
  <1>7. /\ g \in [0 .. n - 1 -> X] /\ g[0] = base
        /\ \A i \in 1 .. n - 1 : g[i] = step[<<i, g[i - 1]>>]
    BY <1>6 DEF StepsTo
  <1>8. PICK x : x = step[<<n, g[n - 1]>>]
    OBVIOUS
  <1>9. x \in X
    <2>1. g[n - 1] \in X /\ n \in 1 .. N
      BY <1>3, <1>4, <1>7
    <2> QED  BY <1>8, <2>1
  <1>10. PICK h : h = [i \in 0 .. n |-> IF i = n THEN x ELSE g[i]]
    OBVIOUS
  <1>11. h \in [0 .. n -> X] /\ h[0] = base /\ h[n] = x /\ \A i \in 0 .. n - 1 : h[i] = g[i]
    BY <1>3, <1>4, <1>7, <1>9, <1>10
  <1>12. \A i \in 1 .. n : h[i] = step[<<i, h[i - 1]>>]
    <2>1. ASSUME NEW i \in 1 .. n  PROVE h[i] = step[<<i, h[i - 1]>>]
      <3>1. h[i - 1] = g[i - 1]
        BY <1>3, <1>4, <1>11
      <3>2. CASE i = n
        BY <1>8, <1>11, <3>1, <3>2
      <3>3. CASE i # n
        <4>1. i \in 1 .. n - 1 /\ i \in 0 .. n - 1
          BY <1>3, <3>3
        <4> QED  BY <1>7, <1>11, <3>1, <4>1
      <3> QED  BY <3>2, <3>3
    <2> QED  BY <2>1
  <1>13. h \in StepsTo(n, X, base, step)
    BY <1>11, <1>12 DEF StepsTo
  <1> QED  BY <1>3, <1>13

(* What FoldLeft's recursive function is asked to satisfy, the fold being   *)
(* given as a function of the index and of what was folded before.          *)
FoldEquation(iter, N, base, step) ==
    iter = [s \in SUBSET (1 .. N) |->
              IF s = {} THEN base ELSE step[<<Max(s), iter[s \ {Max(s)}]>>]]

(* Index i is folded into the sets that hold it.                            *)
IndexStep(N, X, step) ==
    [a \in (1 .. N) \X [SUBSET (1 .. N) -> X] |->
       [s \in SUBSET (1 .. N) |->
          IF a[1] \in s THEN step[<<a[1], a[2][s]>>] ELSE a[2][s]]]

LEMMA FoldExists ==
    ASSUME NEW N \in Nat, NEW X, NEW base \in X, NEW step \in [(1 .. N) \X X -> X]
    PROVE  \E iter \in [SUBSET (1 .. N) -> X] : FoldEquation(iter, N, base, step)
  <1> DEFINE D == SUBSET (1 .. N)
             Y == [D -> X]
  <1>1. PICK b : b = [s \in D |-> base]
    OBVIOUS
  <1>2. PICK next : next = IndexStep(N, X, step)
    OBVIOUS
  <1>3. b \in Y
    BY <1>1
  <1>4. \A i \in 1 .. N, F \in Y : next[<<i, F>>] = [s \in D |-> IF i \in s THEN step[<<i, F[s]>>] ELSE F[s]]
    BY <1>2 DEF IndexStep
  <1>5. \A i \in 1 .. N, F \in Y : next[<<i, F>>] \in Y
    <2> SUFFICES ASSUME NEW i \in 1 .. N, NEW F \in Y  PROVE next[<<i, F>>] \in Y
      BY Zenon
    <2>1. PICK H : H = next[<<i, F>>]
      OBVIOUS
    <2>2. H = [s \in D |-> IF i \in s THEN step[<<i, F[s]>>] ELSE F[s]]
      BY <1>4, <2>1
    <2>3. \A x \in X : step[<<i, x>>] \in X
      <3>1. \A a \in (1 .. N) \X X : step[a] \in X
        OBVIOUS
      <3>2. \A x \in X : <<i, x>> \in (1 .. N) \X X
        OBVIOUS
      <3> QED  BY <3>1, <3>2
    <2>4. \A s \in D : F[s] \in X
      OBVIOUS
    <2>5. \A s \in D : H[s] \in X
      BY <2>2, <2>3, <2>4
    <2> QED  BY <2>1, <2>2, <2>5
  <1>6. next \in [(1 .. N) \X Y -> Y]
    <2>1. next = [a \in (1 .. N) \X Y |-> next[a]]
      BY <1>2 DEF IndexStep
    <2>2. \A a \in (1 .. N) \X Y : next[a] \in Y
      <3> HIDE DEF Y
      <3> QED  BY <1>5
    <2> HIDE DEF Y
    <2> QED  BY <2>1, <2>2
  <1>7. PICK G : G \in StepsTo(N, Y, b, next)
    <2> HIDE DEF Y
    <2> QED  BY <1>3, <1>6, StepsExist
  <1>8. /\ G \in [0 .. N -> Y] /\ G[0] = b
        /\ \A i \in 1 .. N : G[i] = next[<<i, G[i - 1]>>]
    BY <1>7 DEF StepsTo
  <1>9. \A i \in 0 .. N : G[i] \in Y
    <2> HIDE DEF Y
    <2> QED  BY <1>8
  <1>10. ASSUME NEW i \in 1 .. N, NEW s \in D
         PROVE  G[i][s] = IF i \in s THEN step[<<i, G[i - 1][s]>>] ELSE G[i - 1][s]
    <2>1. i - 1 \in 0 .. N
      OBVIOUS
    <2>2. PICK F : F = G[i - 1]
      OBVIOUS
    <2>3. F \in Y /\ G[i] = next[<<i, F>>]
      <3> HIDE DEF Y
      <3> QED  BY <1>8, <1>9, <2>1, <2>2
    <2>4. G[i] = [u \in D |-> IF i \in u THEN step[<<i, F[u]>>] ELSE F[u]]
      BY <1>4, <2>3
    <2> QED  BY <2>2, <2>4
  <1> HIDE DEF Y
  <1>11. ASSUME NEW s \in D, NEW i \in 0 .. N, \A x \in s : x <= i
         PROVE  \A j \in i .. N : G[j][s] = G[i][s]
    <2> DEFINE Bad == {j \in i .. N : G[j][s] # G[i][s]}
    <2>1. SUFFICES ASSUME Bad # {}  PROVE FALSE
      OBVIOUS
    <2>2. Bad \subseteq Nat
      OBVIOUS
    <2>3. PICK j \in Bad : \A m \in Bad : j <= m
      <3> HIDE DEF Bad
      <3> QED  BY <2>1, <2>2, LeastNumber
    <2>4. j \in i .. N /\ j # i
      OBVIOUS
    <2>5. j - 1 \in i .. N /\ j - 1 \notin Bad
      BY <2>3, <2>4
    <2>6. G[j - 1][s] = G[i][s]
      BY <2>5
    <2>7. j \in 1 .. N /\ j \notin s
      BY <1>11, <2>4
    <2>8. G[j][s] = G[j - 1][s]
      BY <1>10, <2>7
    <2> QED  BY <2>3, <2>6, <2>8
  <1>12. ASSUME NEW s \in D, NEW u \in D, NEW i \in 0 .. N, \A x \in 1 .. i : x \in s <=> x \in u
         PROVE  G[i][s] = G[i][u]
    <2> DEFINE Bad == {j \in 0 .. i : G[j][s] # G[j][u]}
    <2>1. SUFFICES ASSUME Bad # {}  PROVE FALSE
      OBVIOUS
    <2>2. Bad \subseteq Nat
      OBVIOUS
    <2>3. PICK j \in Bad : \A m \in Bad : j <= m
      <3> HIDE DEF Bad
      <3> QED  BY <2>1, <2>2, LeastNumber
    <2>4. G[0][s] = base /\ G[0][u] = base
      BY <1>1, <1>8
    <2>5. j \in 1 .. i /\ j \in 1 .. N
      BY <2>3, <2>4
    <2>6. j - 1 \in 0 .. i /\ j - 1 \notin Bad
      BY <2>3, <2>5
    <2>7. G[j - 1][s] = G[j - 1][u]
      BY <2>6
    <2>8. G[j][s] = G[j][u]
      <3>1. G[j][s] = IF j \in s THEN step[<<j, G[j - 1][s]>>] ELSE G[j - 1][s]
        BY <1>10, <2>5
      <3>2. G[j][u] = IF j \in u THEN step[<<j, G[j - 1][u]>>] ELSE G[j - 1][u]
        BY <1>10, <2>5
      <3> QED  BY <1>12, <2>5, <2>7, <3>1, <3>2
    <2> QED  BY <2>3, <2>8
  <1>13. PICK iter : iter = G[N]
    OBVIOUS
  <1>14. iter \in [D -> X]
    <2>1. iter \in Y
      BY <1>9, <1>13
    <2> QED  BY <2>1 DEF Y
  <1>15. ASSUME NEW s \in D
         PROVE  iter[s] = IF s = {} THEN base ELSE step[<<Max(s), iter[s \ {Max(s)}]>>]
    <2>1. CASE s = {}
      <3>1. G[N][s] = G[0][s]
        BY <1>11, <2>1
      <3> QED  BY <1>1, <1>8, <1>13, <2>1, <3>1
    <2>2. CASE s # {}
      <3>1. s \subseteq Nat /\ \A x \in s : x <= N
        OBVIOUS
      <3>2. PICK m : m = Max(s)
        OBVIOUS
      <3>3. m \in s /\ \A x \in s : m >= x
        BY <2>2, <3>1, <3>2, MaxOf
      <3>4. PICK u : u = s \ {m}
        OBVIOUS
      <3>5. m \in 1 .. N /\ m - 1 \in 0 .. N /\ u \in D /\ \A x \in s : x \in Nat
        BY <3>1, <3>3, <3>4
      <3>6. G[N][s] = G[m][s]
        <4>1. m \in 0 .. N /\ N \in m .. N /\ \A x \in s : x <= m
          BY <3>3, <3>5
        <4> QED  BY <1>11, <4>1
      <3>7. G[m][s] = step[<<m, G[m - 1][s]>>]
        BY <1>10, <3>3, <3>5
      <3>8. G[m - 1][s] = G[m - 1][u]
        <4>1. \A x \in 1 .. m - 1 : x \in s <=> x \in u
          BY <3>4, <3>5
        <4> QED  BY <1>12, <3>5, <4>1
      <3>9. G[N][u] = G[m - 1][u]
        <4>1. N \in m - 1 .. N
          BY <3>5
        <4>2. \A x \in u : x <= m - 1
          BY <3>3, <3>4, <3>5
        <4> QED  BY <1>11, <3>5, <4>1, <4>2
      <3> QED  BY <1>13, <2>2, <3>2, <3>4, <3>6, <3>7, <3>8, <3>9
    <2> QED  BY <2>1, <2>2
  <1>16. FoldEquation(iter, N, base, step)
    BY <1>14, <1>15 DEF FoldEquation
  <1> QED  BY <1>14, <1>16

(* The indices up to i.                                                     *)
LEMMA PrefixMax ==
    ASSUME NEW i \in Nat, i > 0
    PROVE  Max(1 .. i) = i
  <1>1. i \in 1 .. i /\ 1 .. i \subseteq Nat /\ \A x \in 1 .. i : x <= i
    OBVIOUS
  <1>2. PICK m : m = Max(1 .. i)
    OBVIOUS
  <1>3. m \in 1 .. i /\ m >= i
    BY <1>1, <1>2, MaxOf
  <1> QED  BY <1>2, <1>3

(* A function that satisfies the equation where its own values are in X     *)
(* goes through the steps, and its last value is in X.                      *)
FoldsWithin(f, N, X, base, step) ==
    /\ f[{}] = base
    /\ \A s \in SUBSET (1 .. N) :
         s # {} /\ f[s \ {Max(s)}] \in X => f[s] = step[<<Max(s), f[s \ {Max(s)}]>>]

LEMMA FoldTyped ==
    ASSUME NEW N \in Nat, NEW X, NEW base \in X, NEW step \in [(1 .. N) \X X -> X],
           NEW f, FoldsWithin(f, N, X, base, step)
    PROVE  f[1 .. N] \in X
  <1>0. /\ f[{}] = base
        /\ \A s \in SUBSET (1 .. N) :
             s # {} /\ f[s \ {Max(s)}] \in X => f[s] = step[<<Max(s), f[s \ {Max(s)}]>>]
    BY DEF FoldsWithin
  <1>1. PICK h : h \in StepsTo(N, X, base, step)
    BY StepsExist
  <1>2. /\ h \in [0 .. N -> X] /\ h[0] = base
        /\ \A i \in 1 .. N : h[i] = step[<<i, h[i - 1]>>]
    BY <1>1 DEF StepsTo
  <1> DEFINE Bad == {i \in 0 .. N : f[1 .. i] # h[i]}
  <1>3. ASSUME Bad # {}  PROVE FALSE
    <2>1. Bad \subseteq Nat
      OBVIOUS
    <2>2. PICK i \in Bad : \A m \in Bad : i <= m
      <3> HIDE DEF Bad
      <3> QED  BY <1>3, <2>1, LeastNumber
    <2>3. i # 0
      <3>1. 1 .. 0 = {}
        OBVIOUS
      <3> QED  BY <1>0, <1>2, <2>2, <3>1
    <2>4. i \in Nat /\ i > 0 /\ i \in 1 .. N /\ i - 1 \in 0 .. N
      BY <2>2, <2>3
    <2>5. f[1 .. i - 1] = h[i - 1] /\ h[i - 1] \in X
      <3>1. i - 1 \notin Bad
        BY <2>2, <2>4
      <3> QED  BY <1>2, <2>4, <3>1
    <2>6. Max(1 .. i) = i
      BY <2>4, PrefixMax
    <2>7. 1 .. i # {} /\ (1 .. i) \ {i} = 1 .. i - 1 /\ 1 .. i \in SUBSET (1 .. N)
      BY <2>4
    <2>8. PICK s : s = 1 .. i
      OBVIOUS
    <2>9. s \ {Max(s)} = 1 .. i - 1 /\ s # {} /\ s \in SUBSET (1 .. N) /\ Max(s) = i
      BY <2>6, <2>7, <2>8
    <2>10. f[s] = step[<<i, h[i - 1]>>]
      BY <1>0, <2>5, <2>9
    <2> QED  BY <1>2, <2>2, <2>4, <2>8, <2>10
  <1>4. f[1 .. N] = h[N]
    <2>1. N \in 0 .. N
      OBVIOUS
    <2> QED  BY <1>3, <2>1
  <1> QED  BY <1>2, <1>4

-----------------------------------------------------------------------------
(* Ranks number the members of a set without gaps.                          *)
LEMMA FiniteRanks ==
    ASSUME NEW D, D \subseteq Nat \ {0}, IsFiniteSet(D)
    PROVE  /\ Cardinality(D) \in Nat
           /\ \A p \in D : Cardinality(D \intersect 1..p) \in 1..Cardinality(D)
           /\ \A p, q \in D : Cardinality(D \intersect 1..p) = Cardinality(D \intersect 1..q) => p = q
           /\ \A i \in 1..Cardinality(D) : \E p \in D : Cardinality(D \intersect 1..p) = i
  <1> DEFINE n == Cardinality(D)
             r(p) == Cardinality(D \intersect 1..p)
  <1>1. IsFiniteSet(D) /\ n \in Nat
    BY FS_CardinalityType
  <1>2. ASSUME NEW p \in D
        PROVE  IsFiniteSet(D \intersect 1..p) /\ r(p) \in 1..n
    <2>1. D \intersect 1..p \in SUBSET D
      OBVIOUS
    <2>2. IsFiniteSet(D \intersect 1..p) /\ r(p) <= n
      BY <1>1, <2>1, FS_Subset
    <2>3. p \in D \intersect 1..p
      BY <1>2
    <2>4. D \intersect 1..p # {}
      BY <2>3
    <2>5. r(p) \in Nat
      BY <2>2, FS_CardinalityType
    <2>6. r(p) # 0
      BY <2>2, <2>4, FS_EmptySet
    <2> HIDE DEF r, n
    <2>7. r(p) \in 1..n
      BY <1>1, <2>2, <2>5, <2>6 DEF r
    <2> QED  BY <2>2, <2>7
  <1>3. ASSUME NEW p \in D, NEW q \in D, p < q  PROVE r(p) # r(q)
    <2>1. D \intersect 1..p \in SUBSET (D \intersect 1..q)
      BY <1>3
    <2>2. q \in D \intersect 1..q /\ q \notin D \intersect 1..p
      BY <1>3
    <2> QED  BY <1>2, <2>1, <2>2, FS_Subset
  <1>4. ASSUME NEW p \in D, NEW q \in D, r(p) = r(q)  PROVE p = q
    <2>1. p \in Nat /\ q \in Nat
      BY <1>4
    <2>2. ~(p < q) /\ ~(q < p)
      BY <1>3, <1>4
    <2> QED  BY <2>1, <2>2
  <1> DEFINE f == [p \in D |-> r(p)]
  <1>5. f \in Injection(D, 1..n)
    <2> HIDE DEF r, n
    <2>1. f \in [D -> 1..n]
      BY <1>2
    <2>2. \A a, b \in D : f[a] = f[b] => a = b
      BY <1>4
    <2> HIDE DEF f
    <2> QED  BY <2>1, <2>2 DEF Injection, IsInjective
  <1>6. f \in Surjection(D, 1..n)
    <2>1. IsFiniteSet(1..n) /\ Cardinality(1..n) = n
      BY <1>1, FS_Interval
    <2> QED  BY <1>5, <2>1, FS_Injection
  <1>7. ASSUME NEW i \in 1..n  PROVE \E p \in D : r(p) = i
    BY <1>6, <1>7 DEF Surjection
  <1> QED  BY <1>1, <1>2, <1>4, <1>7

LEMMA Ranks ==
    ASSUME NEW N \in Nat, NEW D, D \subseteq 1..N
    PROVE  /\ Cardinality(D) \in Nat
           /\ \A p \in D : Cardinality(D \intersect 1..p) \in 1..Cardinality(D)
           /\ \A p, q \in D : Cardinality(D \intersect 1..p) = Cardinality(D \intersect 1..q) => p = q
           /\ \A i \in 1..Cardinality(D) : \E p \in D : Cardinality(D \intersect 1..p) = i
  <1>1. IsFiniteSet(1..N) /\ D \subseteq Nat \ {0}
    BY FS_Interval
  <1>2. IsFiniteSet(D)
    BY <1>1, FS_Subset
  <1> QED  BY <1>1, <1>2, FiniteRanks
=============================================================================
