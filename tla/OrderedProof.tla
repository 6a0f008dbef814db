---------------------------- MODULE OrderedProof ----------------------------
EXTENDS Ordered, FiniteSetTheorems, FunctionTheorems, SequenceTheorems, TLAPS

\* Fewer come before what comes earlier.
LEMMA RanksDiffer ==
  ASSUME NEW S \in SUBSET Nat, IsFiniteSet(S), NEW x \in S, NEW y \in S, x < y
  PROVE  Before(S, x) < Before(S, y)
<1> DEFINE a == {z \in S : z < x}
           b == {z \in S : z < y}
<1>1. a \in SUBSET b /\ x \in b /\ x \notin a
  <2>1. \A z \in S : z \in Nat
    OBVIOUS
  <2>2. x \in b /\ x \notin a
    BY <2>1
  <2>3. \A z \in S : z < x => z < y
    BY <2>1
  <2> QED  BY <2>2, <2>3
<1>2. IsFiniteSet(b) /\ IsFiniteSet(a)
  BY FS_Subset
<1>3. /\ Cardinality(a) \in Nat /\ Cardinality(b) \in Nat
      /\ Cardinality(a) <= Cardinality(b) /\ Cardinality(a) # Cardinality(b)
  <2> HIDE DEF a, b
  <2> QED  BY <1>1, <1>2, FS_Subset, FS_CardinalityType
<1>4. Cardinality(a) < Cardinality(b)
  BY <1>3
<1> QED  BY <1>4 DEF Before

\* Every place is taken by a member, that has as many before it.
LEMMA RanksCover ==
  ASSUME NEW S \in SUBSET Nat, IsFiniteSet(S)
  PROVE  /\ \A x \in S : Before(S, x) \in 0 .. Cardinality(S) - 1
         /\ \A i \in 1 .. Cardinality(S) : \E x \in S : Before(S, x) = i - 1
<1> DEFINE n == Cardinality(S)
           r == [x \in S |-> Before(S, x) + 1]
<1>1. n \in Nat
  BY FS_CardinalityType
<1>2. ASSUME NEW x \in S PROVE Before(S, x) \in 0 .. n - 1
  <2> DEFINE a == {z \in S : z < x}
  <2>1. a \in SUBSET S /\ a # S
    OBVIOUS
  <2>2. IsFiniteSet(a) /\ Cardinality(a) <= n /\ Cardinality(a) # n
    <3> HIDE DEF a
    <3> QED  BY <2>1, FS_Subset
  <2>3. Cardinality(a) \in Nat
    <3> HIDE DEF a
    <3> QED  BY <2>2, FS_CardinalityType
  <2>4. Cardinality(a) \in 0 .. n - 1
    <3> HIDE DEF a
    <3> QED BY <1>1, <2>2, <2>3
  <2> QED  BY <2>4 DEF Before
<1>3. r \in Injection(S, 1 .. n)
  <2>1. r \in [S -> 1 .. n]
    BY <1>1, <1>2
  <2>2. ASSUME NEW x \in S, NEW y \in S, r[x] = r[y] PROVE x = y
    <3>1. Before(S, x) = Before(S, y)
      BY <1>2, <2>2
    <3>2. x \in Nat /\ y \in Nat
      OBVIOUS
    <3> QED  BY <3>1, <3>2, <1>2, RanksDiffer
  <2> QED  BY <2>1, <2>2 DEF Injection, IsInjective
<1>4. IsFiniteSet(1 .. n) /\ Cardinality(1 .. n) = n
  BY <1>1, FS_Interval
<1>5. r \in Surjection(S, 1 .. n)
  <2> HIDE DEF r, n
  <2>1. Cardinality(S) = Cardinality(1 .. n)
    BY <1>4 DEF n
  <2> QED  BY <1>3, <1>4, <2>1, FS_Injection
<1>6. ASSUME NEW i \in 1 .. n PROVE \E x \in S : Before(S, x) = i - 1
  <2>1. PICK x \in S : r[x] = i
    BY <1>5 DEF Surjection
  <2> QED  BY <1>1, <1>2, <2>1
<1> QED  BY <1>2, <1>6

\* What comes before x in S is all of R: then x has the same place in R ...
LEMMA SamePlace ==
  ASSUME NEW S, NEW R \in SUBSET S, NEW x, \A y \in S : y < x => y \in R
  PROVE  Before(S, x) = Before(R, x)
<1>1. {y \in S : y < x} = {y \in R : y < x}
  OBVIOUS
<1> QED  BY <1>1 DEF Before

\* ... and if all of R comes before x, then x has no less before it.
LEMMA MoreBefore ==
  ASSUME NEW S, IsFiniteSet(S), NEW R \in SUBSET S, NEW x, \A y \in R : y < x
  PROVE  IsFiniteSet(R) /\ Cardinality(R) \in Nat /\ Before(S, x) \in Nat /\ Cardinality(R) <= Before(S, x)
<1> DEFINE b == {y \in S : y < x}
<1>1. b \in SUBSET S /\ R \in SUBSET b
  OBVIOUS
<1>2. IsFiniteSet(b) /\ Cardinality(b) \in Nat /\ IsFiniteSet(R) /\ Cardinality(R) \in Nat
      /\ Cardinality(R) <= Cardinality(b)
  <2> HIDE DEF b
  <2> QED  BY <1>1, FS_Subset, FS_CardinalityType
<1> QED  BY <1>2 DEF Before

\* So the sorted list has every member once, the lesser ones earlier.
LEMMA AscendingHolds ==
  ASSUME NEW S \in SUBSET Nat, IsFiniteSet(S)
  PROVE  /\ Cardinality(S) \in Nat
         /\ Ascending(S) \in Seq(S)
         /\ Len(Ascending(S)) = Cardinality(S)
         /\ \A i \in 1 .. Cardinality(S) : /\ Ascending(S)[i] \in S
                                           /\ Before(S, Ascending(S)[i]) = i - 1
         /\ \A i, j \in 1 .. Cardinality(S) : i < j => Ascending(S)[i] < Ascending(S)[j]
         /\ \A x \in S : \E i \in 1 .. Cardinality(S) : Ascending(S)[i] = x
<1> DEFINE n == Cardinality(S)
           q == Ascending(S)
<1>1. n \in Nat
  BY FS_CardinalityType
<1>2. ASSUME NEW i \in 1 .. n PROVE q[i] \in S /\ Before(S, q[i]) = i - 1
  <2>1. q[i] = CHOOSE x \in S : Before(S, x) = i - 1
    BY DEF Ascending
  <2>2. \E x \in S : Before(S, x) = i - 1
    BY RanksCover
  <2> QED  BY <2>1, <2>2
<1>3. q = [i \in 1 .. n |-> q[i]]
  BY DEF Ascending
<1> HIDE DEF q
<1>4. q \in Seq(S) /\ Len(q) = n
  <2>1. q \in [1 .. n -> S]
    BY <1>2, <1>3
  <2> QED  BY <1>1, <2>1, LenProperties, SeqDef
<1>5. ASSUME NEW i \in 1 .. n, NEW j \in 1 .. n, i < j PROVE q[i] < q[j]
  <2>1. q[i] \in Nat /\ q[j] \in Nat
    BY <1>2
  <2>3. Before(S, q[i]) = i - 1 /\ Before(S, q[j]) = j - 1 /\ i - 1 < j - 1
    BY <1>1, <1>2, <1>5
  <2>2. q[i] # q[j] /\ ~(q[j] < q[i])
    <3>1. q[i] \in S /\ q[j] \in S /\ i - 1 # j - 1 /\ ~(j - 1 < i - 1)
      BY <1>1, <1>2, <1>5
    <3> QED  BY <2>3, <3>1, RanksDiffer
  <2> QED  BY <2>1, <2>2
<1>6. ASSUME NEW x \in S PROVE \E i \in 1 .. n : q[i] = x
  <2>1. Before(S, x) \in 0 .. n - 1
    BY RanksCover
  <2>2. Before(S, x) + 1 \in 1 .. n
    BY <1>1, <2>1
  <2>3. Before(S, q[Before(S, x) + 1]) = Before(S, x) /\ q[Before(S, x) + 1] \in S
    BY <1>2, <2>1, <2>2
  <2>4. q[Before(S, x) + 1] = x
    <3> DEFINE y == q[Before(S, x) + 1]
    <3>1. x \in Nat /\ y \in Nat /\ Before(S, y) = Before(S, x) /\ y \in S
      BY <2>3
    <3> HIDE DEF y
    <3>2. ~(x < y) /\ ~(y < x)
      BY <2>1, <3>1, RanksDiffer
    <3>3. x = y
      BY <3>1, <3>2
    <3> QED  BY <3>3 DEF y
  <2> QED  BY <2>2, <2>4
<1> QED  BY <1>1, <1>2, <1>4, <1>5, <1>6 DEF q

\* Places of a list are finitely many numbers.
LEMMA PlacesAreNumbers ==
  ASSUME NEW n \in Nat, NEW S \in SUBSET (1 .. n)
  PROVE  IsFiniteSet(S) /\ S \in SUBSET Nat
<1>1. IsFiniteSet(1 .. n)
  BY FS_Interval
<1>2. IsFiniteSet(S)
  BY <1>1, FS_Subset
<1>3. S \in SUBSET Nat
  OBVIOUS
<1> QED  BY <1>2, <1>3

\* A set of numbers that has members has a least one.
LEMMA LeastIs ==
  ASSUME NEW S \in SUBSET Nat, IsFiniteSet(S), S # {}
  PROVE  \E x \in S : \A y \in S : x <= y
<1> DEFINE n == Cardinality(S)
           q == Ascending(S)
<1>1. n \in Nat /\ n # 0
  BY FS_CardinalityType, FS_EmptySet
<1>2. \A i \in 1 .. n : q[i] \in S
  BY AscendingHolds
<1>3. \A i, j \in 1 .. n : i < j => q[i] < q[j]
  BY AscendingHolds
<1>4. \A x \in S : \E i \in 1 .. n : q[i] = x
  BY AscendingHolds
<1> HIDE DEF n, q
<1>5. 1 \in 1 .. n /\ q[1] \in S
  BY <1>1, <1>2
<1>6. ASSUME NEW y \in S PROVE q[1] <= y
  <2>1. PICK i \in 1 .. n : q[i] = y
    BY <1>4
  <2>2. i = 1 \/ 1 < i
    BY <1>1
  <2>3. q[1] \in Nat /\ y \in Nat
    BY <1>5
  <2> QED  BY <1>3, <1>5, <2>1, <2>2, <2>3
<1> QED  BY <1>5, <1>6

\* A filter gives the members it is about, in their order.
LEMMA AmongHolds ==
  ASSUME NEW E, NEW s \in Seq(E), NEW T
  PROVE  /\ IsFiniteSet(PlacesOf(s, T)) /\ PlacesOf(s, T) \subseteq 1 .. Len(s)
         /\ Among(s, T) \in Seq(E \cap T)
         /\ Len(Among(s, T)) = Cardinality(PlacesOf(s, T))
         /\ \A i \in DOMAIN Among(s, T) : /\ Ascending(PlacesOf(s, T))[i] \in PlacesOf(s, T)
                                          /\ Among(s, T)[i] = s[Ascending(PlacesOf(s, T))[i]]
         /\ \A k \in DOMAIN s : s[k] \in T => \E i \in DOMAIN Among(s, T) : /\ Ascending(PlacesOf(s, T))[i] = k
                                                                            /\ Among(s, T)[i] = s[k]
<1> DEFINE P == PlacesOf(s, T)
           n == Cardinality(P)
           q == Among(s, T)
<1>1. Len(s) \in Nat /\ DOMAIN s = 1 .. Len(s) /\ \A i \in 1 .. Len(s) : s[i] \in E
  BY LenProperties
<1>2. P \in SUBSET (1 .. Len(s)) /\ \A k \in P : s[k] \in E \cap T
  BY <1>1 DEF PlacesOf
<1>3. IsFiniteSet(P)
  <2>1. IsFiniteSet(1 .. Len(s))
    BY <1>1, FS_Interval
  <2> HIDE DEF P
  <2> QED  BY <1>2, <2>1, FS_Subset
<1>4. P \in SUBSET Nat
  <2> HIDE DEF P
  <2> QED  BY <1>1, <1>2
<1>5. /\ n \in Nat
      /\ \A i \in 1 .. n : Ascending(P)[i] \in P
      /\ \A x \in P : \E i \in 1 .. n : Ascending(P)[i] = x
  <2> HIDE DEF P
  <2> QED  BY <1>3, <1>4, AscendingHolds DEF n
<1>6. q = [i \in 1 .. n |-> s[Ascending(P)[i]]]
  BY DEF Among
<1> HIDE DEF P, n, q
<1>7. q \in [1 .. n -> E \cap T]
  BY <1>2, <1>5, <1>6
<1>8. q \in Seq(E \cap T) /\ Len(q) = n /\ DOMAIN q = 1 .. n
  BY <1>5, <1>7, LenProperties, SeqDef
<1>9. \A k \in DOMAIN s : s[k] \in T => k \in P
  BY DEF P, PlacesOf
<1>10. \A k \in DOMAIN s : s[k] \in T => \E i \in 1 .. n : Ascending(P)[i] = k /\ q[i] = s[k]
  BY <1>5, <1>6, <1>9
<1>11. \A i \in 1 .. n : Ascending(P)[i] \in P /\ q[i] = s[Ascending(P)[i]]
  BY <1>5, <1>6
<1>12. IsFiniteSet(P) /\ P \subseteq 1 .. Len(s)
  BY <1>2, <1>3
<1> QED  BY <1>8, <1>10, <1>11, <1>12 DEF P, n, q

\* Two ascending lists of the same numbers are one.
LEMMA AscendingIsUnique ==
  ASSUME NEW n \in Nat, NEW g \in [1 .. n -> Nat], \A i, j \in 1 .. n : i < j => g[i] < g[j],
         NEW S, S = {g[i] : i \in 1 .. n}
  PROVE  /\ IsFiniteSet(S) /\ Cardinality(S) = n
         /\ \A i \in 1 .. n : Ascending(S)[i] = g[i]
<1>1. g \in Bijection(1 .. n, S)
  <2>1. g \in [1 .. n -> S]
    OBVIOUS
  <2>2. ASSUME NEW i \in 1 .. n, NEW j \in 1 .. n, g[i] = g[j] PROVE i = j
    <3>1. g[i] \in Nat /\ g[j] \in Nat /\ ~(i < j) /\ ~(j < i)
      BY <2>2
    <3> QED  BY <3>1
  <2>3. \A x \in S : \E i \in 1 .. n : g[i] = x
    OBVIOUS
  <2> QED  BY <2>1, <2>2, <2>3 DEF Bijection, Injection, Surjection, IsInjective
<1>2. IsFiniteSet(1 .. n) /\ Cardinality(1 .. n) = n
  BY FS_Interval
<1>3. IsFiniteSet(S) /\ Cardinality(S) = n
  <2>1. ExistsBijection(1 .. n, S)
    BY <1>1 DEF ExistsBijection
  <2> QED  BY <1>2, <2>1, FS_Bijection
<1>4. S \in SUBSET Nat
  OBVIOUS
<1>5. ASSUME NEW i \in 1 .. n PROVE Before(S, g[i]) = i - 1
  <2> DEFINE b == {y \in S : y < g[i]}
             h == [j \in 1 .. i - 1 |-> g[j]]
  <2>1. h \in [1 .. i - 1 -> b]
    OBVIOUS
  <2>2. \A y \in b : \E j \in 1 .. i - 1 : h[j] = y
    <3> SUFFICES ASSUME NEW y \in b PROVE \E j \in 1 .. i - 1 : h[j] = y
      OBVIOUS
    <3>1. PICK j \in 1 .. n : g[j] = y
      OBVIOUS
    <3>2. g[j] < g[i] /\ g[j] \in Nat /\ g[i] \in Nat
      BY <3>1
    <3>3. j < i
      BY <3>2
    <3> QED  BY <3>1, <3>3
  <2>3. \A j, k \in 1 .. i - 1 : h[j] = h[k] => j = k
    <3> SUFFICES ASSUME NEW j \in 1 .. i - 1, NEW k \in 1 .. i - 1, g[j] = g[k] PROVE j = k
      OBVIOUS
    <3>1. j \in 1 .. n /\ k \in 1 .. n /\ g[j] \in Nat /\ g[k] \in Nat
      OBVIOUS
    <3>2. ~(j < k) /\ ~(k < j)
      BY <3>1
    <3> QED  BY <3>1, <3>2
  <2>4. h \in Bijection(1 .. i - 1, b)
    <3> HIDE DEF h, b
    <3> QED  BY <2>1, <2>2, <2>3 DEF Bijection, Injection, Surjection, IsInjective
  <2>5. ExistsBijection(1 .. i - 1, b)
    <3> HIDE DEF h, b
    <3> QED  BY <2>4 DEF ExistsBijection
  <2>6. IsFiniteSet(1 .. i - 1) /\ Cardinality(1 .. i - 1) = i - 1
    BY FS_Interval
  <2>7. Cardinality(b) = i - 1
    <3> HIDE DEF h, b
    <3> QED  BY <2>5, <2>6, FS_Bijection
  <2> QED  BY <2>7 DEF Before
<1>6. ASSUME NEW i \in 1 .. n PROVE Ascending(S)[i] = g[i]
  <2>1. Ascending(S)[i] \in S /\ Before(S, Ascending(S)[i]) = i - 1
    BY <1>3, <1>4, AscendingHolds
  <2>2. PICK j \in 1 .. n : Ascending(S)[i] = g[j]
    BY <2>1
  <2>3. j - 1 = i - 1
    BY <1>5, <2>1, <2>2
  <2>4. j = i
    BY <2>3
  <2> QED  BY <2>2, <2>4
<1> QED  BY <1>3, <1>6

\* A list without repetitions is not longer than what it is made from.
LEMMA DistinctIsShort ==
  ASSUME NEW E, IsFiniteSet(E), NEW s \in Seq(E), \A i, j \in DOMAIN s : s[i] = s[j] => i = j
  PROVE  Len(s) <= Cardinality(E)
<1>1. Len(s) \in Nat /\ DOMAIN s = 1 .. Len(s) /\ s \in [1 .. Len(s) -> E]
  BY LenProperties
<1>2. s \in Injection(1 .. Len(s), E)
  BY <1>1 DEF Injection, IsInjective
<1>3. Cardinality(1 .. Len(s)) = Len(s)
  <2>1. PICK n \in Nat : n = Len(s)
    BY <1>1
  <2>2. Cardinality(1 .. n) = IF 1 > n THEN 0 ELSE n - 1 + 1
    BY FS_Interval
  <2> QED  BY <2>1, <2>2
<1> QED  BY <1>2, <1>3, FS_Injection
=============================================================================
