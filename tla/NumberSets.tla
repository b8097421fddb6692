----------------------------- MODULE NumberSets -----------------------------
(***************************************************************************)
(* Facts about sets of natural numbers that the proofs about several       *)
(* components need: least and greatest elements, and induction.            *)
(***************************************************************************)
EXTENDS Integers, FiniteSets, FiniteSetTheorems, WellFoundedInduction, TLAPS

\* A set of natural numbers that has an element has a least one.
LEMMA LeastNumber ==
  ASSUME NEW S \in SUBSET Nat, S # {}
  PROVE  \E i \in S : \A j \in S : i <= j
<1>1. IsWellFoundedOn(OpToRel(<, Nat), Nat)
  BY NatLessThanWellFounded
<1>2. PICK i \in S : \A j \in S : ~(<<j, i>> \in OpToRel(<, Nat))
  BY <1>1, WFMin
<1>3. ASSUME NEW j \in S, j < i PROVE FALSE
  <2>1. <<j, i>> \in OpToRel(<, Nat)
    BY <1>3, Zenon DEF OpToRel
  <2> QED
    BY <1>2, <2>1
<1>4. \A j \in S : i <= j
  BY <1>3
<1> QED
  BY <1>4

\* A bounded set of natural numbers that has an element has a greatest one.
LEMMA GreatestNumber ==
  ASSUME NEW b \in Nat, NEW S \in SUBSET (0..b), S # {}
  PROVE  \E i \in S : \A j \in S : j <= i
<1> DEFINE B == {b - x : x \in S}
<1>1. PICK m \in B : \A n \in B : m <= n
  <2>1. \A x \in S : b - x \in Nat
    OBVIOUS
  <2>2. B \in SUBSET Nat /\ B # {}
    BY <2>1
  <2> HIDE DEF B
  <2> QED
    BY <2>2, LeastNumber
<1>2. PICK x \in S : m = b - x
  OBVIOUS
<1>3. \A n \in S : b - x <= b - n
  BY <1>1, <1>2
<1>4. \A n \in S : n <= x
  BY <1>3
<1> QED
  BY <1>4

\* Induction: a set that has 0 and with a number below b the next one has all up to b.
LEMMA AllNumbers ==
  ASSUME NEW b \in Nat, NEW S, 0 \in S,
         \A n \in 0..(b - 1) : n \in S => n + 1 \in S
  PROVE  \A n \in 0..b : n \in S
<1> SUFFICES ASSUME NEW m \in 0..b, m \notin S PROVE FALSE
  OBVIOUS
<1> DEFINE Missing == {n \in 0..b : n \notin S}
<1>1. Missing \in SUBSET Nat /\ Missing # {}
  OBVIOUS
<1>2. PICK i \in Missing : \A j \in Missing : i <= j
  <2> HIDE DEF Missing
  <2> QED
    BY <1>1, LeastNumber
<1>3. i \in 0..b /\ i # 0
  OBVIOUS
<1>4. i - 1 \in 0..(b - 1) /\ i - 1 \notin Missing
  BY <1>2, <1>3
<1>5. (i - 1) + 1 \in S /\ (i - 1) + 1 = i
  BY <1>3, <1>4
<1> QED
  BY <1>5

\* The elements of a finite set of integers at c or behind, and those before c.
LEMMA SplitSet ==
  ASSUME NEW S \in SUBSET Int, IsFiniteSet(S), NEW c \in Int
  PROVE  LET from == {d \in S : d >= c}
             below == {d \in S : d < c}
         IN  /\ IsFiniteSet(from) /\ IsFiniteSet(below)
             /\ Cardinality(from) \in Nat /\ Cardinality(below) \in Nat
             /\ Cardinality(S) = Cardinality(from) + Cardinality(below)
<1> DEFINE from == {d \in S : d >= c}
           below == {d \in S : d < c}
<1>1. IsFiniteSet(from) /\ IsFiniteSet(below)
  <2>1. from \in SUBSET S /\ below \in SUBSET S
    OBVIOUS
  <2> QED
    BY <2>1, FS_Subset
<1>2. Cardinality(from) \in Nat /\ Cardinality(below) \in Nat
  BY <1>1, FS_CardinalityType
<1>3. from \cup below = S /\ from \cap below = {}
  <2>1. \A d \in S : (d >= c \/ d < c) /\ ~(d >= c /\ d < c)
    OBVIOUS
  <2> QED
    BY <2>1, Zenon
<1> HIDE DEF from, below
<1>4. Cardinality(S) = Cardinality(from) + Cardinality(below) - Cardinality(from \cap below)
  BY <1>1, <1>3, FS_Union
<1>5. Cardinality(from \cap below) = 0
  BY <1>3, FS_EmptySet
<1> QED
  BY <1>1, <1>2, <1>4, <1>5 DEF from, below

-----------------------------------------------------------------------------
(* The last elements of a set                                              *)

From(S, c) == {d \in S : d >= c}
LastOf(S, k) == {c \in S : Cardinality(From(S, c)) <= k}

LEMMA FromGrows ==
  ASSUME NEW S \in SUBSET Nat, IsFiniteSet(S), NEW c \in S, NEW m \in Nat, c < m
  PROVE  /\ IsFiniteSet(From(S, m)) /\ Cardinality(From(S, m)) \in Nat
         /\ IsFiniteSet(From(S, c)) /\ Cardinality(From(S, c)) \in Nat
         /\ Cardinality(From(S, m)) + 1 <= Cardinality(From(S, c))
<1>1. From(S, m) \in SUBSET S /\ From(S, c) \in SUBSET S /\ c \notin From(S, m)
  BY DEF From
<1>2. /\ IsFiniteSet(From(S, m)) /\ Cardinality(From(S, m)) \in Nat
      /\ IsFiniteSet(From(S, c)) /\ Cardinality(From(S, c)) \in Nat
  BY <1>1, FS_Subset, FS_CardinalityType
<1>3. From(S, m) \cup {c} \in SUBSET From(S, c)
  <2>1. \A d \in S : d >= m => d >= c
    OBVIOUS
  <2>2. c >= c
    OBVIOUS
  <2> QED
    BY <2>1, <2>2, Zenon DEF From
<1>4. Cardinality(From(S, m) \cup {c}) = Cardinality(From(S, m)) + 1
  BY <1>1, <1>2, FS_AddElement
<1>5. Cardinality(From(S, m) \cup {c}) <= Cardinality(From(S, c))
  BY <1>2, <1>3, FS_Subset
<1> QED
  BY <1>2, <1>4, <1>5

\* There are k last elements, if the set has as many.
LEMMA LastCount ==
  ASSUME NEW b \in Nat, NEW S \in SUBSET (0..b), NEW k \in 0..Cardinality(S)
  PROVE  Cardinality(LastOf(S, k)) = k
<1>0. S \in SUBSET Nat /\ IsFiniteSet(S)
  <2>1. IsFiniteSet(0..b)
    BY FS_Interval
  <2>2. S \in SUBSET Nat
    OBVIOUS
  <2> QED
    BY <2>1, <2>2, FS_Subset
<1> DEFINE n == Cardinality(S)
           Good == {j \in 0..n : Cardinality(LastOf(S, j)) = j}
<1>1. n \in Nat
  BY <1>0, FS_CardinalityType
<1>2. \A c \in S : c \in From(S, c)
  BY <1>0 DEF From
<1>3. \A c \in S : IsFiniteSet(From(S, c)) /\ Cardinality(From(S, c)) \in Nat
  <2>1. \A c \in S : From(S, c) \in SUBSET S
    BY DEF From
  <2> QED
    BY <1>0, <2>1, FS_Subset, FS_CardinalityType
<1>4. 0 \in Good
  <2>1. \A c \in S : Cardinality(From(S, c)) # 0
    BY <1>2, <1>3, FS_EmptySet
  <2>2. \A c \in S : ~(Cardinality(From(S, c)) <= 0)
    BY <1>3, <2>1
  <2>3. LastOf(S, 0) = {}
    BY <2>2 DEF LastOf
  <2> QED
    BY <1>1, <2>3, FS_EmptySet
<1>5. ASSUME NEW j \in 0..(n - 1), j \in Good
      PROVE  j + 1 \in Good
  <2> DEFINE T == LastOf(S, j)
             Rest == S \ T
  <2>1. T \in SUBSET S /\ Cardinality(T) = j /\ j \in Nat /\ j < n
    BY <1>1, <1>5 DEF LastOf
  <2>2. IsFiniteSet(T) /\ Rest # {}
    <3>1. T # S
      BY <1>1, <2>1
    <3> QED
      BY <1>0, <2>1, <3>1, FS_Subset
  <2>3. PICK m \in Rest : \A d \in Rest : d <= m
    <3>1. Rest \in SUBSET (0..b)
      OBVIOUS
    <3> HIDE DEF Rest
    <3> QED
      BY <2>2, <3>1, GreatestNumber
  <2>4. m \in S /\ m \in Nat /\ m \notin T /\ ~(Cardinality(From(S, m)) <= j)
    BY <1>0 DEF LastOf
  <2>5. ASSUME NEW c \in S, c < m
        PROVE  Cardinality(From(S, m)) + 1 <= Cardinality(From(S, c))
    BY <1>0, <2>4, <2>5, FromGrows
  <2>6. T = {d \in S : d > m}
    <3>1. ASSUME NEW c \in T PROVE c > m
      <4>1. c \in S /\ c \in Nat /\ Cardinality(From(S, c)) <= j
        BY DEF LastOf
      <4>2. c # m
        BY <2>4
      <4>3. CASE c < m
        BY <1>3, <2>1, <2>4, <2>5, <4>1, <4>3
      <4> QED
        BY <2>4, <4>1, <4>2, <4>3
    <3>2. ASSUME NEW c \in S, c > m PROVE c \in T
      <4>1. c \in Nat /\ ~(c <= m)
        BY <2>4, <3>2
      <4> QED
        BY <2>3, <4>1
    <3> QED
      BY <2>1, <3>1, <3>2, Zenon
  <2>7. From(S, m) = T \cup {m}
    <3> HIDE DEF T
    <3>1. \A d \in S : d >= m <=> (d > m \/ d = m)
      BY <2>4
    <3> QED
      BY <2>4, <2>6, <3>1 DEF From
  <2>8. Cardinality(From(S, m)) = j + 1
    BY <2>1, <2>2, <2>4, <2>7, FS_AddElement
  <2>9. LastOf(S, j + 1) = T \cup {m}
    <3>1. ASSUME NEW c \in LastOf(S, j + 1) PROVE c \in T \cup {m}
      <4>1. c \in S /\ c \in Nat /\ Cardinality(From(S, c)) <= j + 1
        BY DEF LastOf
      <4>2. ~(c < m)
        <5> SUFFICES ASSUME c < m PROVE FALSE
          OBVIOUS
        <5>1. Cardinality(From(S, m)) + 1 <= Cardinality(From(S, c))
          BY <2>5, <4>1
        <5> QED
          BY <1>3, <2>1, <2>8, <4>1, <5>1
      <4>3. c > m \/ c = m
        BY <2>4, <4>1, <4>2
      <4> QED
        BY <2>6, <4>1, <4>3
    <3>2. ASSUME NEW c \in T PROVE c \in LastOf(S, j + 1)
      BY <1>3, <2>1 DEF LastOf
    <3>3. m \in LastOf(S, j + 1)
      BY <2>1, <2>4, <2>8 DEF LastOf
    <3> HIDE DEF T
    <3> QED
      BY <3>1, <3>2, <3>3, Zenon
  <2>10. Cardinality(LastOf(S, j + 1)) = j + 1
    BY <2>7, <2>8, <2>9
  <2> QED
    BY <1>1, <2>1, <2>10
<1> HIDE DEF Good
<1>6. \A j \in 0..n : j \in Good
  BY <1>1, <1>4, <1>5, AllNumbers
<1> QED
  BY <1>1, <1>6 DEF Good

\* The last elements are the greatest ones.
LEMMA LastAreLast ==
  ASSUME NEW S \in SUBSET Nat, IsFiniteSet(S), NEW k \in Nat, NEW c \in LastOf(S, k),
         NEW d \in S, d >= c
  PROVE  d \in LastOf(S, k)
<1>1. c \in S /\ c \in Nat /\ d \in Nat
  BY DEF LastOf
<1>2. CASE d = c
  BY <1>2
<1>3. CASE d # c
  <2>1. c < d
    BY <1>1, <1>3
  <2>2. /\ Cardinality(From(S, d)) + 1 <= Cardinality(From(S, c))
        /\ Cardinality(From(S, d)) \in Nat /\ Cardinality(From(S, c)) \in Nat
    BY <1>1, <2>1, FromGrows
  <2>3. Cardinality(From(S, c)) <= k
    BY DEF LastOf
  <2> QED
    BY <2>2, <2>3 DEF LastOf
<1> QED
  BY <1>2, <1>3
=============================================================================
