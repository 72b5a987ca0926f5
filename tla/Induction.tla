----------------------------- MODULE Induction -----------------------------
(***************************************************************************)
(* Induction over the natural numbers, with a set in the place of the      *)
(* predicate, and what follows from it for the sums the models use.        *)
(***************************************************************************)
EXTENDS Integers, FiniteSets, FiniteSetTheorems, TLAPS

(* The intervals from 0 are ordered by inclusion as their ends are, and a  *)
(* set of finite sets has a member that includes no other.                 *)
LEMMA LeastNumber ==
  ASSUME NEW S \in SUBSET Nat, S # {}
  PROVE  \E n \in S : \A m \in S : n <= m
<1> DEFINE R == StrictSubsetOrdering(Nat)
           T == {0..n : n \in S}
<1>1. IsWellFoundedOn(R, FiniteSubsetsOf(Nat))
  BY FS_StrictSubsetOrderingWellFounded
<1>2. T \subseteq FiniteSubsetsOf(Nat) /\ T # {}
  <2>1. \A n \in S : IsFiniteSet(0..n) /\ 0..n \subseteq Nat
    BY FS_Interval
  <2> QED
    BY <2>1 DEF FiniteSubsetsOf
<1>3. PICK u \in T : \A v \in T : <<v, u>> \notin R
  <2> HIDE DEF R, T
  <2> QED
    BY <1>1, <1>2, WFMin
<1>4. PICK n \in S : u = 0..n
  BY <1>3
<1>5. ASSUME NEW m \in S, m < n PROVE FALSE
  <2>1. n \in 0..n /\ n \notin 0..m
    BY <1>5
  <2>2. 0..m \in T /\ 0..m \subseteq 0..n /\ 0..m # 0..n
    BY <1>5, <2>1
  <2>3. <<0..m, 0..n>> \in R
    BY <2>2, <1>2, <1>4 DEF StrictSubsetOrdering, FiniteSubsetsOf
  <2> QED
    BY <2>2, <2>3, <1>3, <1>4
<1> QED
  BY <1>5

LEMMA InductionOnNat ==
  ASSUME NEW S, 0 \in S, \A n \in Nat : n \in S => n + 1 \in S
  PROVE  Nat \subseteq S
<1> SUFFICES ASSUME Nat \ S # {} PROVE FALSE
  OBVIOUS
<1>1. PICK n \in Nat \ S : \A m \in Nat \ S : n <= m
  BY LeastNumber
<1>2. n # 0 /\ n - 1 \in Nat /\ n - 1 \in S
  BY <1>1
<1> QED
  BY <1>1, <1>2

(* A set with k and with the successor of each of its members below n has  *)
(* all the numbers from k to n.                                            *)
LEMMA InductionUpTo ==
  ASSUME NEW S, NEW k \in Nat, NEW n \in Nat, k \in S,
         \A i \in k..(n - 1) : i \in S => i + 1 \in S
  PROVE  k..n \subseteq S
<1> DEFINE T == {i \in Nat : k <= i /\ i <= n => i \in S}
<1>1. 0 \in T
  OBVIOUS
<1>2. ASSUME NEW i \in Nat, i \in T PROVE i + 1 \in T
  <2>1. CASE k <= i /\ i + 1 <= n
    BY <1>2, <2>1
  <2>2. CASE ~(k <= i /\ i + 1 <= n)
    BY <2>2
  <2> QED
    BY <2>1, <2>2
<1>3. Nat \subseteq T
  <2> HIDE DEF T
  <2> QED
    BY <1>1, <1>2, InductionOnNat
<1> QED
  BY <1>3

(* A set of numbers from 1 to n that has all below each of its members is  *)
(* an interval, and its cardinality is its end.                            *)
LEMMA InitialSegment ==
  ASSUME NEW n \in Nat, NEW S \in SUBSET (1..n),
         \A i \in S : \A j \in 1..n : j < i => j \in S
  PROVE  Cardinality(S) \in 0..n /\ S = 1..Cardinality(S)
<1> DEFINE Out == {i \in Nat : 1 <= i /\ i <= n + 1 /\ i \notin S}
<1>1. n + 1 \in Out
  OBVIOUS
<1>2. PICK m \in Out : \A i \in Out : m <= i
  BY <1>1, LeastNumber
<1>3. S = 1..(m - 1)
  <2>1. ASSUME NEW i \in 1..(m - 1) PROVE i \in S
    BY <1>2
  <2>2. ASSUME NEW i \in S, i > m - 1 PROVE FALSE
    <3>1. i # m /\ m < i /\ m \in 1..n
      BY <1>2, <2>2
    <3> QED
      BY <3>1, <1>2
  <2>3. m \in Nat /\ \A i \in S : i \in 1..n
    BY <1>2
  <2>4. \A i \in S : i \in 1..(m - 1)
    BY <2>2, <2>3
  <2> QED
    BY <2>1, <2>4
<1>4. Cardinality(1..(m - 1)) = m - 1
  BY <1>2, FS_Interval
<1> QED
  BY <1>2, <1>3, <1>4

(* A set of numbers up to n has a greatest one.                            *)
LEMMA GreatestNumber ==
  ASSUME NEW n \in Nat, NEW S \in SUBSET (0..n), S # {}
  PROVE  \E x \in S : \A y \in S : x >= y
<1> DEFINE T == {n - x : x \in S}
<1>1. T \in SUBSET Nat /\ T # {}
  OBVIOUS
<1>2. PICK m \in T : \A k \in T : m <= k
  BY <1>1, LeastNumber
<1>3. PICK x \in S : m = n - x
  BY <1>2
<1>4. \A y \in S : n - x <= n - y
  BY <1>2, <1>3
<1>5. \A y \in S : x >= y
  BY <1>4
<1> QED
  BY <1>5

(* f is given by recursion: it starts at d, and g gives each of its values *)
(* up to n from the one before.                                            *)
Recurs(f, n, d, g) == f[0] = d /\ \A k \in 1..n : f[k] = g[<<k, f[k - 1]>>]

(* There is such a function into every set that holds d and is closed      *)
(* under g.                                                                *)

LEMMA Recursion ==
  ASSUME NEW n \in Nat, NEW V, NEW d \in V, NEW g,
         \A k \in 1..n : \A v \in V : g[<<k, v>>] \in V
  PROVE  \E f \in [0..n -> V] : Recurs(f, n, d, g)
<1> DEFINE IsIt(f, m) == Recurs(f, m, d, g)
           S == {m \in 0..n : \E f \in [0..m -> V] : IsIt(f, m)}
<1>1. 0 \in S
  <2> DEFINE h == [k \in 0..0 |-> d]
  <2>1. h \in [0..0 -> V] /\ IsIt(h, 0)
    BY DEF Recurs
  <2> HIDE DEF h, IsIt
  <2> QED
    BY <2>1
<1>2. ASSUME NEW m \in 0..(n - 1), m \in S PROVE m + 1 \in S
  <2>1. PICK f \in [0..m -> V] : IsIt(f, m)
    BY <1>2
  <2> DEFINE h == [k \in 0..(m + 1) |-> IF k = m + 1 THEN g[<<m + 1, f[m]>>] ELSE f[k]]
  <2>2. f[m] \in V /\ m + 1 \in 1..n /\ m \in Nat /\ m \in 0..m /\ m # m + 1
    BY <1>2
  <2>3. g[<<m + 1, f[m]>>] \in V
    BY <2>2
  <2>4. h \in [0..(m + 1) -> V]
    BY <2>2, <2>3
  <2>5. h[0] = f[0] /\ h[m] = f[m] /\ h[m + 1] = g[<<m + 1, f[m]>>]
    BY <2>2
  <2>6. ASSUME NEW k \in 1..m PROVE h[k] = f[k] /\ h[k - 1] = f[k - 1]
    BY <2>2
  <2> HIDE DEF h
  <2>7. ASSUME NEW k \in 1..(m + 1) PROVE h[k] = g[<<k, h[k - 1]>>]
    <3>1. CASE k = m + 1
      BY <2>2, <2>5, <3>1
    <3>2. CASE k \in 1..m
      BY <2>1, <2>6, <3>2 DEF Recurs
    <3> QED
      BY <2>2, <3>1, <3>2
  <2>8. IsIt(h, m + 1)
    BY <2>1, <2>5, <2>7 DEF Recurs
  <2> HIDE DEF IsIt
  <2> QED
    BY <2>2, <2>4, <2>8
<1>3. n \in S
  <2> HIDE DEF S
  <2>1. 0..n \subseteq S
    BY <1>1, <1>2, InductionUpTo
  <2> QED
    BY <2>1
<1> QED
  BY <1>3

(* A finite set has a first member in a total order, which may hold of     *)
(* several: the one that the fewest are ahead of.                          *)
LEMMA FirstInOrder ==
  ASSUME NEW S, IsFiniteSet(S), S # {}, NEW R,
         \A x, y \in S : <<x, y>> \in R \/ <<y, x>> \in R,
         \A x, y, z \in S : <<x, y>> \in R /\ <<y, z>> \in R => <<x, z>> \in R
  PROVE  \E x \in S : \A y \in S : <<x, y>> \in R
<1> DEFINE Ahead(x) == {y \in S : <<y, x>> \in R}
           N == {Cardinality(Ahead(x)) : x \in S}
<1>1. \A x \in S : IsFiniteSet(Ahead(x)) /\ Cardinality(Ahead(x)) \in Nat
  <2>1. \A x \in S : Ahead(x) \in SUBSET S
    OBVIOUS
  <2> HIDE DEF Ahead
  <2> QED
    BY <2>1, FS_Subset, FS_CardinalityType
<1>2. PICK x \in S : \A y \in S : Cardinality(Ahead(x)) <= Cardinality(Ahead(y))
  <2> HIDE DEF Ahead
  <2>1. N \in SUBSET Nat /\ N # {}
    BY <1>1
  <2>2. PICK m \in N : \A k \in N : m <= k
    BY <2>1, LeastNumber
  <2> QED
    BY <2>2
<1>3. ASSUME NEW y \in S, <<x, y>> \notin R PROVE FALSE
  <2>1. Ahead(y) \in SUBSET Ahead(x) /\ x \in Ahead(x) /\ x \notin Ahead(y)
    BY <1>3
  <2>2. Ahead(y) # Ahead(x)
    BY <2>1
  <2> HIDE DEF Ahead
  <2>3. Cardinality(Ahead(y)) < Cardinality(Ahead(x))
    BY <1>1, <2>1, <2>2, FS_Subset
  <2> QED
    BY <1>1, <1>2, <2>3
<1> QED
  BY <1>3
=============================================================================
