--------------------------- MODULE NaturalLemmas ---------------------------
(***************************************************************************)
(* Facts about the natural numbers the proofs of several components need.  *)
(* The induction theorems of the library take a predicate as an operator;  *)
(* the ones here take a set, so that a proof can instantiate them.         *)
(***************************************************************************)
EXTENDS Integers, FiniteSetTheorems, FunctionTheorems, WellFoundedInduction, TLAPS

\* A set of naturals that is not empty has a least element.
LEMMA LeastNumber ==
  ASSUME NEW S \in SUBSET Nat, S # {}
  PROVE  \E m \in S : \A n \in S : m <= n
<1>1. PICK m \in S : \A n \in S : ~(<<n, m>> \in OpToRel(<, Nat))
  BY NatLessThanWellFounded, WFMin, Zenon
<1>2. \A n \in S : m <= n
  <2> SUFFICES ASSUME NEW n \in S, n < m PROVE FALSE
    OBVIOUS
  <2>1. <<n, m>> \in Nat \X Nat /\ <<n, m>>[1] < <<n, m>>[2]
    OBVIOUS
  <2>2. <<n, m>> \in OpToRel(<, Nat)
    BY <2>1, Zenon DEF OpToRel
  <2> QED
    BY <1>1, <2>2, Zenon
<1> QED
  BY <1>2

\* Induction: a set with 0 and the successor of each of its elements has all.
LEMMA Induction ==
  ASSUME NEW S \in SUBSET Nat, 0 \in S, \A n \in S : n + 1 \in S
  PROVE  S = Nat
<1> SUFFICES ASSUME Nat \ S # {} PROVE FALSE
  OBVIOUS
<1>1. PICK m \in Nat \ S : \A n \in Nat \ S : m <= n
  BY LeastNumber
<1>2. m - 1 \in S
  BY <1>1
<1> QED
  BY <1>1, <1>2

\* Induction up to m.
LEMMA InductionTo ==
  ASSUME NEW m \in Nat, NEW S \in SUBSET (0 .. m), 0 \in S,
         \A n \in 0 .. m - 1 : n \in S => n + 1 \in S
  PROVE  S = 0 .. m
<1> DEFINE T == {n \in Nat : n <= m => n \in S}
<1>1. 0 \in T
  OBVIOUS
<1>2. ASSUME NEW n \in T PROVE n + 1 \in T
  OBVIOUS
<1>3. T \subseteq Nat
  OBVIOUS
<1>4. T = Nat
  <2> HIDE DEF T
  <2> QED
    BY <1>1, <1>2, <1>3, Induction
<1>5. ASSUME NEW n \in 0 .. m PROVE n \in S
  <2>1. n \in T
    BY <1>4
  <2> QED
    BY <2>1
<1> QED
  BY <1>5

-----------------------------------------------------------------------------
(***************************************************************************)
(* Powers of two, about which the provers know nothing: 2 ^ n counts the   *)
(* subsets of 1 .. n.                                                      *)
(***************************************************************************)

LEMMA PowerIsSubsets ==
  ASSUME NEW n \in Nat
  PROVE  2 ^ n = Cardinality(SUBSET (1 .. n)) /\ IsFiniteSet(SUBSET (1 .. n))
<1>1. IsFiniteSet(1 .. n) /\ Cardinality(1 .. n) = n
  BY FS_Interval
<1> QED
  BY <1>1, FS_SUBSET

LEMMA PowerNat ==
  ASSUME NEW n \in Nat
  PROVE  2 ^ n \in Nat
BY PowerIsSubsets, FS_CardinalityType

\* Every other subset of 1 .. n + 1 has n + 1 in it.
LEMMA PowerDoubles ==
  ASSUME NEW n \in Nat
  PROVE  2 ^ (n + 1) = 2 * 2 ^ n
<1> DEFINE Without == SUBSET (1 .. n)
           With == {s \union {n + 1} : s \in Without}
<1>1. SUBSET (1 .. n + 1) = Without \union With
  <2>0. 1 .. n + 1 = (1 .. n) \union {n + 1} /\ n + 1 \notin 1 .. n
    OBVIOUS
  <2>1. ASSUME NEW s \in SUBSET (1 .. n + 1) PROVE s \in Without \union With
    <3>1. CASE n + 1 \in s
      <4>1. s \ {n + 1} \in Without /\ s = (s \ {n + 1}) \union {n + 1}
        BY <2>0, <3>1
      <4> QED
        BY <4>1
    <3>2. CASE n + 1 \notin s
      BY <2>0, <3>2
    <3> QED
      BY <3>1, <3>2
  <2>2. ASSUME NEW s \in Without \union With PROVE s \in SUBSET (1 .. n + 1)
    BY <2>0
  <2> QED
    BY <2>1, <2>2
<1>2. Without \intersect With = {}
  OBVIOUS
<1> DEFINE f == [s \in Without |-> s \union {n + 1}]
<1>3. f \in Bijection(Without, With)
  <2>1. \A s \in Without : n + 1 \notin s
    OBVIOUS
  <2>2. \A s, t \in Without : s \union {n + 1} = t \union {n + 1} => s = t
    BY <2>1
  <2> QED
    <3>1. f \in [Without -> With]
      OBVIOUS
    <3>2. \A s, t \in Without : f[s] = f[t] => s = t
      BY <2>2
    <3>3. \A t \in With : \E s \in Without : f[s] = t
      OBVIOUS
    <3> HIDE DEF f, Without, With
    <3> QED
      BY <3>1, <3>2, <3>3, Fun_IsBij
<1>4. IsFiniteSet(With) /\ Cardinality(With) = Cardinality(Without)
  <2>1. IsFiniteSet(Without)
    BY PowerIsSubsets
  <2> HIDE DEF f, Without, With
  <2>2. ExistsBijection(Without, With)
    BY <1>3 DEF ExistsBijection
  <2> QED
    BY <2>1, <2>2, FS_Bijection
<1> HIDE DEF Without, With
<1>5. Cardinality(Without) = 2 ^ n /\ IsFiniteSet(Without) /\ 2 ^ n \in Nat
  BY PowerIsSubsets, PowerNat DEF Without
<1>6. Cardinality(Without \union With) =
        Cardinality(Without) + Cardinality(With) - Cardinality(Without \intersect With)
  BY <1>4, <1>5, FS_Union
<1>7. Cardinality(Without \union With) = 2 * 2 ^ n
  BY <1>2, <1>4, <1>5, <1>6, FS_EmptySet
<1> QED
  BY <1>1, <1>7, PowerIsSubsets

LEMMA PowerExceeds ==
  ASSUME NEW n \in Nat
  PROVE  2 ^ n > n
<1> DEFINE S == {k \in Nat : 2 ^ k > k}
<1>1. 0 \in S
  OBVIOUS
<1>2. ASSUME NEW k \in S PROVE k + 1 \in S
  BY PowerDoubles, PowerNat
<1> HIDE DEF S
<1>3. S = Nat
  BY <1>1, <1>2, Induction DEF S
<1> QED
  BY <1>3 DEF S

=============================================================================
