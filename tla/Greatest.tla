------------------------------ MODULE Greatest ------------------------------
(* The lemmas about least and greatest numbers that the proofs share.       *)
EXTENDS Naturals, TLAPS, WellFoundedInduction

\* A nonempty set of numbers has a least element.
LEMMA LeastExists ==
    ASSUME NEW T \in SUBSET Nat, T # {}
    PROVE  \E t \in T : \A y \in T : t <= y
<1> DEFINE R == OpToRel(<, Nat)
<1>1. \A y, z \in Nat : y < z => <<y, z>> \in R
  BY DEF OpToRel
<1>2. IsWellFoundedOn(R, Nat)
  BY NatLessThanWellFounded
<1> HIDE DEF R
<1>3. PICK t \in T : \A y \in T : ~(<<y, t>> \in R)
  BY <1>2, WFMin
<1>4. ASSUME NEW y \in T PROVE t <= y
  <2>1. y \in Nat /\ t \in Nat
    OBVIOUS
  <2>2. ~(y < t)
    BY <1>1, <1>3, <2>1, Zenon
  <2> QED
    BY <2>1, <2>2
<1> QED
  BY <1>4

\* A nonempty set of numbers up to n has a greatest element.
LEMMA GreatestExists ==
    ASSUME NEW n \in Nat, NEW S \in SUBSET (0..n), S # {}
    PROVE  \E m \in S : \A x \in S : x <= m
<1> DEFINE T == {n - x : x \in S}
<1>1. T \subseteq Nat /\ T # {}
  <2>1. \A x \in S : n - x \in Nat
    OBVIOUS
  <2>2. PICK x \in S : TRUE
    OBVIOUS
  <2>3. n - x \in T
    BY <2>2
  <2> QED
    BY <2>1, <2>3
<1> HIDE DEF T
<1>2. PICK t \in T : \A y \in T : t <= y
  BY <1>1, LeastExists
<1>3. PICK m \in S : t = n - m
  BY DEF T
<1>4. ASSUME NEW x \in S PROVE x <= m
  <2>1. n - x \in T
    BY DEF T
  <2> QED
    BY <1>2, <1>3, <2>1
<1> QED
  BY <1>4

=============================================================================
