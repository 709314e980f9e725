---------------------------- MODULE NaturalLemmas ----------------------------
(* Extreme elements of sets of naturals, which serve the proofs in place of an  *)
(* induction rule.                                                              *)
EXTENDS Integers, WellFoundedInduction, TLAPS

\* A nonempty set of naturals has a least element.
LEMMA LeastNatural ==
    ASSUME NEW T, T \subseteq Nat, T # {}
    PROVE  \E x \in T : \A y \in T : x <= y
<1> DEFINE R == {ss \in Nat \X Nat : ss[1] < ss[2]}
<1>1. R = OpToRel(<, Nat)
  BY DEF OpToRel
<1>2. IsWellFoundedOn(R, Nat)
  BY NatLessThanWellFounded, <1>1
<1>3. \A y, x \in Nat : y < x => <<y, x>> \in R
  BY SMT
<1> HIDE DEF R
<1>4. PICK x \in T : \A y \in T : <<y, x>> \notin R
  BY <1>2, WFMin, Zenon
<1>5. \A y \in T : ~(y < x)
  BY <1>3, <1>4, Zenon
<1>6. \A y \in T : x <= y
  BY <1>5, x \in Nat, T \subseteq Nat
<1> QED
  BY <1>6

\* A nonempty set of naturals with an upper bound has a greatest element.
LEMMA GreatestNatural ==
    ASSUME NEW n \in Nat, NEW T, T \subseteq 0..n, T # {}
    PROVE  \E x \in T : \A y \in T : y <= x
<1> DEFINE D == {k \in Nat : n - k \in T}
<1>1. D \subseteq Nat
  OBVIOUS
<1>2. D # {}
  <2>1. PICK t : t \in T
    OBVIOUS
  <2>2. n - t \in Nat /\ n - (n - t) = t
    BY <2>1
  <2> QED
    BY <2>1, <2>2
<1>3. PICK k \in D : \A j \in D : k <= j
  <2> HIDE DEF D
  <2> QED
    BY <1>1, <1>2, LeastNatural
<1>4. ASSUME NEW y \in T
      PROVE  y <= n - k
  <2>1. n - y \in D
    OBVIOUS
  <2> QED
    BY <1>3, <2>1
<1> QED
  BY <1>3, <1>4

\* A set with 0 and with the successor of each of its members below n has all up to n.
LEMMA UpTo ==
    ASSUME NEW n \in Nat, NEW T, 0 \in T, \A k \in 0..(n - 1) : k \in T => k + 1 \in T
    PROVE  \A k \in 0..n : k \in T
<1> DEFINE Missing == {k \in 0..n : k \notin T}
<1> SUFFICES ASSUME Missing # {} PROVE FALSE
  OBVIOUS
<1>1. Missing \subseteq Nat
  OBVIOUS
<1>2. PICK k \in Missing : \A j \in Missing : k <= j
  <2> HIDE DEF Missing
  <2> QED
    BY <1>1, LeastNatural
<1>3. k # 0 /\ k - 1 \in 0..(n - 1)
  BY <1>2
<1>4. k - 1 \in T
  BY <1>2, <1>3
<1>5. (k - 1) + 1 = k
  BY <1>2
<1> QED
  BY <1>2, <1>3, <1>4, <1>5
=============================================================================
