--------------------------- MODULE IntervalLemmas ---------------------------
(***************************************************************************)
(* The least and the greatest element of sets of numbers.                  *)
(***************************************************************************)
EXTENDS Integers, FiniteSetsExt, WellFoundedInduction, TLAPS

\* A non-empty set of natural numbers has a least element, which Min returns.
LEMMA MinOfNaturals ==
    ASSUME NEW S \in SUBSET Nat, S # {}
    PROVE  Min(S) \in S /\ \A y \in S : Min(S) <= y
<1>1. PICK x \in S : \A y \in S : ~(<<y, x>> \in OpToRel(<, Nat))
  BY NatLessThanWellFounded, WFMin
<1>2. \A y \in S : ~(y < x)
  BY <1>1, Zenon DEF OpToRel
<1>3. \A y \in S : x <= y
  BY <1>2
<1> QED
  BY <1>3 DEF Min

\* So has a set of positive numbers.
LEMMA MinOfInterval ==
    ASSUME NEW n \in Nat, NEW S \in SUBSET (1..n), S # {}
    PROVE  Min(S) \in S /\ \A y \in S : Min(S) <= y
<1>1. S \in SUBSET Nat
  OBVIOUS
<1> QED
  BY <1>1, MinOfNaturals

\* A non-empty set of bounded numbers has a greatest element, which Max returns.
LEMMA MaxOfInterval ==
    ASSUME NEW n \in Nat, NEW S \in SUBSET (1..n), S # {}
    PROVE  Max(S) \in S /\ \A y \in S : y <= Max(S)
<1> DEFINE T == {n - h : h \in S}
<1>1. T \subseteq Nat /\ T # {}
  <2>1. \A h \in S : n - h \in Nat
    OBVIOUS
  <2>2. T \subseteq Nat
    BY <2>1
  <2>3. PICK h \in S : TRUE
    OBVIOUS
  <2>4. n - h \in T
    OBVIOUS
  <2> QED
    BY <2>2, <2>4
<1>2. PICK t \in T : \A u \in T : ~(<<u, t>> \in OpToRel(<, Nat))
  <2> HIDE DEF T
  <2> QED
    BY <1>1, NatLessThanWellFounded, WFMin
<1>3. \A u \in T : ~(u < t)
  <2> HIDE DEF T
  <2> QED
    BY <1>1, <1>2, Zenon DEF OpToRel
<1>4. PICK x \in S : t = n - x
  OBVIOUS
<1>5. \A y \in S : x >= y
  <2> SUFFICES ASSUME NEW y \in S PROVE x >= y
    OBVIOUS
  <2>1. n - y \in T /\ n - x \in T
    OBVIOUS
  <2>2. ~(n - y < n - x)
    BY <1>3, <1>4, <2>1
  <2> QED
    BY <2>2
<1> QED
  BY <1>5 DEF Max

\* The greater of two integers is one of them, and bounds both.
LEMMA MaxOfPair ==
    ASSUME NEW a \in Int, NEW b \in Int
    PROVE  Max({a, b}) \in {a, b} /\ Max({a, b}) >= a /\ Max({a, b}) >= b
<1>1. \E x \in {a, b} : \A y \in {a, b} : x >= y
  <2>1. CASE a >= b
    BY <2>1
  <2>2. CASE b >= a
    BY <2>2
  <2> QED
    BY <2>1, <2>2
<1>2. Max({a, b}) \in {a, b} /\ \A y \in {a, b} : Max({a, b}) >= y
  BY <1>1, Zenon DEF Max
<1> QED
  BY <1>2

\* The lesser of two integers is one of them, and bounds both.
LEMMA MinOfPair ==
    ASSUME NEW a \in Int, NEW b \in Int
    PROVE  Min({a, b}) \in {a, b} /\ Min({a, b}) <= a /\ Min({a, b}) <= b
<1>1. \E x \in {a, b} : \A y \in {a, b} : x <= y
  <2>1. CASE a <= b
    BY <2>1
  <2>2. CASE b <= a
    BY <2>2
  <2> QED
    BY <2>1, <2>2
<1>2. Min({a, b}) \in {a, b} /\ \A y \in {a, b} : Min({a, b}) <= y
  BY <1>1, Zenon DEF Min
<1> QED
  BY <1>2

\* Induction up to a bound, for a set of numbers.
LEMMA BoundedInduction ==
    ASSUME NEW n \in Nat, NEW P, 0 \in P, \A k \in 0..(n - 1) : k \in P => k + 1 \in P
    PROVE  0..n \subseteq P
<1> DEFINE S == (0..n) \ P
<1> SUFFICES ASSUME S # {} PROVE FALSE
  OBVIOUS
<1>1. S \subseteq Nat
  OBVIOUS
<1>2. PICK x \in S : \A y \in S : ~(<<y, x>> \in OpToRel(<, Nat))
  <2> HIDE DEF S
  <2> QED
    BY <1>1, NatLessThanWellFounded, WFMin
<1>3. \A y \in S : ~(y < x)
  <2> HIDE DEF S
  <2> QED
    BY <1>1, <1>2, Zenon DEF OpToRel
<1>4. x \in 0..n /\ x \notin P /\ x # 0
  OBVIOUS
<1>5. x - 1 \in 0..(n - 1) /\ (x - 1) + 1 = x /\ x - 1 < x /\ x - 1 \in 0..n
  BY <1>4
<1>6. x - 1 \in P
  BY <1>3, <1>5
<1> QED
  BY <1>4, <1>5, <1>6
=============================================================================
