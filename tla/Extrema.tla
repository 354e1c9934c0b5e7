------------------------------ MODULE Extrema ------------------------------
(***************************************************************************)
(* The least and the greatest element of a set of naturals, and the        *)
(* greatest of finitely many: the facts behind every Min, Max and CHOOSE   *)
(* of the models.  They follow from the well-foundedness of the order on   *)
(* the naturals.                                                           *)
(***************************************************************************)
EXTENDS Integers, Sequences, FiniteSetsExt, WellFoundedInduction, TLAPS

\* A non-empty set of naturals has a least element.
LEMMA LeastExists ==
  ASSUME NEW T \in SUBSET Nat, T # {}
  PROVE  \E x \in T : \A y \in T : x <= y
<1> DEFINE R == {ss \in Nat \X Nat : ss[1] < ss[2]}
<1>1. PICK x \in T : \A y \in T : ~ (<<y, x>> \in R)
  <2>1. IsWellFoundedOn(R, Nat)
    BY NatLessThanWellFounded, Zenon DEF OpToRel
  <2> HIDE DEF R
  <2> QED
    BY <2>1, WFMin
<1>2. \A y \in T : x <= y
  <2>1. SUFFICES ASSUME NEW y \in T, y < x PROVE FALSE
    OBVIOUS
  <2>2. <<y, x>> \in R
    BY <2>1
  <2> QED
    BY <1>1, <2>2
<1> QED
  BY <1>2

\* A non-empty set of naturals with an upper bound has a greatest element.
LEMMA GreatestExists ==
  ASSUME NEW n \in Nat, NEW S \in SUBSET (0 .. n), S # {}
  PROVE  \E x \in S : \A y \in S : y <= x
<1> DEFINE T == {m \in Nat : \A y \in S : y <= m}
<1>1. PICK m \in T : \A y \in T : m <= y
  <2>1. n \in T
    OBVIOUS
  <2> HIDE DEF T
  <2>2. T \in SUBSET Nat
    BY DEF T
  <2> QED
    BY <2>1, <2>2, LeastExists
<1>2. m \in S
  <2>1. SUFFICES ASSUME m \notin S PROVE FALSE
    OBVIOUS
  <2>2. \A y \in S : y <= m - 1
    BY <2>1
  <2>3. m - 1 \in Nat
    <3>1. PICK y \in S : TRUE
      OBVIOUS
    <3>2. 0 <= y /\ y <= m - 1 /\ y \in Int /\ m \in Nat
      BY <2>2, <3>1
    <3> QED
      BY <3>2
  <2>4. m - 1 \in T
    BY <2>2, <2>3
  <2> QED
    BY <1>1, <2>4
<1> QED
  BY <1>1, <1>2

\* The Min of FiniteSetsExt is the least element.
LEMMA MinIsLeast ==
  ASSUME NEW S \in SUBSET Nat, S # {}
  PROVE  Min(S) \in S /\ \A y \in S : Min(S) <= y
<1>1. \E x \in S : \A y \in S : x <= y
  BY LeastExists
<1> QED
  BY <1>1 DEF Min

\* The Max of FiniteSetsExt is the greatest element.
LEMMA MaxIsGreatest ==
  ASSUME NEW n \in Nat, NEW S \in SUBSET (0 .. n), S # {}
  PROVE  Max(S) \in S /\ \A y \in S : y <= Max(S)
<1>1. \E x \in S : \A y \in S : x >= y
  <2>1. \E x \in S : \A y \in S : y <= x
    BY GreatestExists
  <2> QED
    BY <2>1
<1> QED
  BY <1>1 DEF Max

\* One of finitely many naturals is the greatest.
LEMMA GreatestOfSeq ==
  ASSUME NEW n \in Nat \ {0}, NEW f \in [1 .. n -> Nat]
  PROVE  \E m \in 1 .. n : \A i \in 1 .. n : f[i] <= f[m]
<1> DEFINE Good(k) == \E m \in 1 .. k : \A i \in 1 .. k : f[i] <= f[m]
           T == {k \in 1 .. n : ~ Good(k)}
<1>1. SUFFICES ASSUME T # {} PROVE FALSE
  <2>1. (T = {}) => Good(n)
    <3> HIDE DEF Good
    <3> QED
      OBVIOUS
  <2> QED
    BY <2>1
<1>2. PICK k \in T : \A j \in T : k <= j
  <2>1. T \in SUBSET Nat
    OBVIOUS
  <2> HIDE DEF T
  <2> QED
    BY <1>1, <2>1, LeastExists
<1>3. k # 1
  BY <1>2
<1>4. Good(k - 1)
  <2>1. k - 1 \in 1 .. n /\ ~(k <= k - 1)
    BY <1>3
  <2>2. k - 1 \notin T
    <3> HIDE DEF T
    <3> QED
      BY <1>2, <2>1
  <2> HIDE DEF Good
  <2> QED
    BY <2>1, <2>2
<1>5. PICK m \in 1 .. k - 1 : \A i \in 1 .. k - 1 : f[i] <= f[m]
  BY <1>4
<1>6. CASE f[k] <= f[m]
  <2>1. \A i \in 1 .. k : f[i] <= f[m]
    BY <1>5, <1>6
  <2> QED
    BY <1>2, <2>1
<1>7. CASE ~ (f[k] <= f[m])
  <2>1. \A i \in 1 .. k : f[i] <= f[k]
    BY <1>5, <1>7
  <2> QED
    BY <1>2, <2>1
<1> QED
  BY <1>6, <1>7
=============================================================================
