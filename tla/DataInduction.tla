---------------------------- MODULE DataInduction ----------------------------
(***************************************************************************)
(* Facts about numbers that the proofs about rings, buffers and tables     *)
(* share: induction over the natural numbers, stated for a set so that it  *)
(* can be cited, and a modulus near its range.                             *)
(***************************************************************************)
EXTENDS Integers, FiniteSetTheorems, TLAPS

\* Induction: a set of naturals that has 0 and every successor is Nat.  If x
\* were missing, the successor would map the members below x injectively to
\* those but 0, which are fewer.
THEOREM SetInduction ==
    ASSUME NEW S \in SUBSET Nat, 0 \in S, \A n \in S : n + 1 \in S
    PROVE  S = Nat
  <1>1. SUFFICES ASSUME NEW x \in Nat, x \notin S PROVE FALSE
    OBVIOUS
  <1> DEFINE A == S \cap (0 .. x)
             f == [n \in A |-> n + 1]
  <1>2. IsFiniteSet(A)
    <2>1. IsFiniteSet(0 .. x)
      BY FS_Interval
    <2>2. A \in SUBSET (0 .. x)
      OBVIOUS
    <2> HIDE DEF A
    <2> QED BY <2>1, <2>2, FS_Subset
  <1>3. 0 \in A
    OBVIOUS
  <1>4. f \in [A -> A \ {0}]
    BY <1>1
  <1>5. \A m, n \in A : f[m] = f[n] => m = n
    OBVIOUS
  <1> HIDE DEF A, f
  <1>6. IsFiniteSet(A \ {0}) /\ Cardinality(A \ {0}) = Cardinality(A) - 1
    BY <1>2, <1>3, FS_RemoveElement
  <1>7. Cardinality(A \ {0}) < Cardinality(A)
    <2>1. Cardinality(A) \in Nat
      BY <1>2, FS_CardinalityType
    <2> QED BY <1>6, <2>1
  <1>8. \E m, n \in A : m # n /\ f[m] = f[n]
    BY <1>2, <1>4, <1>6, <1>7, FS_PigeonHole
  <1> QED BY <1>5, <1>8

\* A set of naturals that is not empty has a least member.
LEMMA LeastMember ==
    ASSUME NEW S \in SUBSET Nat, S # {}
    PROVE  \E i \in S : \A j \in S : i <= j
  <1> DEFINE T == {n \in Nat : \A m \in 0 .. n : m \notin S}
  <1>1. ASSUME \A i \in S : \E j \in S : ~(i <= j)
        PROVE  FALSE
    <2>1. 0 \in T
      BY <1>1
    <2>2. ASSUME NEW n \in T PROVE n + 1 \in T
      <3>1. ASSUME n + 1 \in S PROVE FALSE
        <4>1. PICK j \in S : ~(n + 1 <= j)
          BY <1>1, <3>1
        <4>2. j \in 0 .. n
          BY <4>1
        <4> QED BY <4>2
      <3>2. \A m \in 0 .. n + 1 : m \in 0 .. n \/ m = n + 1
        OBVIOUS
      <3> QED BY <3>1, <3>2
    <2>3. T \in SUBSET Nat
      OBVIOUS
    <2> HIDE DEF T
    <2>4. T = Nat
      BY <2>1, <2>2, <2>3, SetInduction
    <2>5. PICK x \in S : x \in Nat
      OBVIOUS
    <2>6. x \in T /\ x \in 0 .. x
      BY <2>4, <2>5
    <2> QED BY <2>5, <2>6 DEF T
  <1> QED BY <1>1

\* A modulus not far from its range.
LEMMA ModDifference ==
    ASSUME NEW n \in Nat \ {0}, NEW x \in -(n - 1) .. n - 1
    PROVE  x % n = IF x >= 0 THEN x ELSE x + n
  OBVIOUS

LEMMA ModNext ==
    ASSUME NEW n \in Nat \ {0}, NEW x \in 0 .. n - 1
    PROVE  (x + 1) % n = IF x + 1 = n THEN 0 ELSE x + 1
  OBVIOUS

LEMMA ModTwice ==
    ASSUME NEW n \in Nat \ {0}, NEW x \in 0 .. 2 * n - 1
    PROVE  x % n = IF x < n THEN x ELSE x - n
  OBVIOUS

LEMMA ModThrice ==
    ASSUME NEW n \in Nat \ {0}, NEW x \in 0 .. 3 * n - 1
    PROVE  x % n = IF x < n THEN x ELSE IF x < 2 * n THEN x - n ELSE x - 2 * n
  OBVIOUS
=============================================================================
