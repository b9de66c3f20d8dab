------------------------------ MODULE StampSets ------------------------------
(* Facts about sets of naturals and about finite sets that the proofs share. *)
EXTENDS Integers, FiniteSetTheorems, FunctionTheorems, WellFoundedInduction, TLAPS

\* A nonempty set of naturals has a least element.
LEMMA LeastElement ==
  ASSUME NEW T \in SUBSET Nat, T # {}
  PROVE  \E x \in T : \A y \in T : x <= y
<1>1. \A x, y \in Nat : x < y => <<x, y>> \in OpToRel(<, Nat)
  BY Zenon DEF OpToRel
<1>2. PICK x \in T : \A y \in T : ~ (<<y, x>> \in OpToRel(<, Nat))
  BY WFMin, NatLessThanWellFounded
<1>3. \A y \in T : ~ (y < x)
  BY Zenon, <1>1, <1>2
<1>4. QED
  BY <1>3

\* Adding a new element, and removing one, change the cardinality by one.
LEMMA AddRemove ==
  ASSUME NEW S, IsFiniteSet(S), NEW x
  PROVE  /\ Cardinality(S) \in Nat
         /\ IsFiniteSet(S \cup {x}) /\ IsFiniteSet(S \ {x})
         /\ x \notin S => Cardinality(S \cup {x}) = Cardinality(S) + 1
         /\ x \in S => Cardinality(S \ {x}) = Cardinality(S) - 1
BY FS_CardinalityType, FS_AddElement, FS_RemoveElement

\* What a finite set is mapped to is finite.
LEMMA ImageFinite ==
  ASSUME NEW S, NEW f, IsFiniteSet(S)
  PROVE  IsFiniteSet({f[x] : x \in S})
<1> DEFINE T == {f[x] : x \in S}
           g == [x \in S |-> f[x]]
<1>1. g \in Surjection(S, T)
  BY DEF Surjection
<1> HIDE DEF g, T
<1>2. IsFiniteSet(T)
  BY <1>1, FS_Surjection
<1> QED BY <1>2 DEF T

\* R, a set of pairs, is a strict total order of S.
Orders(R, S) ==
  /\ \A x \in S : <<x, x>> \notin R
  /\ \A x, y \in S : x # y => <<x, y>> \in R \/ <<y, x>> \in R
  /\ \A x, y, z \in S : <<x, y>> \in R /\ <<y, z>> \in R => <<x, z>> \in R

\* How many elements of S are before x in the order R, a set of pairs.
Preceding(S, R, x) == {y \in S : <<y, x>> \in R}

WellRanked(S, R) ==
  /\ \A x \in S : Cardinality(Preceding(S, R, x)) \in 0..Cardinality(S) - 1
  /\ \A x, y \in S : Cardinality(Preceding(S, R, x)) = Cardinality(Preceding(S, R, y)) => x = y
  /\ \A k \in 0..Cardinality(S) - 1 : \E x \in S : Cardinality(Preceding(S, R, x)) = k

\* In a finite set with a strict total order the ranks are distinct and every
\* rank below the cardinality is that of an element.
LEMMA RanksTaken ==
  ASSUME NEW S, NEW R, IsFiniteSet(S), Orders(R, S)
  PROVE  WellRanked(S, R)
<1> USE DEF Orders
<1> DEFINE P(x) == Preceding(S, R, x)
<1>1. Cardinality(S) \in Nat /\ \A x \in S : IsFiniteSet(P(x)) /\ Cardinality(P(x)) \in Nat
  BY FS_Subset, FS_CardinalityType DEF Preceding
<1>2. ASSUME NEW x \in S PROVE Cardinality(P(x)) < Cardinality(S)
  <2>1. P(x) \in SUBSET S /\ x \notin P(x)
    BY DEF Preceding
  <2>2. P(x) # S
    BY <2>1
  <2>3. Cardinality(P(x)) <= Cardinality(S) /\ Cardinality(P(x)) # Cardinality(S)
    BY <2>1, <2>2, FS_Subset
  <2> QED BY <1>1, <2>3
<1>3. ASSUME NEW x \in S, NEW y \in S, <<x, y>> \in R
      PROVE  Cardinality(P(x)) < Cardinality(P(y))
  <2>1. P(x) \in SUBSET P(y) /\ x \in P(y) /\ x \notin P(x)
    BY <1>3 DEF Preceding
  <2>2. P(x) # P(y)
    BY <2>1
  <2>3. Cardinality(P(x)) <= Cardinality(P(y)) /\ Cardinality(P(x)) # Cardinality(P(y))
    BY <1>1, <2>1, <2>2, FS_Subset
  <2> QED BY <1>1, <2>3
<1> DEFINE f == [x \in S |-> Cardinality(P(x))]
<1>4. \A x \in S : Cardinality(P(x)) \in 0..Cardinality(S) - 1
  BY <1>1, <1>2
<1>5. \A x, y \in S : Cardinality(P(x)) = Cardinality(P(y)) => x = y
  <2> SUFFICES ASSUME NEW x \in S, NEW y \in S, x # y
               PROVE  Cardinality(P(x)) # Cardinality(P(y))
    OBVIOUS
  <2>1. <<x, y>> \in R \/ <<y, x>> \in R
    OBVIOUS
  <2>2. Cardinality(P(x)) < Cardinality(P(y)) \/ Cardinality(P(y)) < Cardinality(P(x))
    BY <2>1, <1>3, Zenon
  <2>3. Cardinality(P(x)) \in Nat /\ Cardinality(P(y)) \in Nat
    BY <1>1
  <2> HIDE DEF P
  <2> QED BY <2>2, <2>3
<1>6. f \in [S -> 0..Cardinality(S) - 1]
  BY <1>4
<1>7. f \in Injection(S, 0..Cardinality(S) - 1)
  BY <1>5, <1>6 DEF Injection, IsInjective
<1>8. /\ IsFiniteSet(0..Cardinality(S) - 1)
      /\ Cardinality(0..Cardinality(S) - 1) = Cardinality(S)
  <2>1. \A n \in Nat : (IF 0 > n - 1 THEN 0 ELSE (n - 1) - 0 + 1) = n
    OBVIOUS
  <2>2. \A n \in Nat : IsFiniteSet(0..n - 1) /\ Cardinality(0..n - 1) = IF 0 > n - 1 THEN 0 ELSE (n - 1) - 0 + 1
    BY FS_Interval
  <2> QED BY <1>1, <2>1, <2>2
<1>9. f \in Surjection(S, 0..Cardinality(S) - 1)
  <2> HIDE DEF f
  <2> QED BY <1>7, <1>8, FS_Injection
<1>10. \A k \in 0..Cardinality(S) - 1 : \E x \in S : f[x] = k
  BY <1>9 DEF Surjection
<1> QED BY <1>4, <1>5, <1>10 DEF WellRanked
=============================================================================
