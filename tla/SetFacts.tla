------------------------------ MODULE SetFacts ------------------------------
(***************************************************************************)
(* Facts about natural numbers and finite sets that the proofs share.  The *)
(* library's induction principles take a predicate as a parameter; the     *)
(* least element of a set serves instead.                                  *)
(***************************************************************************)
EXTENDS Integers, Sequences, FiniteSets, FiniteSetTheorems, WellFoundedInduction, TLAPS

\* Every nonempty set of naturals has a least element: the initial segments up
\* to its members have a minimal one under strict inclusion.
LEMMA LeastElement ==
    ASSUME NEW S \in SUBSET Nat, S # {}
    PROVE  \E m \in S : \A k \in S : m <= k
<1> DEFINE T == {0 .. i : i \in S}
<1>1. T # {} /\ T \subseteq FiniteSubsetsOf(Nat)
  <2>1. ASSUME NEW i \in S PROVE 0 .. i \in FiniteSubsetsOf(Nat)
    <3>1. IsFiniteSet(0 .. i)
      BY FS_Interval
    <3> QED
      BY <3>1 DEF FiniteSubsetsOf
  <2> QED
    BY <2>1
<1>2. IsWellFoundedOn(StrictSubsetOrdering(Nat), FiniteSubsetsOf(Nat))
  BY FS_StrictSubsetOrderingWellFounded
<1> HIDE DEF T
<1>3. PICK x \in T : \A y \in T : ~(<<y, x>> \in StrictSubsetOrdering(Nat))
  BY <1>1, <1>2, WFMin
<1>4. PICK m \in S : x = 0 .. m
  BY <1>3 DEF T
<1>5. ASSUME NEW k \in S, k < m
      PROVE  FALSE
  <2>1. 0 .. k \in T
    BY DEF T
  <2>2. 0 .. k \subseteq 0 .. m /\ 0 .. k # 0 .. m /\ 0 .. m \subseteq Nat
    <3>1. m \in 0 .. m /\ m \notin 0 .. k
      BY <1>5
    <3> QED
      BY <1>5, <3>1
  <2>3. <<0 .. k, 0 .. m>> \in StrictSubsetOrdering(Nat)
    BY <2>2 DEF StrictSubsetOrdering
  <2> QED
    BY <1>3, <1>4, <2>1, <2>3
<1> QED
  BY <1>5

\* A nonempty set of naturals below a bound has a greatest element.
LEMMA GreatestElement ==
    ASSUME NEW n \in Nat, NEW S \in SUBSET (0 .. n), S # {}
    PROVE  \E m \in S : \A k \in S : k <= m
<1> DEFINE D == {n - i : i \in S}
<1>a. \A i \in S : i \in 0 .. n /\ i \in Int /\ n - i \in Nat
  OBVIOUS
<1>1. D \in SUBSET Nat /\ D # {}
  <2>1. ASSUME NEW i \in S PROVE n - i \in Nat
    BY <1>a
  <2>2. PICK i \in S : TRUE
    OBVIOUS
  <2>3. n - i \in D
    OBVIOUS
  <2> QED
    BY <2>1, <2>3
<1>2. PICK d \in D : \A k \in D : d <= k
  BY <1>1, LeastElement
<1>3. PICK m \in S : d = n - m
  BY <1>2
<1>4. \A k \in S : n - m <= n - k
  BY <1>2, <1>3
<1>5. \A k \in S : k <= m
  BY <1>4, <1>a
<1> QED
  BY <1>5

\* The size of a finite set that gains or loses one member.
LEMMA OneMemberChanges ==
    ASSUME NEW S, NEW T, NEW x, IsFiniteSet(S), \A y : y # x => (y \in S <=> y \in T)
    PROVE  /\ IsFiniteSet(T)
           /\ Cardinality(S) \in Nat
           /\ Cardinality(T) \in Nat
           /\ Cardinality(T) = Cardinality(S) - (IF x \in S THEN 1 ELSE 0)
                                              + (IF x \in T THEN 1 ELSE 0)
<1> DEFINE R == S \ {x}
<1>1. /\ S = IF x \in S THEN R \cup {x} ELSE R
      /\ T = IF x \in T THEN R \cup {x} ELSE R
      /\ R \subseteq S /\ x \notin R
  OBVIOUS
<1>2. IsFiniteSet(R)
  BY <1>1, FS_Subset
<1>3. /\ Cardinality(R) \in Nat /\ IsFiniteSet(R \cup {x})
      /\ Cardinality(R \cup {x}) = Cardinality(R) + 1
  BY <1>1, <1>2, FS_CardinalityType, FS_AddElement
<1> HIDE DEF R
<1>4. Cardinality(S) = Cardinality(R) + (IF x \in S THEN 1 ELSE 0)
  <2>1. CASE x \in S
    BY <1>1, <1>3, <2>1
  <2>2. CASE x \notin S
    BY <1>1, <1>3, <2>2
  <2> QED
    BY <2>1, <2>2
<1>5. IsFiniteSet(T) /\ Cardinality(T) = Cardinality(R) + (IF x \in T THEN 1 ELSE 0)
  <2>1. CASE x \in T
    BY <1>1, <1>2, <1>3, <2>1
  <2>2. CASE x \notin T
    BY <1>1, <1>2, <1>3, <2>2
  <2> QED
    BY <2>1, <2>2
<1> QED
  BY <1>3, <1>4, <1>5

\* The size of the union of two finite sets without a common member.
LEMMA DisjointSizes ==
    ASSUME NEW S, NEW T, IsFiniteSet(S), IsFiniteSet(T), S \cap T = {}
    PROVE  /\ IsFiniteSet(S \cup T)
           /\ Cardinality(S \cup T) = Cardinality(S) + Cardinality(T)
<1>1. /\ Cardinality(S) \in Nat /\ Cardinality(T) \in Nat /\ Cardinality(S \cap T) = 0
  BY FS_CardinalityType, FS_EmptySet
<1>2. /\ IsFiniteSet(S \cup T)
      /\ Cardinality(S \cup T) = Cardinality(S) + Cardinality(T) - Cardinality(S \cap T)
  BY FS_Union
<1> QED
  BY <1>1, <1>2

\* A set of five members is finite.
LEMMA SmallSetFinite ==
    ASSUME NEW a, NEW b, NEW c, NEW d, NEW e
    PROVE  IsFiniteSet({a, b, c, d, e})
<1>1. IsFiniteSet({a}) /\ IsFiniteSet({b}) /\ IsFiniteSet({c}) /\ IsFiniteSet({d}) /\ IsFiniteSet({e})
  BY FS_Singleton
<1>2. IsFiniteSet({a} \cup {b}) /\ IsFiniteSet({c} \cup {d})
  BY <1>1, FS_Union
<1>3. IsFiniteSet(({a} \cup {b}) \cup ({c} \cup {d}))
  BY <1>2, FS_Union
<1>4. IsFiniteSet((({a} \cup {b}) \cup ({c} \cup {d})) \cup {e})
  BY <1>1, <1>3, FS_Union
<1>5. {a, b, c, d, e} = (({a} \cup {b}) \cup ({c} \cup {d})) \cup {e}
  OBVIOUS
<1> QED
  BY <1>4, <1>5
=============================================================================
