------------------------------ MODULE Counting ------------------------------
(* Facts about counting and about natural numbers, shared by the proofs.   *)
EXTENDS Integers, FiniteSets, FiniteSetTheorems, WellFoundedInduction, TLAPS

\* Two subsets of a finite set that differ at most in p: their cardinalities
\* differ by whether p is in each.  The proofs use it for counters that one
\* process at a time moves.
LEMMA CountOne ==
    ASSUME NEW P, IsFiniteSet(P), NEW S \in SUBSET P, NEW T \in SUBSET P,
           NEW p \in P, \A q \in P \ {p} : q \in S <=> q \in T
    PROVE  /\ Cardinality(S) \in Nat /\ Cardinality(T) \in Nat
           /\ (p \in S <=> p \in T) => Cardinality(T) = Cardinality(S)
           /\ p \notin S /\ p \in T => Cardinality(T) = Cardinality(S) + 1
           /\ p \in S /\ p \notin T => Cardinality(T) = Cardinality(S) - 1
  <1>1. IsFiniteSet(S) /\ IsFiniteSet(T)
    BY FS_Subset
  <1>2. Cardinality(S) \in Nat /\ Cardinality(T) \in Nat
    BY <1>1, FS_CardinalityType
  <1>3. (p \in S <=> p \in T) => S = T
    OBVIOUS
  <1>4. ASSUME p \notin S, p \in T
        PROVE  Cardinality(T) = Cardinality(S) + 1
    <2>1. T = S \cup {p}
      BY <1>4
    <2> QED  BY <2>1, <1>1, <1>4, FS_AddElement
  <1>5. ASSUME p \in S, p \notin T
        PROVE  Cardinality(T) = Cardinality(S) - 1
    <2>1. T = S \ {p}
      BY <1>5
    <2> QED  BY <2>1, <1>1, <1>5, FS_RemoveElement
  <1> QED  BY <1>2, <1>3, <1>4, <1>5

\* A member of a finite set makes its cardinality positive.
LEMMA CountPositive ==
    ASSUME NEW P, IsFiniteSet(P), NEW S \in SUBSET P, NEW p \in S
    PROVE  Cardinality(S) \in Nat /\ Cardinality(S) > 0
  <1>1. IsFiniteSet(S)
    BY FS_Subset
  <1>2. Cardinality(S) \in Nat
    BY <1>1, FS_CardinalityType
  <1>3. Cardinality(S) # 0
    BY <1>1, FS_EmptySet
  <1> QED  BY <1>2, <1>3

\* A nonempty set of natural numbers has a least element.
LEMMA LeastElement ==
    ASSUME NEW S \in SUBSET Nat, S # {}
    PROVE  \E m \in S : \A k \in S : m <= k
  <1> DEFINE R == OpToRel(<, Nat)
  <1>1. \E m \in S : \A k \in S : ~(<<k, m>> \in R)
    <2> HIDE DEF R
    <2> QED  BY WFMin, NatLessThanWellFounded DEF R
  <1>2. \A k, m \in Nat : <<k, m>> \in R <=> k < m
    BY DEF OpToRel
  <1> HIDE DEF R
  <1>3. PICK m \in S : \A k \in S : ~(<<k, m>> \in R)
    BY <1>1
  <1>4. ASSUME NEW k \in S PROVE m <= k
    <2>1. ~(k < m)
      BY <1>2, <1>3
    <2> QED  BY <2>1
  <1> QED  BY <1>4

\* Two numbers less than w apart with the same remainder are equal.
LEMMA SameRemainder ==
    ASSUME NEW w \in Nat \ {0}, NEW a \in Nat, NEW b \in Nat,
           a <= b, b - a < w, a % w = b % w
    PROVE  a = b
  <1> DEFINE p == a \div w
             q == b \div w
             r == a % w
  <1>1. p \in Int /\ q \in Int /\ r \in Int /\ a = w * p + r /\ b = w * q + r
    OBVIOUS
  <1> HIDE DEF p, q, r
  <1>2. b - a = w * (q - p)
    BY <1>1
  <1>3. q - p = 0 \/ q - p >= 1 \/ q - p <= -1
    BY <1>1
  <1>4. q - p >= 1 => w * (q - p) >= w
    BY <1>1
  <1>5. q - p <= -1 => w * (q - p) < 0
    BY <1>1
  <1> QED  BY <1>1, <1>2, <1>3, <1>4, <1>5
=============================================================================
