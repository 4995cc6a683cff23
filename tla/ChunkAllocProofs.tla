-------------------------- MODULE ChunkAllocProofs --------------------------
(***************************************************************************)
(* TreeChunkMapped for any number of chunkservers, requests, chunk ids and *)
(* faults: the assertion of AddNewServer that a chunk of the tree is in    *)
(* the map from chunks to servers does not fail.                           *)
(***************************************************************************)
EXTENDS ChunkAllocSteps, FiniteSetTheorems

-----------------------------------------------------------------------------
(* InOrder lists a finite set of numbers.  The proof takes a least         *)
(* counterexample, since induction is beyond the provers.                  *)

Listing(q, S) ==
    /\ q \in [1..Cardinality(S) -> S]
    /\ \A i, j \in 1..Cardinality(S) : i < j => q[i] < q[j]

LEMMA LeastNumber ==
    ASSUME NEW T \in SUBSET Nat, T # {}
    PROVE  \E n \in T : \A m \in T : ~(m < n)
<1>1. PICK n \in T : \A m \in T : <<m, n>> \notin OpToRel(<, Nat)
  BY WFMin, NatLessThanWellFounded
<1>2. \A m \in T : m < n => <<m, n>> \in OpToRel(<, Nat)
  BY DEF OpToRel
<1>3. QED
  BY <1>1, <1>2

LEMMA ListingExists ==
    ASSUME NEW S \in SUBSET Nat, IsFiniteSet(S)
    PROVE  \E q : Listing(q, S)
<1> DEFINE Bad(n) == \E U \in SUBSET Nat : IsFiniteSet(U) /\ Cardinality(U) = n /\ ~\E q : Listing(q, U)
           T == {n \in Nat : Bad(n)}
<1>1. ASSUME T # {} PROVE FALSE
  <2>1. PICK n \in T : \A m \in T : ~(m < n)
    BY <1>1, LeastNumber
  <2>2. PICK U \in SUBSET Nat : IsFiniteSet(U) /\ Cardinality(U) = n /\ ~\E q : Listing(q, U)
    OBVIOUS
  <2>3. n \in Nat
    OBVIOUS
  <2>4. U # {}
    <3> SUFFICES ASSUME U = {} PROVE FALSE
      OBVIOUS
    <3>1. Cardinality(U) = 0
      BY FS_EmptySet
    <3>2. Listing([i \in 1..0 |-> i], U)
      BY <3>1 DEF Listing
    <3>3. QED
      BY <2>2, <3>2
  <2>5. PICK x \in U : \A y \in U : ~(y < x)
    BY <2>4, LeastNumber
  <2> DEFINE V == U \ {x}
  <2>6. IsFiniteSet(V) /\ Cardinality(V) = n - 1
    BY <2>2, <2>5, FS_RemoveElement
  <2>7. n - 1 \in Nat
    BY <2>6, FS_CardinalityType
  <2>8. PICK q : Listing(q, V)
    BY <2>1, <2>3, <2>6, <2>7
  <2> DEFINE p == [i \in 1..n |-> IF i = 1 THEN x ELSE q[i - 1]]
  <2>9. \A i \in 1..n - 1 : q[i] \in U /\ q[i] \in Nat /\ x < q[i]
    <3>1. \A i \in 1..n - 1 : q[i] \in V
      BY <2>6, <2>8 DEF Listing
    <3>2. x \in Nat /\ \A y \in V : y \in U /\ y \in Nat /\ x < y
      BY <2>5
    <3> HIDE DEF V
    <3>3. QED
      BY <3>1, <3>2
  <2>10. p \in [1..n -> U]
    BY <2>3, <2>5, <2>9
  <2>11. ASSUME NEW i \in 1..n, NEW j \in 1..n, i < j PROVE p[i] < p[j]
    <3>1. p[j] = q[j - 1] /\ j - 1 \in 1..n - 1
      BY <2>3, <2>11
    <3>2. CASE i = 1
      BY <2>9, <3>1, <3>2
    <3>3. CASE i # 1
      <4>1. p[i] = q[i - 1] /\ i - 1 \in 1..n - 1 /\ i - 1 < j - 1
        BY <2>3, <2>11, <3>3
      <4>2. QED
        BY <2>6, <2>8, <3>1, <4>1 DEF Listing
    <3>4. QED
      BY <3>2, <3>3
  <2>12. Listing(p, U)
    BY <2>2, <2>10, <2>11 DEF Listing
  <2>13. QED
    BY <2>2, <2>12
<1>2. QED
  BY <1>1, FS_CardinalityType

LEMMA InOrderOfFinite ==
    ASSUME NEW S \in SUBSET Nat, IsFiniteSet(S)
    PROVE  /\ Cardinality(S) \in Nat
           /\ \A i \in 1..Cardinality(S) : InOrder(S)[i] \in S
           /\ \A i, j \in 1..Cardinality(S) : InOrder(S)[i] = InOrder(S)[j] => i = j
<1>1. Listing(InOrder(S), S)
  BY ListingExists DEF InOrder, Listing
<1>2. Cardinality(S) \in Nat
  BY FS_CardinalityType
<1>3. \A i \in 1..Cardinality(S) : InOrder(S)[i] \in S
  BY <1>1 DEF Listing
<1>4. ASSUME NEW i \in 1..Cardinality(S), NEW j \in 1..Cardinality(S), InOrder(S)[i] = InOrder(S)[j]
      PROVE  i = j
  <2>1. InOrder(S)[i] \in Nat /\ InOrder(S)[j] \in Nat
    BY <1>3
  <2>2. ~(i < j) /\ ~(j < i)
    BY <1>1, <1>4, <2>1 DEF Listing
  <2>3. QED
    BY <1>2, <2>2
<1>5. QED
  BY <1>2, <1>3, <1>4

LEMMA InOrderHolds == InOrderLists
<1>1. ASSUME NEW m \in Nat, NEW S \in SUBSET (1..m) PROVE Listed(S)
  <2>1. IsFiniteSet(1..m)
    BY FS_Interval
  <2>2. IsFiniteSet(S)
    BY <2>1, FS_Subset
  <2>3. S \in SUBSET Nat
    OBVIOUS
  <2>4. QED
    BY <2>2, <2>3, InOrderOfFinite DEF Listed
<1>2. QED
  BY <1>1, AllocAssumption DEF InOrderLists, Reqs, Ids

-----------------------------------------------------------------------------
\* A chunk of the tree is in the map from chunks to servers, so that the assertion
\* of AddNewServer holds: for any number of requests, servers and faults.
THEOREM AllocTreeChunkMapped == Spec => []TreeChunkMapped
<1>1. Inv => TreeChunkMapped
  BY DEF Inv
<1>2. QED
  BY <1>1, InvInit, InvNext, InOrderHolds, PTL DEF Spec
=============================================================================
