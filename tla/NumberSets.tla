----------------------------- MODULE NumberSets -----------------------------
(***************************************************************************)
(* The smallest and the greatest of a set of numbers: what the other       *)
(* proofs need of Min and Max of FiniteSetsExt.                            *)
(***************************************************************************)
EXTENDS Integers, FiniteSetsExt, WellFoundedInduction, TLAPS

LEMMA SmallestExists ==
    ASSUME NEW S \in SUBSET Nat, S # {}
    PROVE  \E n \in S : \A m \in S : n <= m
<1>1. PICK n \in S : \A m \in S : ~(<<m, n>> \in OpToRel(<, Nat))
  BY NatLessThanWellFounded, WFMin
<1>2. \A m \in S : ~(m < n)
  BY <1>1 DEF OpToRel
<1> QED
  BY <1>2

LEMMA MinOfNumbers ==
    ASSUME NEW S \in SUBSET Nat, S # {}
    PROVE  Min(S) \in S /\ \A m \in S : Min(S) <= m
  BY SmallestExists DEF Min

LEMMA MaxOfNumbers ==
    ASSUME NEW b \in Nat, NEW S \in SUBSET (0 .. b), S # {}
    PROVE  Max(S) \in S /\ \A m \in S : m <= Max(S)
<1> DEFINE T == {k \in 0 .. b : b - k \in S}
<1>1. T \in SUBSET Nat
  OBVIOUS
<1>2. \A m \in S : m \in 0 .. b /\ b - m \in 0 .. b /\ b - (b - m) = m
  OBVIOUS
<1>3. \A m \in S : b - m \in T
  BY <1>2
<1>4. PICK k \in T : \A j \in T : k <= j
  BY <1>1, <1>3, SmallestExists
<1>5. b - k \in S /\ k \in 0 .. b
  BY <1>4
<1>6. ASSUME NEW m \in S PROVE m <= b - k
  BY <1>2, <1>3, <1>4, <1>5
<1> QED
  BY <1>5, <1>6 DEF Max

LEMMA MaxOfOne ==
    ASSUME NEW n \in Nat
    PROVE  Max({n}) = n
<1>1. {n} \in SUBSET (0 .. n) /\ {n} # {}
  OBVIOUS
<1> QED
  BY <1>1, MaxOfNumbers

=============================================================================
