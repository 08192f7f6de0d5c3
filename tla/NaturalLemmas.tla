--------------------------- MODULE NaturalLemmas ---------------------------
(***************************************************************************)
(* What the proofs of several components need of the naturals.             *)
(***************************************************************************)
EXTENDS Naturals, WellFoundedInduction, TLAPS

(* A set of naturals has a least element: the oldest workspace that is     *)
(* kept, the run that the dashboard sorts first.                           *)
LEMMA LeastNatural ==
    ASSUME NEW S, S \subseteq Nat, S # {}
    PROVE  \E m \in S : \A n \in S : m <= n
<1> DEFINE Less == OpToRel(<, Nat)
<1>1. \A m, n \in S : n < m => <<n, m>> \in Less
  <2> SUFFICES ASSUME NEW m \in S, NEW n \in S, n < m
               PROVE  <<n, m>> \in {p \in Nat \X Nat : p[1] < p[2]}
    BY DEF OpToRel
  <2> QED
    OBVIOUS
<1>2. IsWellFoundedOn(Less, Nat)
  BY NatLessThanWellFounded
<1> HIDE DEF Less
<1>3. \E m \in S : \A n \in S : ~(<<n, m>> \in Less)
  BY <1>2, WFMin
<1>4. PICK m \in S : \A n \in S : ~(<<n, m>> \in Less)
  BY <1>3
<1>5. ASSUME NEW n \in S PROVE m <= n
  <2>1. ~(n < m)
    BY <1>1, <1>4
  <2>2. m \in Nat /\ n \in Nat
    OBVIOUS
  <2> QED
    BY <2>1, <2>2
<1> QED
  BY <1>5

=============================================================================
