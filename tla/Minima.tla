------------------------------- MODULE Minima -------------------------------
(***************************************************************************)
(* Least elements.  A least counterexample stands for an induction, which  *)
(* the proofs about lists, texts and import cycles use.                    *)
(***************************************************************************)
EXTENDS FiniteSetTheorems, WellFoundedInduction, TLAPS

(* Every set of naturals has a least member.                               *)
LEMMA HasLeast ==
  ASSUME NEW S \in SUBSET Nat, S # {}
  PROVE  \E n \in S : \A m \in S : n <= m
  <1>1. \E n \in S : \A m \in S : <<m, n>> \notin OpToRel(<, Nat)
    BY NatLessThanWellFounded, WFMin, Zenon
  <1>2. PICK n \in S : \A m \in S : <<m, n>> \notin OpToRel(<, Nat)
    BY <1>1
  <1>3. \A m \in S : n <= m
    <2> TAKE m \in S
    <2>1. m \in Nat /\ n \in Nat
      OBVIOUS
    <2>2. <<m, n>> \notin {p \in Nat \X Nat : p[1] < p[2]}
      BY <1>2 DEF OpToRel
    <2> QED
      BY <2>1, <2>2
  <1> QED
    BY <1>3

(* The values of a function on a finite set are finitely many.             *)
LEMMA FiniteImage ==
  ASSUME NEW S, IsFiniteSet(S), NEW f
  PROVE  IsFiniteSet({f[x] : x \in S})
  <1> DEFINE T == {f[x] : x \in S}
             g == [x \in S |-> f[x]]
  <1>1. g \in Surjection(S, T)
    BY DEF Surjection
  <1> QED
    BY <1>1, FS_Surjection

(* Of some subsets of a finite set, one has none of the others within it.  *)
LEMMA HasSmallest ==
  ASSUME NEW S, IsFiniteSet(S), NEW Some \in SUBSET SUBSET S, Some # {}
  PROVE  \E T \in Some : \A U \in Some : U \subseteq T => U = T
  <1> DEFINE sizes == {Cardinality(T) : T \in Some}
  <1>1. \A T \in Some : IsFiniteSet(T) /\ Cardinality(T) \in Nat
    BY FS_Subset, FS_CardinalityType
  <1>2. sizes \in SUBSET Nat /\ sizes # {}
    BY <1>1
  <1>3. PICK n \in sizes : \A m \in sizes : n <= m
    BY <1>2, HasLeast
  <1>4. PICK T \in Some : n = Cardinality(T)
    BY <1>3
  <1>5. ASSUME NEW U \in Some, U \subseteq T
        PROVE  U = T
    <2>1. Cardinality(T) <= Cardinality(U) /\ Cardinality(U) <= Cardinality(T)
      BY <1>1, <1>3, <1>4, <1>5, FS_Subset
    <2>2. Cardinality(T) = Cardinality(U)
      BY <1>1, <2>1
    <2> QED
      BY <1>1, <1>5, <2>2, FS_Subset
  <1> QED
    BY <1>5
=============================================================================
