--------------------------- MODULE InductionLemmas ---------------------------
(***************************************************************************)
(* Induction over the naturals in a form whose parameter is a set, not an   *)
(* operator, so that a proof can cite it: the elements for which a fact     *)
(* holds form the set.  It rests on the well-foundedness of inclusion on    *)
(* finite sets, a number standing for the set of the smaller ones.          *)
(***************************************************************************)
EXTENDS Integers, FiniteSetTheorems, TLAPS

(* Every non-empty set of naturals has a least element.                     *)
LEMMA LeastNatural ==
    ASSUME NEW T, T \subseteq Nat, T # {}
    PROVE  \E n \in T : \A m \in T : n <= m
<1> DEFINE below(n) == 0..(n - 1)
           F == {below(n) : n \in T}
<1>1. F \subseteq FiniteSubsetsOf(Nat) /\ F # {}
  <2>1. \A n \in T : below(n) \in SUBSET Nat /\ IsFiniteSet(below(n))
    <3>1. TAKE n \in T
    <3>2. 0 \in Int /\ n - 1 \in Int
      OBVIOUS
    <3>3. IsFiniteSet(below(n))
      BY <3>2, FS_Interval
    <3> QED BY <3>3
  <2> QED BY <2>1 DEF FiniteSubsetsOf
<1>2. PICK x \in F : \A y \in F : ~(<<y, x>> \in StrictSubsetOrdering(Nat))
  <2> HIDE DEF F
  <2>1. IsWellFoundedOn(StrictSubsetOrdering(Nat), FiniteSubsetsOf(Nat))
    BY FS_StrictSubsetOrderingWellFounded
  <2> QED BY <1>1, <2>1, WFMin
<1>3. PICK n \in T : x = below(n)
  OBVIOUS
<1>4. ASSUME NEW m \in T, m < n
      PROVE  FALSE
  <2>1. below(m) \subseteq below(n) /\ m \in below(n) /\ m \notin below(m)
    BY <1>4
  <2>2. below(m) # below(n) /\ below(m) \in SUBSET Nat /\ below(n) \in SUBSET Nat
    BY <2>1
  <2>3. <<below(m), below(n)>> \in StrictSubsetOrdering(Nat)
    BY <2>1, <2>2 DEF StrictSubsetOrdering
  <2> QED BY <1>2, <1>3, <2>3
<1> QED BY <1>4

(* A set that has 0 and with every natural the next one has all of them.    *)
LEMMA SetInduction ==
    ASSUME NEW S, 0 \in S, \A n \in Nat : n \in S => n + 1 \in S
    PROVE  Nat \subseteq S
<1> SUFFICES ASSUME ~(Nat \subseteq S) PROVE FALSE
  OBVIOUS
<1> DEFINE T == {n \in Nat : n \notin S}
<1>1. PICK n \in T : \A m \in T : n <= m
  BY LeastNatural
<1>2. n # 0 /\ n - 1 \in Nat /\ n - 1 \notin T
  BY <1>1
<1> QED BY <1>2

(* The same up to a bound.                                                  *)
LEMMA BoundedInduction ==
    ASSUME NEW N \in Nat, NEW S, 0 \in S, \A n \in 0..(N - 1) : n \in S => n + 1 \in S
    PROVE  0..N \subseteq S
<1> DEFINE T == {n \in Nat : n <= N => n \in S}
<1>1. 0 \in T /\ \A n \in Nat : n \in T => n + 1 \in T
  OBVIOUS
<1>2. Nat \subseteq T
  <2> HIDE DEF T
  <2> QED BY <1>1, SetInduction
<1> QED BY <1>2

(* An injection of an initial segment of the naturals into itself reaches   *)
(* every element.                                                           *)
LEMMA InjectionIsOnto ==
    ASSUME NEW n \in Nat, NEW o \in [1..n -> 1..n], \A i, j \in 1..n : i # j => o[i] # o[j]
    PROVE  \A m \in 1..n : \E i \in 1..n : o[i] = m
<1>1. IsFiniteSet(1..n)
  BY FS_Interval
<1>2. o \in Injection(1..n, 1..n)
  BY DEF Injection, IsInjective
<1>3. o \in Surjection(1..n, 1..n)
  BY <1>1, <1>2, FS_Injection
<1> QED BY <1>3 DEF Surjection

=============================================================================
