----------------------------- MODULE Induction -----------------------------
(***************************************************************************)
(* Induction over the natural numbers, for sets instead of predicates: the *)
(* library states it for operators, which no prover can instantiate, but   *)
(* also that a well-founded relation has minimal elements, which is enough *)
(***************************************************************************)
EXTENDS Integers, WellFoundedInduction, TLAPS

Less == {p \in Nat \X Nat : p[1] < p[2]}

LEMMA LessWellFounded == IsWellFoundedOn(Less, Nat)
<1> DEFINE R == OpToRel(<, Nat)
<1>1. IsWellFoundedOn(R, Nat)
  BY NatLessThanWellFounded, Zenon
<1>2. R = Less
  BY Zenon DEF OpToRel, Less
<1> QED
  BY <1>1, <1>2, Zenon

\* A set of natural numbers that is not empty has a least element.
LEMMA LeastElement ==
  ASSUME NEW T \in SUBSET Nat, T # {}
  PROVE  \E x \in T : \A y \in T : x =< y
<1>1. PICK x \in T : \A y \in T : ~ (<<y, x>> \in Less)
  BY LessWellFounded, WFMin
<1>2. \A y \in T : ~ (y < x)
  BY <1>1 DEF Less
<1>3. \A y \in T : x =< y
  BY <1>2
<1> QED
  BY <1>3

\* What holds of 0, and of n + 1 when it holds of n, holds of every number.
LEMMA SetInduction ==
  ASSUME NEW T, 0 \in T, \A n \in Nat : n \in T => n + 1 \in T
  PROVE  Nat \subseteq T
<1> SUFFICES ASSUME Nat \ T # {} PROVE FALSE
  OBVIOUS
<1>1. PICK x \in Nat \ T : \A y \in Nat \ T : x =< y
  BY LeastElement
<1>2. x - 1 \in Nat /\ (x - 1) + 1 = x
  BY <1>1
<1>3. x - 1 \notin T
  BY <1>1, <1>2
<1> QED
  BY <1>1, <1>2, <1>3
=============================================================================
