----------------------------- MODULE MinLemmas ------------------------------
(***************************************************************************)
(* The first index a loop stops at is Min of a set of naturals; this is    *)
(* what Min returns, and the induction over the passes of a loop.          *)
(***************************************************************************)
EXTENDS FiniteSetsExt, WellFoundedInduction, TLAPS

NatLess == OpToRel(<, Nat)

\* There is no infinite descent in the naturals.
LEMMA NatLessWellFounded == IsWellFoundedOn(NatLess, Nat)
BY NatLessThanWellFounded, Zenon DEF NatLess

\* The order as a set of pairs agrees with <.
LEMMA NatLessMember ==
  ASSUME NEW x \in Nat, NEW y \in Nat, y < x
  PROVE  <<y, x>> \in NatLess
BY Zenon DEF NatLess, OpToRel

\* Min of a non-empty set of naturals is its least element.
LEMMA MinIsLeast ==
  ASSUME NEW S \in SUBSET Nat, S # {}
  PROVE  /\ Min(S) \in S
         /\ \A y \in S : Min(S) <= y
<1>1. PICK x \in S : \A y \in S : ~ (<<y, x>> \in NatLess)
  BY NatLessWellFounded, WFMin
<1>2. \A y \in S : x <= y
  <2>1. SUFFICES ASSUME NEW y \in S, ~ (x <= y)
                 PROVE  FALSE
    OBVIOUS
  <2>2. <<y, x>> \in NatLess
    BY <2>1, NatLessMember
  <2> QED
    BY <1>1, <2>2
<1> QED
  BY <1>2 DEF Min

\* Induction up to n, for a set of numbers.
LEMMA UpTo ==
  ASSUME NEW n \in Nat, NEW P, 0 \in P, \A i \in 0..n - 1 : i \in P => i + 1 \in P
  PROVE  \A i \in 0..n : i \in P
<1>1. SUFFICES ASSUME NEW j \in 0..n, j \notin P
               PROVE  FALSE
  OBVIOUS
<1> DEFINE S == {i \in 0..n : i \notin P}
<1>2. S \in SUBSET Nat /\ S # {}
  BY <1>1
<1>3. Min(S) \in S /\ \A y \in S : Min(S) <= y
  BY <1>2, MinIsLeast
<1>4. Min(S) # 0 /\ Min(S) \in 0..n /\ Min(S) \notin P
  BY <1>3
<1>5. Min(S) - 1 \in 0..n - 1 /\ Min(S) - 1 \notin S /\ (Min(S) - 1) + 1 = Min(S)
  BY <1>3, <1>4
<1> QED
  BY <1>4, <1>5
=============================================================================
