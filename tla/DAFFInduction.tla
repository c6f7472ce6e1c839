---------------------------- MODULE DAFFInduction ----------------------------
(***************************************************************************)
(* Induction and recursion for the other proofs: a set that holds 0 and    *)
(* all successors holds every natural number, and a function that is given *)
(* by a first value and a rule for the next one exists.  The modules write *)
(* the code's loops over data as such functions.                           *)
(***************************************************************************)
EXTENDS Integers, WellFoundedInduction, TLAPS

-----------------------------------------------------------------------------
(* Induction on the natural numbers, for sets: the least element.            *)

Less == {p \in Nat \X Nat : p[1] < p[2]}

LEMMA LessIsWellFounded == IsWellFoundedOn(Less, Nat)
<1>1. OpToRel(<, Nat) = Less
  BY DEF OpToRel, Less
<1>2. QED
  BY <1>1, NatLessThanWellFounded, Zenon

LEMMA LeastElement ==
  ASSUME NEW T \in SUBSET Nat, T # {}
  PROVE  \E x \in T : \A y \in T : x <= y
<1>1. PICK x \in T : \A y \in T : ~ (<<y, x>> \in Less)
  BY LessIsWellFounded, WFMin
<1>2. ASSUME NEW y \in T PROVE x <= y
  <2>1. x \in Nat /\ y \in Nat /\ <<y, x>> \notin Less
    BY <1>1
  <2>2. ~(y < x)
    BY <2>1 DEF Less
  <2>3. QED
    BY <2>1, <2>2
<1>3. QED
  BY <1>2

\* A set of numbers with 0 and with each successor holds them all.
LEMMA Induction ==
  ASSUME NEW P \in SUBSET Nat, 0 \in P, \A n \in P : n + 1 \in P
  PROVE  P = Nat
<1>1. SUFFICES ASSUME Nat \ P # {} PROVE FALSE
  OBVIOUS
<1>2. PICK x \in Nat \ P : \A y \in Nat \ P : x <= y
  BY <1>1, LeastElement
<1>3. x # 0 /\ x - 1 \in Nat /\ x - 1 \in P
  BY <1>2
<1>4. QED
  BY <1>2, <1>3

\* A function with a first value and a rule for the next one exists.
IsRule(F, S) == \A j \in Nat : \A v \in S : F[j][v] \in S
Follows(F, S, first, n, g) ==
  g \in [0 .. n -> S] /\ g[0] = first /\ \A j \in 1 .. n : g[j] = F[j][g[j-1]]

LEMMA Recursion ==
  ASSUME NEW n, n \in Nat, NEW S, NEW first, first \in S, NEW F, IsRule(F, S)
  PROVE  \E g : Follows(F, S, first, n, g)
<1> DEFINE P == {m \in Nat : \E g : Follows(F, S, first, m, g)}
<1>1. 0 \in P
  <2>1. Follows(F, S, first, 0, [j \in 0 .. 0 |-> first])
    BY DEF Follows
  <2>2. QED
    BY <2>1
<1>2. ASSUME NEW m \in P PROVE m + 1 \in P
  <2>1. PICK g : Follows(F, S, first, m, g)
    BY <1>2
  <2>2. m \in Nat
    BY <1>2
  <2>3. PICK h : h = [j \in 0 .. m + 1 |-> IF j = m + 1 THEN F[m + 1][g[m]] ELSE g[j]]
    OBVIOUS
  <2>4. \A j \in 0 .. m : h[j] = g[j] /\ g[j] \in S
    BY <2>1, <2>2, <2>3 DEF Follows
  <2>5. h[m + 1] = F[m + 1][g[m]] /\ h[m + 1] \in S
    <3>1. m \in 0 .. m /\ m + 1 \in 0 .. m + 1 /\ m + 1 \in Nat
      BY <2>2
    <3>2. g[m] \in S
      BY <2>4, <3>1
    <3>3. F[m + 1][g[m]] \in S
      BY <3>1, <3>2 DEF IsRule
    <3>4. QED
      BY <2>3, <3>1, <3>3
  <2>6. h \in [0 .. m + 1 -> S]
    <3>1. ASSUME NEW j \in 0 .. m + 1 PROVE h[j] \in S
      <4>1. j = m + 1 \/ j \in 0 .. m
        BY <2>2
      <4>2. QED
        BY <2>4, <2>5, <4>1
    <3>2. QED
      BY <2>3, <3>1
  <2>7. ASSUME NEW j \in 1 .. m + 1 PROVE h[j] = F[j][h[j-1]]
    <3>1. CASE j = m + 1
      <4>1. j - 1 = m /\ m \in 0 .. m
        BY <2>2, <3>1
      <4>2. QED
        BY <2>4, <2>5, <3>1, <4>1
    <3>2. CASE j # m + 1
      <4>1. j \in 1 .. m /\ j \in 0 .. m /\ j - 1 \in 0 .. m
        BY <2>2, <2>7, <3>2
      <4>2. QED
        BY <2>1, <2>4, <4>1 DEF Follows
    <3>3. QED
      BY <3>1, <3>2
  <2>8. Follows(F, S, first, m + 1, h)
    <3>1. h[0] = first
      BY <2>1, <2>2, <2>4 DEF Follows
    <3>2. QED
      BY <2>6, <2>7, <3>1 DEF Follows
  <2>9. QED
    BY <2>2, <2>8
<1>3. P = Nat
  <2> HIDE DEF P
  <2>1. P \in SUBSET Nat
    BY DEF P
  <2>2. QED
    BY <1>1, <1>2, <2>1, Induction
<1>4. QED
  BY <1>3
=============================================================================
