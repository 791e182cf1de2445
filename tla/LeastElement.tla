---------------------------- MODULE LeastElement ----------------------------
(***************************************************************************)
(* What proofs about places, counts and loops rest on: a set of numbers    *)
(* has a least element.  Induction and definition by recursion follow from *)
(* it, stated of sets and functions.                                       *)
(***************************************************************************)
EXTENDS WellFoundedInduction, TLAPS

\* A set of natural numbers that is not empty has a least element.
LEMMA LeastExists ==
    ASSUME NEW numbers \in SUBSET Nat, numbers # {}
    PROVE  \E k \in numbers : \A j \in numbers : k <= j
<1>1. PICK k \in numbers : \A j \in numbers : ~ (<<j, k>> \in OpToRel(<, Nat))
  BY NatLessThanWellFounded, WFMin
<1>2. \A j \in numbers : ~ (j < k)  BY <1>1 DEF OpToRel
<1>. QED  BY <1>2

\* A set with 0 and the successors of its numbers has them all.
LEMMA Induction ==
    ASSUME NEW good, 0 \in good, \A i \in Nat : i \in good => i + 1 \in good
    PROVE  \A i \in Nat : i \in good
<1> DEFINE bad == Nat \ good
<1>1. SUFFICES ASSUME bad # {} PROVE FALSE  OBVIOUS
<1>2. PICK k \in bad : \A j \in bad : k <= j  BY <1>1, LeastExists
<1>3. k # 0 /\ k - 1 \in Nat /\ k - 1 \notin bad  BY <1>2
<1>. QED  BY <1>3

\* f goes from a first value on by a rule for the next one.
Iterates(f, first, next) == f[0] = first /\ \A i \in Nat : f[i + 1] = next[<<f[i], i>>]

\* There is a function for each first value and each rule.
LEMMA Recursion ==
    ASSUME NEW S, NEW first \in S, NEW next \in [S \X Nat -> S]
    PROVE  \E f \in [Nat -> S] : Iterates(f, first, next)
<1> DEFINE Until(f, n) == f[0] = first /\ \A i \in Nat : i < n => f[i + 1] = next[<<f[i], i>>]
           reached == {n \in Nat : \E f \in [Nat -> S] : Until(f, n)}
<1>1. \A n \in Nat : n \in reached
  <2>1. 0 \in reached
    <3>1. [i \in Nat |-> first] \in [Nat -> S] /\ Until([i \in Nat |-> first], 0)  OBVIOUS
    <3>. QED  BY <3>1
  <2>2. ASSUME NEW n \in Nat, n \in reached PROVE n + 1 \in reached
    <3>1. PICK f \in [Nat -> S] : Until(f, n)  BY <2>2
    <3> DEFINE g == [f EXCEPT ![n + 1] = next[<<f[n], n>>]]
    <3>2. g \in [Nat -> S] /\ g[0] = first  BY <3>1
    <3>3. ASSUME NEW i \in Nat, i < n + 1 PROVE g[i + 1] = next[<<g[i], i>>]
      <4>1. g[i] = f[i]  BY <3>3
      <4>2. CASE i = n  BY <4>1, <4>2
      <4>3. CASE i # n
        <5>1. i < n /\ g[i + 1] = f[i + 1]  BY <3>3, <4>3
        <5>. QED  BY <3>1, <4>1, <5>1
      <4>. QED  BY <4>2, <4>3
    <3>4. Until(g, n + 1)  BY <3>2, <3>3
    <3> HIDE DEF Until, g
    <3>. QED  BY <3>2, <3>4
  <2> HIDE DEF reached
  <2>. QED  BY <2>1, <2>2, Induction
<1>2. ASSUME NEW n \in Nat, NEW f, NEW g, Until(f, n), Until(g, n)
      PROVE  \A i \in Nat : i <= n => f[i] = g[i]
  <2> DEFINE alike == {i \in Nat : i <= n => f[i] = g[i]}
  <2>1. 0 \in alike  BY <1>2
  <2>2. ASSUME NEW i \in Nat, i \in alike PROVE i + 1 \in alike
    <3>1. CASE i + 1 <= n
      <4>1. f[i] = g[i] /\ i < n  BY <2>2, <3>1
      <4>2. f[i + 1] = next[<<f[i], i>>] /\ g[i + 1] = next[<<g[i], i>>]  BY <1>2, <4>1
      <4>. QED  BY <4>1, <4>2
    <3>2. CASE ~ (i + 1 <= n)  BY <3>2
    <3>. QED  BY <3>1, <3>2
  <2>3. \A i \in Nat : i \in alike
    <3> HIDE DEF alike
    <3>. QED  BY <2>1, <2>2, Induction
  <2>. QED  BY <2>3
<1> DEFINE at == [n \in Nat |-> CHOOSE f \in [Nat -> S] : Until(f, n)]
           h  == [n \in Nat |-> at[n][n]]
<1>3. ASSUME NEW n \in Nat PROVE at[n] \in [Nat -> S] /\ Until(at[n], n)
  <2>1. \E f \in [Nat -> S] : Until(f, n)  BY <1>1
  <2>2. at[n] = CHOOSE f \in [Nat -> S] : Until(f, n)  OBVIOUS
  <2> HIDE DEF Until, at
  <2>. QED  BY <2>1, <2>2
<1> HIDE DEF at
<1>4. h \in [Nat -> S] /\ h[0] = first
  <2>1. ASSUME NEW n \in Nat PROVE at[n][n] \in S
    <3>1. at[n] \in [Nat -> S]
      <4> HIDE DEF Until
      <4>. QED  BY <1>3
    <3>. QED  BY <3>1
  <2>2. at[0][0] = first  BY <1>3
  <2>. QED  BY <2>1, <2>2
<1>5. ASSUME NEW i \in Nat PROVE h[i + 1] = next[<<h[i], i>>]
  <2>1. Until(at[i], i) /\ Until(at[i + 1], i + 1)
    <3> HIDE DEF Until
    <3>. QED  BY <1>3
  <2>2. Until(at[i + 1], i) /\ at[i + 1][i + 1] = next[<<at[i + 1][i], i>>]
    <3>1. \A j \in Nat : j < i => j < i + 1  OBVIOUS
    <3>2. i < i + 1  OBVIOUS
    <3>. QED  BY <2>1, <3>1, <3>2
  <2>3. at[i][i] = at[i + 1][i]
    <3> HIDE DEF Until
    <3>. QED  BY <1>2, <2>1, <2>2
  <2>. QED  BY <2>2, <2>3
<1> HIDE DEF h
<1>. QED  BY <1>4, <1>5 DEF Iterates
=============================================================================
