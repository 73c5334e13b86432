-------------------------- MODULE RecursionLemmas --------------------------
(***************************************************************************)
(* Induction on the natural numbers as a fact about sets, and with it that *)
(* a function defined by recursion along a sequence exists.  The induction *)
(* theorems of the library take an operator as a parameter; these lemmas   *)
(* are first-order and can be cited wherever an instance is needed.        *)
(***************************************************************************)
EXTENDS Integers, Sequences, WellFoundedInduction, SequenceTheorems, TLAPS

(* A set of natural numbers that is not empty has a least element. *)
LEMMA LeastNatural ==
  ASSUME NEW S \in SUBSET Nat, S # {}
  PROVE  \E n \in S : \A m \in S : n <= m
<1> DEFINE R == OpToRel(<, Nat)
<1>1. R = {ss \in Nat \X Nat : ss[1] < ss[2]}
  BY DEF OpToRel
<1>2. IsWellFoundedOn(R, Nat)
  BY NatLessThanWellFounded, Zenon
<1> HIDE DEF R
<1>3. \E n \in S : \A m \in S : ~(<<m, n>> \in R)
  BY <1>2, WFMin
<1>4. \A m, n \in Nat : <<m, n>> \notin R => n <= m
  BY <1>1
<1> QED
  BY <1>3, <1>4

(* A set of natural numbers with 0 and the successors of its elements. *)
LEMMA NatSetInduction ==
  ASSUME NEW S \in SUBSET Nat, 0 \in S, \A n \in S : n + 1 \in S
  PROVE  S = Nat
<1> SUFFICES ASSUME Nat \ S # {} PROVE FALSE
  OBVIOUS
<1>1. PICK n \in Nat \ S : \A m \in Nat \ S : n <= m
  BY LeastNatural
<1>2. n # 0 /\ n - 1 \in Nat
  BY <1>1
<1>3. n - 1 \in S
  BY <1>1, <1>2
<1> QED
  BY <1>1, <1>2, <1>3

(* g[i] is what step makes of b and the first i elements of s. *)
Accumulates(g, step, b, s, n) ==
  g = [i \in 0 .. n |-> IF i = 0 THEN b ELSE step[<<g[i - 1], s[i]>>]]

(* Such a function exists for every sequence. *)
LEMMA AccumulationExists ==
  ASSUME NEW V, NEW b \in V, NEW E, NEW step \in [V \X E -> V], NEW s \in Seq(E)
  PROVE  \E g \in [0 .. Len(s) -> V] : Accumulates(g, step, b, s, Len(s))
<1> DEFINE P(n) == n <= Len(s) =>
                     \E g \in [0 .. n -> V] : Accumulates(g, step, b, s, n)
           S == {n \in Nat : P(n)}
<1> Len(s) \in Nat
  BY LenProperties
<1>1. 0 \in S
  <2> DEFINE g == [i \in 0 .. 0 |-> b]
  <2>1. Accumulates(g, step, b, s, 0) /\ g \in [0 .. 0 -> V]
    BY DEF Accumulates
  <2> QED
    BY <2>1
<1>2. ASSUME NEW n \in S PROVE n + 1 \in S
  <2> SUFFICES ASSUME n + 1 <= Len(s)
               PROVE  \E g \in [0 .. n + 1 -> V] : Accumulates(g, step, b, s, n + 1)
    OBVIOUS
  <2>1. PICK g \in [0 .. n -> V] : Accumulates(g, step, b, s, n)
    OBVIOUS
  <2>2. s[n + 1] \in E
    BY ElementOfSeq
  <2> DEFINE h == [i \in 0 .. n + 1 |-> IF i = n + 1 THEN step[<<g[n], s[n + 1]>>] ELSE g[i]]
  <2>3. h \in [0 .. n + 1 -> V]
    BY <2>2
  <2>4. Accumulates(h, step, b, s, n + 1)
    <3> SUFFICES ASSUME NEW i \in 0 .. n + 1
                 PROVE  h[i] = IF i = 0 THEN b ELSE step[<<h[i - 1], s[i]>>]
      BY DEF Accumulates
    <3>1. h[i] = IF i = n + 1 THEN step[<<g[n], s[n + 1]>>] ELSE g[i]
      OBVIOUS
    <3>2. i # 0 => h[i - 1] = g[i - 1]
      OBVIOUS
    <3> HIDE DEF h
    <3>3. CASE i = n + 1
      <4>1. i # 0 /\ i - 1 = n
        BY <3>3
      <4>2. h[i - 1] = g[n]
        BY <3>2, <4>1
      <4> QED
        BY <3>1, <3>3, <4>1, <4>2
    <3>4. CASE i # n + 1
      <4>1. g[i] = IF i = 0 THEN b ELSE step[<<g[i - 1], s[i]>>]
        BY <2>1, <3>4 DEF Accumulates
      <4> QED
        BY <3>1, <3>2, <3>4, <4>1
    <3> QED
      BY <3>3, <3>4
  <2> QED
    BY <2>3, <2>4
<1> HIDE DEF P
<1>3. S = Nat
  BY <1>1, <1>2, NatSetInduction
<1> QED
  BY <1>3 DEF P
=============================================================================
