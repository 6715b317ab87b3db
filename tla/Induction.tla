----------------------------- MODULE Induction -----------------------------
(***************************************************************************)
(* Induction over the naturals and the existence of functions defined by   *)
(* it, for sets and functions in place of predicates and operators: in     *)
(* this form the facts need no instance of an operator parameter.          *)
(***************************************************************************)
EXTENDS Integers, WellFoundedInduction, TLAPS

(* A set of naturals that is not empty has a least element.                *)
LEMMA LeastNatural ==
    ASSUME NEW T \in SUBSET Nat, T # {}
    PROVE  \E m \in T : \A k \in T : m <= k
<1> DEFINE R == OpToRel(<, Nat)
<1>1. PICK m \in T : \A k \in T : ~(<<k, m>> \in R)
  <2> HIDE DEF R
  <2>1. IsWellFoundedOn(R, Nat)
    BY NatLessThanWellFounded DEF R
  <2> QED
    BY <2>1, WFMin
<1>2. ASSUME NEW k \in T
      PROVE  m <= k
  <2>1. k < m => <<k, m>> \in R
    BY DEF OpToRel
  <2> HIDE DEF R
  <2> QED
    BY <1>1, <2>1
<1> QED
  BY <1>2

(* A set that has 0, and the successor of whatever it has, has all.        *)
LEMMA SetInduction ==
    ASSUME NEW T, 0 \in T, \A n \in Nat : n \in T => n + 1 \in T
    PROVE  Nat \subseteq T
<1> SUFFICES ASSUME Nat \ T # {}
             PROVE  FALSE
  OBVIOUS
<1>1. PICK m \in Nat \ T : \A k \in Nat \ T : m <= k
  BY LeastNatural
<1>2. m # 0
  OBVIOUS
<1>3. m - 1 \in Nat /\ m - 1 \in T
  BY <1>1, <1>2
<1> QED
  BY <1>3

(* A sequence that starts at s0 and goes on by F exists, and is therefore  *)
(* what a recursive function definition chooses.                           *)
LEMMA IterationExists ==
    ASSUME NEW S, NEW s0 \in S, NEW F \in [S -> S]
    PROVE  \E f : f = [n \in Nat |-> IF n = 0 THEN s0 ELSE F[f[n - 1]]]
<1> DEFINE Good(g, k) == /\ g \in [0..k -> S]
                         /\ \A i \in 0..k : g[i] = IF i = 0 THEN s0 ELSE F[g[i - 1]]
           T == {k \in Nat : \E g : Good(g, k)}
<1>1. 0 \in T
  <2>1. Good([i \in 0..0 |-> s0], 0)
    OBVIOUS
  <2> QED
    BY <2>1
<1>2. ASSUME NEW k \in Nat, k \in T
      PROVE  k + 1 \in T
  <2>1. PICK g : Good(g, k)
    BY <1>2
  <2> DEFINE h == [i \in 0..(k + 1) |-> IF i = k + 1 THEN F[g[k]] ELSE g[i]]
  <2>2. Good(h, k + 1)
    <3>1. h \in [0..(k + 1) -> S]
      BY <2>1
    <3>2. ASSUME NEW i \in 0..(k + 1)
          PROVE  h[i] = IF i = 0 THEN s0 ELSE F[h[i - 1]]
      BY <2>1
    <3> QED
      BY <3>1, <3>2
  <2> HIDE DEF Good, h
  <2> QED
    BY <2>2
<1>3. Nat \subseteq T
  <2> HIDE DEF T
  <2> QED
    BY <1>1, <1>2, SetInduction
<1>4. ASSUME NEW k \in Nat, NEW g, NEW h, NEW m \in Nat, Good(g, k), Good(h, m)
      PROVE  \A i \in Nat : i <= k /\ i <= m => g[i] = h[i]
  <2> DEFINE U == {i \in Nat : i <= k /\ i <= m => g[i] = h[i]}
  <2>1. 0 \in U
    BY <1>4
  <2>2. ASSUME NEW i \in Nat, i \in U
        PROVE  i + 1 \in U
    BY <1>4, <2>2
  <2>3. Nat \subseteq U
    <3> HIDE DEF U
    <3> QED
      BY <2>1, <2>2, SetInduction
  <2> QED
    BY <2>3
<1> DEFINE G == [k \in Nat |-> CHOOSE g : Good(g, k)]
           f == [n \in Nat |-> G[n][n]]
<1>5. \A k \in Nat : Good(G[k], k)
  BY <1>3
<1> HIDE DEF G
<1>6. ASSUME NEW n \in Nat
      PROVE  f[n] = IF n = 0 THEN s0 ELSE F[f[n - 1]]
  <2>1. /\ G[n] \in [0..n -> S]
        /\ G[n][n] = IF n = 0 THEN s0 ELSE F[G[n][n - 1]]
    BY <1>5
  <2>2. CASE n = 0
    BY <2>1, <2>2
  <2>3. CASE n # 0
    <3>0. n - 1 \in Nat /\ n - 1 <= n
      BY <2>3
    <3>1. Good(G[n], n) /\ Good(G[n - 1], n - 1)
      BY <1>5, <3>0
    <3> HIDE DEF Good
    <3>2. G[n][n - 1] = G[n - 1][n - 1]
      BY <1>4, <3>0, <3>1
    <3> QED
      BY <2>1, <2>3, <3>0, <3>2
  <2> QED
    BY <2>2, <2>3
<1> WITNESS f
<1> QED
  BY <1>6
=============================================================================
