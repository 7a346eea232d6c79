----------------------------- MODULE Induction -----------------------------
(***************************************************************************)
(* Induction over the natural numbers and what follows from it for         *)
(* functions that are defined by recursion on them.  A property is given   *)
(* by the set of the numbers that have it, a recursion by the function T   *)
(* that makes each value from the one before.                              *)
(***************************************************************************)
EXTENDS Integers, WellFoundedInduction, TLAPS

LEMMA LessIs == \A x, y \in Nat : <<x, y>> \in OpToRel(<, Nat) <=> x < y
BY DEF OpToRel

(* A set with 0 and the successor of each of its numbers has them all.     *)
LEMMA NatSet ==
  ASSUME NEW S, 0 \in S, \A n \in Nat : n \in S => n + 1 \in S
  PROVE  Nat \subseteq S
<1> DEFINE T == Nat \ S
<1> SUFFICES ASSUME T # {} PROVE FALSE
  OBVIOUS
<1> DEFINE R == OpToRel(<, Nat)
<1>1. IsWellFoundedOn(R, Nat)
  BY NatLessThanWellFounded
<1>2. \A x, y \in Nat : <<x, y>> \in R <=> x < y
  BY LessIs
<1>3. T \subseteq Nat
  OBVIOUS
<1> HIDE DEF R
<1>4. PICK x \in T : \A y \in T : ~ (<<y, x>> \in R)
  <2> HIDE DEF T
  <2> QED BY <1>1, <1>3, WFMin
<1>5. x \in Nat /\ x # 0
  OBVIOUS
<1>6. x - 1 \in Nat /\ x - 1 < x /\ (x - 1) + 1 = x
  BY <1>5
<1>7. x - 1 \notin S
  BY <1>5, <1>6
<1> QED BY <1>2, <1>4, <1>5, <1>6, <1>7

(* The same from 0 to n.                                                   *)
LEMMA UpTo ==
  ASSUME NEW n \in Nat, NEW S, 0 \in S, \A i \in 1 .. n : i - 1 \in S => i \in S
  PROVE  \A i \in 0 .. n : i \in S
<1> DEFINE T == {i \in Nat : i <= n => i \in S}
<1>1. 0 \in T
  OBVIOUS
<1>2. ASSUME NEW i \in Nat, i \in T PROVE i + 1 \in T
  <2>1. CASE i + 1 <= n
    <3>1. i + 1 \in 1 .. n /\ (i + 1) - 1 = i /\ i <= n
      BY <2>1
    <3>2. i \in S
      BY <1>2, <3>1
    <3>3. i + 1 \in S
      BY <3>1, <3>2
    <3> QED BY <3>3
  <2> QED BY <2>1
<1> HIDE DEF T
<1>3. Nat \subseteq T
  BY <1>1, <1>2, NatSet
<1> QED BY <1>3 DEF T

(* Two functions that start alike and go on alike are alike.               *)
LEMMA Alike ==
  ASSUME NEW n \in Nat, NEW f, NEW g, f[0] = g[0],
         \A i \in 1 .. n : f[i - 1] = g[i - 1] => f[i] = g[i]
  PROVE  \A i \in 0 .. n : f[i] = g[i]
<1> DEFINE S == {i \in 0 .. n : f[i] = g[i]}
<1>1. 0 \in S
  OBVIOUS
<1>2. \A i \in 1 .. n : i - 1 \in S => i \in S
  OBVIOUS
<1> HIDE DEF S
<1>3. \A i \in 0 .. n : i \in S
  BY <1>1, <1>2, UpTo
<1> QED BY <1>3 DEF S

(* From 0 to n, p makes each value from the one before by T.               *)
Follows(p, n, a, T) == p[0] = a /\ \A i \in 1 .. n : p[i] = T[i][p[i - 1]]

(* A recursion has a solution.                                             *)
LEMMA Solution ==
  ASSUME NEW n \in Nat, NEW S, NEW a \in S, NEW T \in [1 .. n -> [S -> S]]
  PROVE  \E p \in [0 .. n -> S] : Follows(p, n, a, T)
<1> DEFINE M == {m \in 0 .. n : \E p \in [0 .. m -> S] : Follows(p, m, a, T)}
<1>1. 0 \in M
  <2> DEFINE p == [i \in 0 .. 0 |-> a]
  <2>1. p \in [0 .. 0 -> S] /\ p[0] = a
    OBVIOUS
  <2>2. \A i \in 1 .. 0 : FALSE
    OBVIOUS
  <2>3. Follows(p, 0, a, T)
    BY <2>1, <2>2 DEF Follows
  <2>4. 0 \in 0 .. n
    OBVIOUS
  <2> HIDE DEF p
  <2> QED BY <2>1, <2>3, <2>4
<1>2. ASSUME NEW m \in 1 .. n, m - 1 \in M PROVE m \in M
  <2>1. PICK p \in [0 .. m - 1 -> S] : Follows(p, m - 1, a, T)
    BY <1>2
  <2>2. T[m] \in [S -> S] /\ p[m - 1] \in S
    BY <1>2
  <2> DEFINE v == T[m][p[m - 1]]
             q == [i \in 0 .. m |-> IF i = m THEN v ELSE p[i]]
  <2>3. v \in S
    BY <2>2
  <2>4. q[m] = v /\ \A i \in 0 .. m - 1 : q[i] = p[i]
    OBVIOUS
  <2> HIDE DEF v
  <2>5. q \in [0 .. m -> S]
    BY <2>3
  <2> HIDE DEF q
  <2>6. ASSUME NEW i \in 1 .. m PROVE q[i] = T[i][q[i - 1]]
    <3>1. q[i - 1] = p[i - 1]
      BY <2>4
    <3>2. CASE i = m
      BY <2>4, <3>1, <3>2 DEF v
    <3>3. CASE i # m
      <4>1. i \in 1 .. m - 1
        BY <3>3
      <4> QED BY <2>1, <2>4, <3>1, <4>1 DEF Follows
    <3> QED BY <3>2, <3>3
  <2>7. q[0] = a
    BY <2>1, <2>4 DEF Follows
  <2>8. Follows(q, m, a, T)
    BY <2>6, <2>7 DEF Follows
  <2> QED BY <2>5, <2>8
<1>3. \A m \in 1 .. n : m - 1 \in M => m \in M
  BY <1>2
<1> HIDE DEF M
<1>4. \A m \in 0 .. n : m \in M
  BY <1>1, <1>3, UpTo
<1>5. n \in M
  BY <1>4
<1> QED BY <1>5 DEF M
=============================================================================
