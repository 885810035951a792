------------------------------ MODULE Induction ------------------------------
(***************************************************************************)
(* Induction and recursion over the natural numbers in a form that the     *)
(* provers can use: over a set instead of a predicate, and along a         *)
(* function instead of an operator.  Everything follows from the           *)
(* well-foundedness of the order of the natural numbers.                   *)
(***************************************************************************)
EXTENDS Integers, WellFoundedInduction, TLAPS

\* A set of natural numbers that is not empty has a least element.
LEMMA LeastNumber ==
  ASSUME NEW T \in SUBSET Nat, T # {}
  PROVE  \E n \in T : \A m \in T : n <= m
<1>1. IsWellFoundedOn(OpToRel(<, Nat), Nat)
  BY NatLessThanWellFounded
<1>2. \A m, n \in Nat : <<m, n>> \in OpToRel(<, Nat) <=> m < n
  BY DEF OpToRel
<1>3. PICK R : IsWellFoundedOn(R, Nat) /\ \A m, n \in Nat : <<m, n>> \in R <=> m < n
  BY <1>1, <1>2, Zenon
<1>4. PICK n \in T : \A m \in T : ~ (<<m, n>> \in R)
  <2>1. IsWellFoundedOn(R, Nat)
    BY <1>3
  <2>2. T \subseteq Nat
    OBVIOUS
  <2>3. \E n \in T : \A m \in T : ~ (<<m, n>> \in R)
    BY <2>1, <2>2, WFMin
  <2> QED BY <2>3
<1>5. ASSUME NEW m \in T PROVE n <= m
  <2>1. m \in Nat /\ n \in Nat
    OBVIOUS
  <2>2. ~ (m < n)
    BY <1>3, <1>4, <2>1
  <2> QED BY <2>1, <2>2
<1> QED BY <1>5

\* A set with 0 and with the successor of each of its numbers has them all.
LEMMA SetInduction ==
  ASSUME NEW S, 0 \in S, \A n \in Nat : n \in S => n + 1 \in S
  PROVE  Nat \subseteq S
<1> SUFFICES ASSUME ~ (Nat \subseteq S) PROVE FALSE
  OBVIOUS
<1>1. PICK n \in Nat \ S : \A m \in Nat \ S : n <= m
  BY LeastNumber
<1>2. n # 0
  BY <1>1
<1>3. n - 1 \in Nat /\ n - 1 \in S
  BY <1>1, <1>2
<1> QED BY <1>1, <1>3

\* g is what becomes of v in n steps.
Unfolds(g, v, step, V, n) ==
  /\ g \in [0 .. n -> V]
  /\ g[0] = v
  /\ \A i \in 0 .. n - 1 : g[i + 1] = step[g[i]]

\* There is such a g for every number of steps ...
LEMMA Unfolding ==
  ASSUME NEW V, NEW v \in V, NEW step \in [V -> V], NEW n \in Nat
  PROVE  \E g : Unfolds(g, v, step, V, n)
<1> DEFINE S == {k \in Nat : \E g : Unfolds(g, v, step, V, k)}
<1>1. 0 \in S
  <2>1. Unfolds([i \in 0 .. 0 |-> v], v, step, V, 0)
    BY DEF Unfolds
  <2> QED BY <2>1
<1>2. ASSUME NEW k \in Nat, k \in S PROVE k + 1 \in S
  <2>1. PICK g : Unfolds(g, v, step, V, k)
    BY <1>2
  <2> DEFINE h == [i \in 0 .. k + 1 |-> IF i = k + 1 THEN step[g[k]] ELSE g[i]]
  <2>2. g[k] \in V /\ \A i \in 0 .. k : g[i] \in V
    BY <2>1 DEF Unfolds
  <2>3. h \in [0 .. k + 1 -> V] /\ h[0] = v
    BY <2>1, <2>2 DEF Unfolds
  <2>4. ASSUME NEW i \in 0 .. k PROVE h[i + 1] = step[h[i]]
    <3>1. CASE i = k
      BY <3>1
    <3>2. CASE i # k
      BY <3>2, <2>1 DEF Unfolds
    <3> QED BY <3>1, <3>2
  <2> HIDE DEF h
  <2>5. Unfolds(h, v, step, V, k + 1)
    BY <2>3, <2>4 DEF Unfolds
  <2> QED BY <2>5
<1> HIDE DEF S
<1>3. Nat \subseteq S
  BY <1>1, <1>2, SetInduction
<1> QED BY <1>3 DEF S

\* ... and two of them agree as far as both go.
LEMMA UnfoldingsAgree ==
  ASSUME NEW V, NEW v, NEW step, NEW n \in Nat, NEW m \in Nat, n <= m,
         NEW g, NEW h, Unfolds(g, v, step, V, n), Unfolds(h, v, step, V, m)
  PROVE  \A i \in 0 .. n : g[i] = h[i]
<1> DEFINE S == {i \in Nat : i <= n => g[i] = h[i]}
<1>1. 0 \in S
  BY DEF Unfolds
<1>2. ASSUME NEW i \in Nat, i \in S PROVE i + 1 \in S
  <2> SUFFICES ASSUME i + 1 <= n PROVE g[i + 1] = h[i + 1]
    OBVIOUS
  <2>1. g[i + 1] = step[g[i]] /\ h[i + 1] = step[h[i]]
    BY DEF Unfolds
  <2> QED BY <1>2, <2>1
<1> HIDE DEF S
<1>3. Nat \subseteq S
  BY <1>1, <1>2, SetInduction
<1> QED BY <1>3 DEF S

\* A function may be defined by its first value and by the step from each of its
\* values to the next.
LEMMA Recursion ==
  ASSUME NEW V, NEW v \in V, NEW step \in [V -> V]
  PROVE  \E f \in [Nat -> V] : f[0] = v /\ \A n \in Nat : f[n + 1] = step[f[n]]
<1> DEFINE G(n) == CHOOSE g : Unfolds(g, v, step, V, n)
           f == [n \in Nat |-> G(n)[n]]
<1>1. \A n \in Nat : Unfolds(G(n), v, step, V, n)
  BY Unfolding
<1> HIDE DEF G
<1>2. f \in [Nat -> V] /\ f[0] = v
  BY <1>1 DEF Unfolds
<1>3. ASSUME NEW n \in Nat PROVE f[n + 1] = step[f[n]]
  <2>1. G(n)[n] = G(n + 1)[n]
    BY <1>1, UnfoldingsAgree
  <2>2. G(n + 1)[n + 1] = step[G(n + 1)[n]]
    BY <1>1 DEF Unfolds
  <2> QED BY <2>1, <2>2
<1> HIDE DEF f
<1> QED BY <1>2, <1>3
=============================================================================
