------------------------------ MODULE Recursion ------------------------------
(***************************************************************************)
(* Induction over the natural numbers and recursion along a list, stated   *)
(* with sets and functions in the place of operators: a predicate is the   *)
(* set of the numbers that have it, a step of a recursion is a function.   *)
(***************************************************************************)
EXTENDS Integers, TLAPS, WellFoundedInduction

\* Induction: the least number that is not in the set has a predecessor there.
LEMMA Induction ==
  ASSUME NEW S, 0 \in S, \A n \in Nat : n \in S => n + 1 \in S
  PROVE  Nat \subseteq S
<1> DEFINE T == Nat \ S
           R == OpToRel(<, Nat)
<1>1. SUFFICES ASSUME T # {} PROVE FALSE
  OBVIOUS
<1>2. PICK x \in T : \A y \in T : ~(<<y, x>> \in R)
  <2>1. T \subseteq Nat
    OBVIOUS
  <2> HIDE DEF R, T
  <2>2. IsWellFoundedOn(R, Nat)
    BY NatLessThanWellFounded DEF R
  <2> QED  BY <1>1, <2>1, <2>2, WFMin
<1>3. \A y \in T : ~(y < x)
  BY <1>2 DEF OpToRel
<1>4. x # 0 /\ x - 1 \in Nat /\ x - 1 < x
  OBVIOUS
<1>5. x - 1 \in S
  BY <1>3, <1>4
<1> QED  BY <1>4, <1>5

\* Induction up to a bound.
LEMMA InductionUpTo ==
  ASSUME NEW N \in Nat, NEW S, 0 \in S,
         \A n \in 0..N : n < N /\ n \in S => n + 1 \in S
  PROVE  \A n \in 0..N : n \in S
<1> DEFINE T == {n \in Nat : n \in 0..N => n \in S}
<1>1. 0 \in T /\ \A n \in Nat : n \in T => n + 1 \in T
  OBVIOUS
<1>2. Nat \subseteq T
  <2> HIDE DEF T
  <2> QED  BY <1>1, Induction
<1> QED  BY <1>2

\* A recursion from 0 to N: where it starts, and a function for each step.
IsRecursion(N, V, base, step) ==
  N \in Nat /\ base \in V /\ step \in [1..N -> [V -> V]]

SolvesRecursion(f, N, V, base, step) ==
  /\ f \in [0..N -> V]
  /\ f[0] = base
  /\ \A n \in 1..N : f[n] = step[n][f[n - 1]]

\* It has a solution.
LEMMA RecursionSolved ==
  ASSUME NEW N, NEW V, NEW base, NEW step, IsRecursion(N, V, base, step)
  PROVE  \E f : SolvesRecursion(f, N, V, base, step)
<1> USE DEF IsRecursion
<1> DEFINE Solves(m, f) == f[0] = base /\ \A n \in 1..m : f[n] = step[n][f[n - 1]]
           S == {m \in 0..N : \E f \in [0..m -> V] : Solves(m, f)}
<1>1. 0 \in S
  <2>1. [n \in 0..0 |-> base] \in [0..0 -> V] /\ Solves(0, [n \in 0..0 |-> base])
    OBVIOUS
  <2>2. \E f \in [0..0 -> V] : Solves(0, f)
    BY <2>1
  <2> QED  BY <2>2
<1>2. ASSUME NEW m \in 0..N, m < N, m \in S
      PROVE  m + 1 \in S
  <2>1. PICK f \in [0..m -> V] : Solves(m, f)
    BY <1>2
  <2> DEFINE g == [n \in 0..(m + 1) |-> IF n = m + 1 THEN step[m + 1][f[m]] ELSE f[n]]
  <2>2. m + 1 \in 1..N /\ f[m] \in V
    BY <1>2
  <2>3. step[m + 1][f[m]] \in V
    BY <2>2
  <2>4. g \in [0..(m + 1) -> V]
    BY <2>3
  <2>5. g[m + 1] = step[m + 1][f[m]] /\ \A n \in 0..m : g[n] = f[n]
    OBVIOUS
  <2>6. Solves(m + 1, g)
    <3> HIDE DEF g
    <3>1. \A n \in 1..m : g[n] = f[n] /\ g[n - 1] = f[n - 1]
      BY <2>5
    <3>2. g[0] = base
      BY <2>1, <2>5
    <3>3. ASSUME NEW n \in 1..(m + 1) PROVE g[n] = step[n][g[n - 1]]
      <4>1. CASE n \in 1..m
        BY <2>1, <3>1, <4>1
      <4>2. CASE n = m + 1
        BY <2>5, <4>2
      <4> QED  BY <4>1, <4>2
    <3> QED  BY <3>2, <3>3
  <2>7. \E h \in [0..(m + 1) -> V] : Solves(m + 1, h)
    <3> HIDE DEF g, Solves
    <3> QED  BY <2>4, <2>6
  <2> QED  BY <2>2, <2>7
<1>3. N \in S
  <2>1. \A m \in 0..N : m < N /\ m \in S => m + 1 \in S
    BY <1>2
  <2> HIDE DEF S
  <2>2. \A m \in 0..N : m \in S
    BY <1>1, <2>1, InductionUpTo
  <2> QED  BY <2>2
<1> QED  BY <1>3 DEF SolvesRecursion

\* One step for all numbers.
RunsOnNat(f, V, base, turn) ==
  /\ f \in [Nat -> V]
  /\ f[0] = base
  /\ \A n \in Nat : f[n + 1] = turn[f[n]]

LEMMA RecursionOnNat ==
  ASSUME NEW V, NEW base \in V, NEW turn, turn \in [V -> V]
  PROVE  \E f : RunsOnNat(f, V, base, turn)
<1> DEFINE Runs(g, N) == /\ g \in [0..N -> V] /\ g[0] = base
                         /\ \A n \in 0..N : n < N => g[n + 1] = turn[g[n]]
           run(N) == CHOOSE g : Runs(g, N)
           f == [n \in Nat |-> run(n)[n]]
<1>1. ASSUME NEW N \in Nat PROVE Runs(run(N), N)
  <2> DEFINE step == [n \in 1..N |-> turn]
  <2>1. IsRecursion(N, V, base, step)
    BY DEF IsRecursion
  <2>2. PICK g : SolvesRecursion(g, N, V, base, step)
    BY <2>1, RecursionSolved
  <2>3. g \in [0..N -> V] /\ g[0] = base /\ \A n \in 1..N : g[n] = turn[g[n - 1]]
    BY <2>2 DEF SolvesRecursion
  <2>4. ASSUME NEW n \in 0..N, n < N PROVE g[n + 1] = turn[g[n]]
    <3>1. n + 1 \in 1..N /\ (n + 1) - 1 = n
      BY <2>4
    <3> QED  BY <2>3, <3>1
  <2>5. Runs(g, N)
    BY <2>3, <2>4
  <2> HIDE DEF Runs
  <2> QED  BY <2>5
<1>2. ASSUME NEW N \in Nat, NEW g, NEW h, Runs(g, N), Runs(h, N + 1)
      PROVE  \A n \in 0..N : g[n] = h[n]
  <2> DEFINE S == {n \in 0..N : g[n] = h[n]}
  <2>1. 0 \in S
    BY <1>2
  <2>2. \A n \in 0..N : n < N /\ n \in S => n + 1 \in S
    BY <1>2
  <2> HIDE DEF S
  <2>3. \A n \in 0..N : n \in S
    BY <2>1, <2>2, InductionUpTo
  <2> QED  BY <2>3 DEF S
<1>3. f \in [Nat -> V]
  <2>1. ASSUME NEW n \in Nat PROVE run(n)[n] \in V
    <3>1. Runs(run(n), n)
      BY <1>1
    <3> HIDE DEF run
    <3>2. run(n) \in [0..n -> V] /\ n \in 0..n
      BY <3>1
    <3> QED  BY <3>2
  <2> HIDE DEF run
  <2> QED  BY <2>1
<1>4. f[0] = base
  <2>1. Runs(run(0), 0)
    BY <1>1
  <2> HIDE DEF run
  <2> QED  BY <2>1
<1>5. ASSUME NEW n \in Nat PROVE f[n + 1] = turn[f[n]]
  <2> HIDE DEF run, Runs
  <2>1. n + 1 \in Nat /\ Runs(run(n), n) /\ Runs(run(n + 1), n + 1)
    BY <1>1
  <2>2. f[n] = run(n)[n] /\ f[n + 1] = run(n + 1)[n + 1]
    OBVIOUS
  <2>3. run(n)[n] = run(n + 1)[n]
    BY <1>2, <2>1
  <2>4. n \in 0..(n + 1) /\ n < n + 1
    OBVIOUS
  <2>5. run(n + 1)[n + 1] = turn[run(n + 1)[n]]
    BY <2>1, <2>4 DEF Runs
  <2> QED  BY <2>2, <2>3, <2>5
<1> HIDE DEF f
<1> QED  BY <1>3, <1>4, <1>5 DEF RunsOnNat
=============================================================================
