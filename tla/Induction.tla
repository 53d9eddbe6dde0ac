----------------------------- MODULE Induction -----------------------------
(***************************************************************************)
(* Induction and recursion over the naturals, with a set or a function in  *)
(* place of the operator that the library's theorems take.                 *)
(***************************************************************************)
EXTENDS Integers, Sequences, WellFoundedInduction, TLAPS

\* A set of naturals has a least element.
LEMMA LeastNat ==
  ASSUME NEW T, T \subseteq Nat, T # {}
  PROVE  \E n \in T : \A m \in T : n <= m
<1>1. PICK n \in T : \A m \in T : <<m, n>> \notin OpToRel(<, Nat)
  BY NatLessThanWellFounded, WFMin, Zenon
<1>2. \A m \in T : ~(m < n)
  BY <1>1, Zenon DEF OpToRel
<1> QED
  BY <1>2

\* Induction up to n: what holds for zero and passes on to each successor.
LEMMA UpTo ==
  ASSUME NEW n \in Nat, NEW T, 0 \in T, \A i \in 1..n : i - 1 \in T => i \in T
  PROVE  0..n \subseteq T
<1> DEFINE Bad == {i \in 0..n : i \notin T}
<1>1. SUFFICES ASSUME Bad # {} PROVE FALSE
  OBVIOUS
<1>2. PICK m \in Bad : \A k \in Bad : m <= k
  <2>1. Bad \subseteq Nat
    OBVIOUS
  <2> QED
    BY <1>1, <2>1, LeastNat
<1>3. m \in 1..n /\ m \notin T
  BY <1>2
<1>4. m - 1 \in 0..n /\ m - 1 \notin Bad
  BY <1>2, <1>3
<1>5. m - 1 \in T
  BY <1>4
<1> QED
  BY <1>3, <1>5

\* The function that h makes of c, step by step.
StepFunction(S, h) == h \in [Nat \X S -> S]
Iterates(f, S, c, h, n) ==
  /\ f \in [0..n -> S]
  /\ f[0] = c /\ \A i \in 1..n : f[i] = h[<<i, f[i - 1]>>]

\* Recursion up to n: such a function exists.
LEMMA Iteration ==
  ASSUME NEW S, NEW c, NEW h, NEW n, c \in S, StepFunction(S, h), n \in Nat
  PROVE  \E f : Iterates(f, S, c, h, n)
<1> DEFINE Good(m) == \E f : Iterates(f, S, c, h, m)
           T == {m \in Nat : Good(m)}
<1>0. h \in [Nat \X S -> S]
  BY DEF StepFunction
<1>1. Good(0)
  <2> DEFINE f == [i \in 0..0 |-> c]
  <2>1. Iterates(f, S, c, h, 0)
    BY DEF Iterates
  <2> QED
    BY <2>1
<1>2. ASSUME NEW m \in Nat, Good(m)
      PROVE  Good(m + 1)
  <2>1. PICK f : Iterates(f, S, c, h, m)
    BY <1>2
  <2>0. /\ f \in [0..m -> S] /\ f[0] = c
        /\ \A i \in 1..m : f[i] = h[<<i, f[i - 1]>>]
    BY <2>1 DEF Iterates
  <2> DEFINE g == [i \in 0..(m + 1) |-> IF i = m + 1 THEN h[<<m + 1, f[m]>>] ELSE f[i]]
  <2>2. f[m] \in S /\ <<m + 1, f[m]>> \in Nat \X S
    BY <2>0
  <2>3. g \in [0..(m + 1) -> S] /\ g[0] = c
    BY <1>0, <2>0, <2>2
  <2>5. ASSUME NEW i \in 1..(m + 1)
        PROVE  g[i] = h[<<i, g[i - 1]>>]
    <3>1. CASE i = m + 1
      <4>1. g[i] = h[<<i, f[m]>>] /\ i - 1 = m /\ g[m] = f[m]
        BY <3>1
      <4> QED
        BY <4>1
    <3>2. CASE i \in 1..m
      <4>1. g[i] = f[i] /\ g[i - 1] = f[i - 1]
        BY <3>2
      <4> QED
        BY <2>0, <3>2, <4>1
    <3> QED
      BY <3>1, <3>2
  <2> HIDE DEF g
  <2>6. Iterates(g, S, c, h, m + 1)
    BY <2>3, <2>5 DEF Iterates
  <2> QED
    BY <2>6
<1> HIDE DEF Good
<1>3. 0 \in T /\ \A i \in 1..n : i - 1 \in T => i \in T
  <2>1. ASSUME NEW i \in 1..n, i - 1 \in T PROVE i \in T
    <3>1. i - 1 \in Nat /\ Good(i - 1) /\ (i - 1) + 1 = i
      BY <2>1
    <3> QED
      BY <3>1, <1>2
  <2> QED
    BY <1>1, <2>1
<1>4. n \in T
  <2> HIDE DEF T
  <2>1. 0..n \subseteq T
    BY <1>3, UpTo
  <2> QED
    BY <2>1
<1> QED
  BY <1>4 DEF Good

=============================================================================
