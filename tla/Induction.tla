----------------------------- MODULE Induction -----------------------------
(***************************************************************************)
(* Induction over numbers and finite sets, stated of sets of numbers or    *)
(* points, so that a proof can cite it.  The principle behind all of it is *)
(* that a set of natural numbers has a least element.                      *)
(***************************************************************************)
EXTENDS Integers, FiniteSets, FiniteSetTheorems, TLAPS

\* A set of natural numbers that is not empty has a least element.
LEMMA LeastElement ==
  ASSUME NEW S \in SUBSET Nat, S # {}
  PROVE  \E m \in S : \A n \in S : m <= n
<1> DEFINE R == OpToRel(<, Nat)
<1>1. IsWellFoundedOn(R, Nat)
  BY NatLessThanWellFounded
<1>2. R = {p \in Nat \X Nat : p[1] < p[2]}
  BY DEF OpToRel
<1> HIDE DEF R
<1>3. \E m \in S : \A n \in S : <<n, m>> \notin R
  BY <1>1, WFMin
<1>4. PICK m \in S : \A n \in S : <<n, m>> \notin R
  BY <1>3
<1>5. \A n \in S : ~(n < m)
  BY <1>2, <1>4
<1> QED BY <1>4, <1>5

\* What is true of 0 and, with n, of n + 1 is true of all.
LEMMA SetInduction ==
  ASSUME NEW T, 0 \in T, \A n \in Nat : n \in T => n + 1 \in T
  PROVE  Nat \subseteq T
<1> SUFFICES ASSUME Nat \ T # {} PROVE FALSE
  OBVIOUS
<1>1. PICK m \in Nat \ T : \A n \in Nat \ T : m <= n
  BY LeastElement
<1>2. m # 0 /\ m - 1 \in Nat /\ m - 1 \in T
  BY <1>1
<1> QED BY <1>1, <1>2

\* The same up to a bound.
LEMMA IntervalInduction ==
  ASSUME NEW low \in Nat, NEW high \in Nat, NEW T, low \in T,
         \A n \in low..(high - 1) : n \in T => n + 1 \in T
  PROVE  low..high \subseteq T
<1> SUFFICES ASSUME (low..high) \ T # {} PROVE FALSE
  OBVIOUS
<1>1. PICK m \in (low..high) \ T : \A n \in (low..high) \ T : m <= n
  <2>1. (low..high) \ T \in SUBSET Nat
    OBVIOUS
  <2> QED BY <2>1, LeastElement
<1>2. m # low /\ m - 1 \in low..(high - 1) /\ m - 1 \in T
  BY <1>1
<1> QED BY <1>1, <1>2

\* A finite set of natural numbers that is not empty has a largest element.
LEMMA LargestElement ==
  ASSUME NEW S \in SUBSET Nat, IsFiniteSet(S), S # {}
  PROVE  \E m \in S : \A n \in S : n <= m
<1>1. PICK size \in Nat : ExistsSurjection(1..size, S)
  BY FS_NatSurjection
<1>2. PICK f \in [1..size -> S] : \A x \in S : \E i \in 1..size : f[i] = x
  BY <1>1 DEF ExistsSurjection, Surjection
<1> DEFINE Bounded == {k \in Nat : \E b \in Nat : \A i \in 1..size : i <= k => f[i] <= b}
           Bounds == {b \in Nat : \A x \in S : x <= b}
<1>3. Nat \subseteq Bounded
  <2>1. 0 \in Bounded
    OBVIOUS
  <2>2. ASSUME NEW k \in Nat, k \in Bounded PROVE k + 1 \in Bounded
    <3>1. PICK b \in Nat : \A i \in 1..size : i <= k => f[i] <= b
      BY <2>2
    <3>2. CASE k + 1 \in 1..size
      <4>1. f[k + 1] \in Nat
        BY <1>2, <3>2
      <4>2. \A i \in 1..size : i <= k + 1 => f[i] <= b + f[k + 1]
        <5>1. \A i \in 1..size : f[i] \in Nat
          BY <1>2
        <5> QED BY <3>1, <4>1, <5>1
      <4>3. b + f[k + 1] \in Nat
        BY <4>1
      <4>4. \E c \in Nat : \A i \in 1..size : i <= k + 1 => f[i] <= c
        BY <4>2, <4>3
      <4> QED BY <4>4
    <3>3. CASE k + 1 \notin 1..size
      BY <3>1, <3>3
    <3> QED BY <3>2, <3>3
  <2> HIDE DEF Bounded
  <2> QED BY <2>1, <2>2, SetInduction
<1>4. Bounds # {}
  <2>1. PICK b \in Nat : \A i \in 1..size : i <= size => f[i] <= b
    BY <1>3
  <2>2. b \in Bounds
    BY <1>2, <2>1
  <2> QED BY <2>2
<1>5. PICK m \in Bounds : \A b \in Bounds : m <= b
  <2>1. Bounds \in SUBSET Nat
    OBVIOUS
  <2> HIDE DEF Bounds
  <2> QED BY <1>4, <2>1, LeastElement
<1>6. m \in S
  <2> SUFFICES ASSUME m \notin S PROVE FALSE
    OBVIOUS
  <2>1. m # 0
    <3>1. PICK x \in S : x \in Nat
      OBVIOUS
    <3> QED BY <1>5, <3>1
  <2>2. m - 1 \in Bounds
    BY <1>5, <2>1
  <2> QED BY <1>5, <2>1, <2>2
<1> QED BY <1>5, <1>6

\* The running sums of a sequence of numbers exist: a definition
\* f[i \in 0..n] == IF i = 0 THEN .. ELSE f[i - 1] + .. defines such a function.
LEMMA RunningSums ==
  ASSUME NEW n \in Nat, NEW step \in [0..n -> Int]
  PROVE  \E f \in [0..n -> Int] :
            f[0] = step[0] /\ \A i \in 1..n : f[i] = f[i - 1] + step[i]
<1> DEFINE Sums(f, m) == f[0] = step[0] /\ \A i \in 1..m : f[i] = f[i - 1] + step[i]
           Summed == {m \in 0..n : \E f \in [0..m -> Int] : Sums(f, m)}
<1>1. 0 \in Summed
  <2> DEFINE f == [i \in 0..0 |-> step[0]]
  <2>1. f \in [0..0 -> Int] /\ Sums(f, 0)
    OBVIOUS
  <2>2. \E g \in [0..0 -> Int] : Sums(g, 0)
    BY <2>1
  <2> QED BY <2>2
<1>2. ASSUME NEW m \in 0..(n - 1), m \in Summed PROVE m + 1 \in Summed
  <2>1. PICK f \in [0..m -> Int] : Sums(f, m)
    BY <1>2
  <2> DEFINE g == [i \in 0..(m + 1) |-> IF i = m + 1 THEN f[m] + step[m + 1] ELSE f[i]]
  <2>2. g \in [0..(m + 1) -> Int]
    BY <2>1
  <2>3. g[0] = step[0]
    BY <2>1
  <2>4. ASSUME NEW i \in 1..(m + 1) PROVE g[i] = g[i - 1] + step[i]
    <3>1. CASE i = m + 1
      BY <3>1
    <3>2. CASE i # m + 1
      <4>1. i \in 1..m /\ g[i] = f[i] /\ g[i - 1] = f[i - 1]
        BY <3>2
      <4> QED BY <2>1, <4>1
    <3> QED BY <3>1, <3>2
  <2> HIDE DEF g
  <2>5. \E h \in [0..(m + 1) -> Int] : Sums(h, m + 1)
    BY <2>2, <2>3, <2>4
  <2> HIDE DEF Sums
  <2> QED BY <2>5
<1>3. n \in Summed
  <2> HIDE DEF Summed
  <2>1. \A m \in 0..(n - 1) : m \in Summed => m + 1 \in Summed
    BY <1>2
  <2>2. 0..n \subseteq Summed
    BY <1>1, <2>1, IntervalInduction
  <2> QED BY <2>2
<1> QED BY <1>3

\* f is what n steps make of first, one by one.
Iterates(f, n, S, first, step) ==
  f \in [0..n -> S] /\ f[0] = first /\ \A i \in 1..n : f[i] = step[f[i - 1]]

\* A step can be taken again and again: a definition
\* f[i \in 0..n] == IF i = 0 THEN first ELSE step[f[i - 1]] defines what it says.
LEMMA Iteration ==
  ASSUME NEW n \in Nat, NEW S, NEW first \in S, NEW step \in [S -> S]
  PROVE  \E f : Iterates(f, n, S, first, step)
<1> DEFINE Steps(f, m) == f[0] = first /\ \A i \in 1..m : f[i] = step[f[i - 1]]
           Stepped == {m \in 0..n : \E f \in [0..m -> S] : Steps(f, m)}
<1>1. 0 \in Stepped
  <2> DEFINE f == [i \in 0..0 |-> first]
  <2>1. f \in [0..0 -> S] /\ Steps(f, 0)
    OBVIOUS
  <2>2. \E g \in [0..0 -> S] : Steps(g, 0)
    BY <2>1
  <2> QED BY <2>2
<1>2. ASSUME NEW m \in 0..(n - 1), m \in Stepped PROVE m + 1 \in Stepped
  <2>1. PICK f \in [0..m -> S] : Steps(f, m)
    BY <1>2
  <2> DEFINE g == [i \in 0..(m + 1) |-> IF i = m + 1 THEN step[f[m]] ELSE f[i]]
  <2>2. g \in [0..(m + 1) -> S]
    BY <2>1
  <2>3. g[0] = first
    BY <2>1
  <2>4. ASSUME NEW i \in 1..(m + 1) PROVE g[i] = step[g[i - 1]]
    <3>1. CASE i = m + 1
      BY <3>1
    <3>2. CASE i # m + 1
      <4>1. i \in 1..m /\ g[i] = f[i] /\ g[i - 1] = f[i - 1]
        BY <3>2
      <4> QED BY <2>1, <4>1
    <3> QED BY <3>1, <3>2
  <2> HIDE DEF g
  <2>5. \E h \in [0..(m + 1) -> S] : Steps(h, m + 1)
    BY <2>2, <2>3, <2>4
  <2> HIDE DEF Steps
  <2> QED BY <2>5
<1>3. n \in Stepped
  <2> HIDE DEF Stepped
  <2>1. \A m \in 0..(n - 1) : m \in Stepped => m + 1 \in Stepped
    BY <1>2
  <2>2. 0..n \subseteq Stepped
    BY <1>1, <2>1, IntervalInduction
  <2> QED BY <2>2
<1> QED BY <1>3 DEF Iterates

-----------------------------------------------------------------------------
(* Counting.                                                               *)

\* Products, as far as they are needed.
LEMMA Product ==
  ASSUME NEW a \in Nat, NEW b \in Nat
  PROVE  /\ a * b \in Nat
         /\ (a + 1) * b = a * b + b
         /\ \A c \in Nat : a <= c => a * b <= c * b
OBVIOUS

\* One element less.
LEMMA OneLess ==
  ASSUME NEW S, IsFiniteSet(S), NEW x \in S
  PROVE  /\ Cardinality(S) \in Nat /\ Cardinality(S \ {x}) \in Nat
         /\ Cardinality(S) = Cardinality(S \ {x}) + 1
<1>1. IsFiniteSet(S \ {x}) /\ Cardinality(S \ {x}) = Cardinality(S) - 1
  BY FS_RemoveElement
<1>2. Cardinality(S) \in Nat /\ Cardinality(S \ {x}) \in Nat
  BY <1>1, FS_CardinalityType
<1> QED BY <1>1, <1>2
=============================================================================
