------------------------------ MODULE Induction ------------------------------
(***************************************************************************)
(* Induction over the natural numbers for facts that are given as sets,    *)
(* and the existence of a function that is defined by recursion: what the  *)
(* proofs about loops and conversions rest on.                             *)
(***************************************************************************)
EXTENDS Integers, WellFoundedInduction, TLAPS

\* A set of natural numbers that has an element has a least one.
LEMMA Least ==
  ASSUME NEW T \in SUBSET Nat, T # {}
  PROVE  \E n \in T : \A m \in T : n <= m
  <1> DEFINE R == OpToRel(<, Nat)
  <1>1. \A x, y \in Nat : <<x, y>> \in R <=> x < y
    BY SMT DEF OpToRel
  <1>2. IsWellFoundedOn(R, Nat)
    BY NatLessThanWellFounded
  <1> HIDE DEF R
  <1>3. PICK n \in T : \A m \in T : ~ (<<m, n>> \in R)
    BY <1>2, WFMin
  <1>4. ASSUME NEW m \in T PROVE n <= m
    <2>1. ~(m < n)
      BY <1>1, <1>3
    <2> QED BY <2>1, SMT
  <1> QED BY <1>4

\* What holds of 0, and of m + 1 when it holds of m < n, holds of n.
LEMMA UpTo ==
  ASSUME NEW T, NEW n \in Nat, 0 \in T, \A m \in 0..(n - 1) : m \in T => m + 1 \in T
  PROVE  n \in T
  <1> SUFFICES ASSUME n \notin T PROVE FALSE
    OBVIOUS
  <1> DEFINE U == {m \in Nat : m <= n /\ m \notin T}
  <1>1. PICK k \in U : \A m \in U : k <= m
    <2>1. n \in U
      BY SMT
    <2>2. U \in SUBSET Nat
      OBVIOUS
    <2> HIDE DEF U
    <2> QED BY <2>1, <2>2, Least
  <1>2. k # 0 /\ k \in Nat /\ k <= n /\ k \notin T
    BY <1>1
  <1>3. k - 1 \in 0..(n - 1) /\ k - 1 \notin U
    BY <1>1, <1>2, SMT
  <1>4. k - 1 \in T
    BY <1>2, <1>3, SMT
  <1>5. (k - 1) + 1 = k
    BY <1>2, SMT
  <1> QED BY <1>2, <1>3, <1>4, <1>5

\* What holds of n when it holds of every smaller number holds of every number.
LEMMA FromBelow ==
  ASSUME NEW T, \A n \in Nat : (\A m \in 0..(n - 1) : m \in T) => n \in T
  PROVE  \A n \in Nat : n \in T
  <1> SUFFICES ASSUME NEW n \in Nat, n \notin T PROVE FALSE
    OBVIOUS
  <1> DEFINE U == {m \in Nat : m \notin T}
  <1>1. PICK k \in U : \A m \in U : k <= m
    BY Least
  <1>2. ASSUME NEW m \in 0..(k - 1) PROVE m \in T
    <2>1. m \in Nat /\ ~(k <= m)
      BY <1>1, SMT
    <2> QED BY <1>1, <2>1
  <1> QED BY <1>1, <1>2

\* A recursive definition on Nat: the value at a number is given by base, or
\* else by step from the value at a smaller number, its parent.
Recursive(S, Base, base, parent, step) ==
  /\ \A i \in Base : base[i] \in S
  /\ \A i \in Nat \ Base : parent[i] \in Nat /\ parent[i] < i
  /\ \A i \in Nat \ Base : \A s \in S : step[<<i, s>>] \in S

Equation(f, i, Base, base, parent, step) ==
  f[i] = IF i \in Base THEN base[i] ELSE step[<<i, f[parent[i]]>>]

\* f satisfies it below n, and everywhere.
Solves(f, n, Base, base, parent, step) ==
  \A i \in 0..(n - 1) : Equation(f, i, Base, base, parent, step)

Solution(f, Base, base, parent, step) ==
  \A i \in Nat : Equation(f, i, Base, base, parent, step)

\* They agree wherever they are solutions.
LEMMA SolutionsAgree ==
  ASSUME NEW Base, NEW base, NEW parent, NEW step,
         NEW S, Recursive(S, Base, base, parent, step),
         NEW n \in Nat, NEW m \in Nat, NEW f, NEW g,
         Solves(f, n, Base, base, parent, step), Solves(g, m, Base, base, parent, step)
  PROVE  \A i \in Nat : i < n /\ i < m => f[i] = g[i]
  <1> DEFINE T == {i \in Nat : i < n /\ i < m => f[i] = g[i]}
  <1>1. ASSUME NEW i \in Nat, \A j \in 0..(i - 1) : j \in T PROVE i \in T
    <2> SUFFICES ASSUME i < n, i < m PROVE f[i] = g[i]
      OBVIOUS
    <2>1. i \in 0..(n - 1) /\ i \in 0..(m - 1)
      BY SMT
    <2>2. CASE i \in Base
      BY <2>1, <2>2 DEF Solves, Equation
    <2>3. CASE i \notin Base
      <3> DEFINE j == parent[i]
      <3>1. j \in Nat /\ j < i
        BY <2>3 DEF Recursive
      <3> HIDE DEF j
      <3>2. j \in 0..(i - 1) /\ j < n /\ j < m
        BY <3>1, SMT
      <3>3. f[j] = g[j]
        BY <1>1, <3>2
      <3> QED BY <2>1, <2>3, <3>3 DEF Solves, Equation, j
    <2> QED BY <2>2, <2>3
  <1>2. \A i \in Nat : i \in T
    <2> HIDE DEF T
    <2> QED BY <1>1, FromBelow
  <1> QED BY <1>2

\* There is one below every number.
LEMMA SolutionBelow ==
  ASSUME NEW S, NEW Base, NEW base, NEW parent, NEW step,
         Recursive(S, Base, base, parent, step),
         NEW n \in Nat
  PROVE  \E f \in [0..(n - 1) -> S] : Solves(f, n, Base, base, parent, step)
  <1> DEFINE T == {m \in Nat : \E f \in [0..(m - 1) -> S] :
                                 Solves(f, m, Base, base, parent, step)}
  <1>1. 0 \in T
    <2> DEFINE f == [i \in 0..(0 - 1) |-> base[i]]
    <2>1. 0..(0 - 1) = {}
      BY SMT
    <2>2. f \in [0..(0 - 1) -> S]
      BY <2>1
    <2>3. Solves(f, 0, Base, base, parent, step)
      BY <2>1 DEF Solves, Equation
    <2> HIDE DEF f
    <2> QED BY <2>2, <2>3
  <1>2. ASSUME NEW m \in 0..(n - 1), m \in T PROVE m + 1 \in T
    <2>1. m \in Nat /\ m + 1 \in Nat /\ 0..((m + 1) - 1) = (0..(m - 1)) \cup {m}
          /\ m \notin 0..(m - 1)
      BY SMT
    <2>2. PICK f \in [0..(m - 1) -> S] : Solves(f, m, Base, base, parent, step)
      BY <1>2
    <2> DEFINE last == IF m \in Base THEN base[m] ELSE step[<<m, f[parent[m]]>>]
               g == [i \in 0..((m + 1) - 1) |-> IF i = m THEN last ELSE f[i]]
    <2>3. ASSUME NEW i \in 0..m, i \notin Base
          PROVE  parent[i] \in 0..(m - 1) /\ g[parent[i]] = f[parent[i]]
      <3> DEFINE j == parent[i]
      <3>1. j \in Nat /\ j < i
        BY <2>1, <2>3, SMT DEF Recursive
      <3> HIDE DEF j
      <3>2. j \in 0..(m - 1)
        BY <3>1, SMT
      <3> QED BY <2>1, <3>2 DEF j
    <2>4. last \in S
      <3>1. CASE m \in Base
        BY <3>1 DEF Recursive
      <3>2. CASE m \notin Base
        <4>1. m \in 0..m
          BY SMT
        <4>2. f[parent[m]] \in S
          BY <2>3, <3>2, <4>1
        <4> QED BY <2>1, <3>2, <4>2 DEF Recursive
      <3> QED BY <3>1, <3>2
    <2> HIDE DEF last
    <2>5. g \in [0..((m + 1) - 1) -> S]
      BY <2>1, <2>4
    <2>6. ASSUME NEW i \in 0..((m + 1) - 1)
          PROVE  g[i] = IF i \in Base THEN base[i] ELSE step[<<i, g[parent[i]]>>]
      <3>1. i \in 0..m
        BY SMT
      <3>2. CASE i = m
        <4>1. g[i] = last
          BY <3>2
        <4>2. i \notin Base => g[parent[i]] = f[parent[i]]
          BY <2>3, <3>1
        <4> HIDE DEF g
        <4> QED BY <3>2, <4>1, <4>2 DEF last
      <3>3. CASE i # m
        <4>1. g[i] = f[i] /\ i \in 0..(m - 1)
          BY <2>1, <3>3
        <4>2. i \notin Base => g[parent[i]] = f[parent[i]]
          BY <2>3, <3>1
        <4> HIDE DEF g
        <4> QED BY <2>2, <4>1, <4>2 DEF Solves, Equation
      <3> QED BY <3>2, <3>3
    <2> HIDE DEF g
    <2>7. Solves(g, m + 1, Base, base, parent, step)
      BY <2>6 DEF Solves, Equation
    <2> QED BY <2>1, <2>5, <2>7
  <1>3. n \in T
    <2> HIDE DEF T
    <2> QED BY <1>1, <1>2, UpTo
  <1> QED BY <1>3

\* So there is one on all of Nat, and the function of the definition exists.
LEMMA Recursion ==
  ASSUME NEW S, NEW Base, NEW base, NEW parent, NEW step,
         Recursive(S, Base, base, parent, step)
  PROVE  \E f \in [Nat -> S] : Solution(f, Base, base, parent, step)
  <1> DEFINE below(n) == CHOOSE f \in [0..(n - 1) -> S] :
                            Solves(f, n, Base, base, parent, step)
             F == [i \in Nat |-> below(i + 1)[i]]
  <1>1. ASSUME NEW n \in Nat
        PROVE  below(n) \in [0..(n - 1) -> S] /\ Solves(below(n), n, Base, base, parent, step)
    <2>1. \E f \in [0..(n - 1) -> S] : Solves(f, n, Base, base, parent, step)
      BY SolutionBelow
    <2> QED BY <2>1
  <1> HIDE DEF below
  <1>2. ASSUME NEW i \in Nat PROVE i + 1 \in Nat /\ i \in 0..((i + 1) - 1) /\ i < i + 1
    BY SMT
  <1>3. ASSUME NEW i \in Nat, NEW j \in Nat, j < i PROVE F[j] = below(i + 1)[j]
    <2>1. j < j + 1 /\ j < i + 1 /\ i + 1 \in Nat /\ j + 1 \in Nat
      BY <1>3, SMT
    <2>2. below(j + 1)[j] = below(i + 1)[j]
      BY <1>1, <2>1, SolutionsAgree
    <2> QED BY <2>2
  <1>4. F \in [Nat -> S]
    BY <1>1, <1>2
  <1>5. ASSUME NEW i \in Nat
        PROVE  F[i] = IF i \in Base THEN base[i] ELSE step[<<i, F[parent[i]]>>]
    <2>1. below(i + 1)[i] = IF i \in Base THEN base[i]
                            ELSE step[<<i, below(i + 1)[parent[i]]>>]
      BY <1>1, <1>2 DEF Solves, Equation
    <2>2. F[i] = below(i + 1)[i]
      OBVIOUS
    <2>3. i \notin Base => F[parent[i]] = below(i + 1)[parent[i]]
      BY <1>3 DEF Recursive
    <2> HIDE DEF F
    <2> QED BY <2>1, <2>2, <2>3
  <1> HIDE DEF F
  <1> QED BY <1>4, <1>5 DEF Solution, Equation

=============================================================================
