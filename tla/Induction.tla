------------------------------ MODULE Induction ------------------------------
(***************************************************************************)
(* Induction and recursion over the naturals, stated about sets and        *)
(* functions instead of operators: so stated, the facts can be applied to  *)
(* the loops of the models.                                                *)
(***************************************************************************)
EXTENDS Naturals, WellFoundedInduction, TLAPS

NatLess == {p \in Nat \X Nat : p[1] < p[2]}

LEMMA LessIsWellFounded == IsWellFoundedOn(NatLess, Nat)
BY NatLessThanWellFounded DEF OpToRel, NatLess

\* A set that contains 0 and with each number the next one contains them all.
LEMMA SetInduction ==
  ASSUME NEW T, 0 \in T, \A n \in Nat : n \in T => n + 1 \in T
  PROVE  Nat \subseteq T
<1> DEFINE Missing == Nat \ T
<1> SUFFICES ASSUME Missing # {} PROVE FALSE
  OBVIOUS
<1>1. PICK x \in Missing : \A y \in Missing : <<y, x>> \notin NatLess
  <2> HIDE DEF Missing
  <2>1. Missing \subseteq Nat
    BY DEF Missing
  <2> QED BY <2>1, WFMin, LessIsWellFounded
<1>2. x - 1 \in Nat /\ x - 1 < x
  OBVIOUS
<1>3. <<x - 1, x>> \in NatLess
  BY <1>2 DEF NatLess
<1>4. x - 1 \in T
  BY <1>1, <1>2, <1>3
<1> QED BY <1>2, <1>4

\* The same up to a bound.
LEMMA BoundedInduction ==
  ASSUME NEW N \in Nat, NEW T, 0 \in T,
         \A n \in Nat : n < N /\ n \in T => n + 1 \in T
  PROVE  0 .. N \subseteq T
<1> DEFINE U == {n \in Nat : n <= N => n \in T}
<1>1. 0 \in U
  OBVIOUS
<1>2. \A n \in Nat : n \in U => n + 1 \in U
  OBVIOUS
<1>3. Nat \subseteq U
  <2> HIDE DEF U
  <2> QED BY <1>1, <1>2, SetInduction
<1> QED BY <1>3

\* The same for the rounds 1 .. N of a loop.
LEMMA RoundInduction ==
  ASSUME NEW N \in Nat, NEW T, 0 \in T, \A i \in 1 .. N : i - 1 \in T => i \in T
  PROVE  0 .. N \subseteq T
<1>1. ASSUME NEW n \in Nat, n < N, n \in T PROVE n + 1 \in T
  <2>1. n + 1 \in 1 .. N /\ (n + 1) - 1 = n
    BY <1>1
  <2> QED BY <1>1, <2>1
<1> QED BY <1>1, BoundedInduction

\* f begins with start and goes on with step.
Iterates(f, S, start, step) ==
    /\ f \in [Nat -> S]
    /\ f[0] = start
    /\ \A n \in Nat : f[n + 1] = step[n][f[n]]

\* A start and a step have a sequence that begins with the one and goes on with
\* the other.
LEMMA RecursionExists ==
  ASSUME NEW S, NEW start \in S, NEW step \in [Nat -> [S -> S]]
  PROVE  \E f : Iterates(f, S, start, step)
<1> SUFFICES \E f \in [Nat -> S] : /\ f[0] = start
                                   /\ \A n \in Nat : f[n + 1] = step[n][f[n]]
  BY DEF Iterates
<1> DEFINE Approximates(a, n) ==
             /\ a \in [0 .. n -> S]
             /\ a[0] = start
             /\ \A k \in Nat : k < n => a[k + 1] = step[k][a[k]]
           T == {n \in Nat : \E a : Approximates(a, n)}
<1>1. 0 \in T
  <2>1. Approximates([k \in 0 .. 0 |-> start], 0)
    OBVIOUS
  <2> QED BY <2>1
<1>2. ASSUME NEW n \in Nat, n \in T
      PROVE  n + 1 \in T
  <2>1. PICK a : Approximates(a, n)
    BY <1>2
  <2> DEFINE c == [k \in 0 .. n + 1 |-> IF k = n + 1 THEN step[n][a[n]] ELSE a[k]]
  <2>2. step[n][a[n]] \in S
    BY <2>1
  <2>3. c \in [0 .. n + 1 -> S] /\ c[0] = start
    BY <2>1, <2>2
  <2>4. \A k \in Nat : k < n + 1 => c[k + 1] = step[k][c[k]]
    BY <2>1
  <2>5. Approximates(c, n + 1)
    BY <2>3, <2>4
  <2> HIDE DEF c, Approximates
  <2> QED BY <2>5
<1>3. Nat \subseteq T
  <2> HIDE DEF T
  <2> QED BY <1>1, <1>2, SetInduction
<1> DEFINE A == [n \in Nat |-> CHOOSE a : Approximates(a, n)]
<1>4. \A n \in Nat : Approximates(A[n], n)
  <2> SUFFICES ASSUME NEW n \in Nat PROVE Approximates(A[n], n)
    OBVIOUS
  <2>1. \E a : Approximates(a, n)
    BY <1>3
  <2>2. A[n] = CHOOSE a : Approximates(a, n)
    OBVIOUS
  <2> HIDE DEF A, Approximates
  <2> QED BY <2>1, <2>2
<1>5. ASSUME NEW n \in Nat, NEW m \in Nat, m <= n
      PROVE  A[n][m] = A[m][m]
  <2> DEFINE U == {k \in Nat : k <= m => A[n][k] = A[m][k]}
  <2> HIDE DEF A
  <2>1. 0 \in U
    BY <1>4
  <2>2. ASSUME NEW k \in Nat, k \in U PROVE k + 1 \in U
    BY <1>4, <1>5, <2>2
  <2>3. Nat \subseteq U
    <3> HIDE DEF U
    <3> QED BY <2>1, <2>2, SetInduction
  <2> QED BY <2>3
<1> DEFINE f == [n \in Nat |-> A[n][n]]
<1> HIDE DEF A
<1>6. f \in [Nat -> S] /\ f[0] = start
  BY <1>4
<1>7. ASSUME NEW n \in Nat PROVE f[n + 1] = step[n][f[n]]
  <2>1. A[n + 1][n + 1] = step[n][A[n + 1][n]]
    BY <1>4
  <2>2. A[n + 1][n] = A[n][n]
    BY <1>5
  <2> QED BY <2>1, <2>2
<1> QED BY <1>6, <1>7

\* A set of naturals that is not empty has a least member.
LEMMA LeastExists ==
  ASSUME NEW T, T \subseteq Nat, T # {}
  PROVE  \E m \in T : \A k \in T : m <= k
<1>1. PICK m \in T : \A k \in T : <<k, m>> \notin NatLess
  BY WFMin, LessIsWellFounded
<1>2. ASSUME NEW k \in T PROVE m <= k
  <2>1. ~(k < m)
    BY <1>1 DEF NatLess
  <2> QED BY <2>1
<1> QED BY <1>2

\* f[i] is the state after i rounds of a loop, whose i-th round is round[i].
Rounds(f, S, first, n, round) ==
    /\ f \in [0 .. n -> S]
    /\ f[0] = first
    /\ \A i \in 1 .. n : f[i] = round[i][f[i - 1]]

LEMMA LoopExists ==
  ASSUME NEW S, NEW first \in S, NEW n \in Nat, NEW round \in [1 .. n -> [S -> S]]
  PROVE  \E f : Rounds(f, S, first, n, round)
<1> DEFINE step == [k \in Nat |-> IF k < n THEN round[k + 1] ELSE [c \in S |-> c]]
<1>1. step \in [Nat -> [S -> S]]
  <2>1. ASSUME NEW k \in Nat
        PROVE  (IF k < n THEN round[k + 1] ELSE [c \in S |-> c]) \in [S -> S]
    <3>1. k < n => k + 1 \in 1 .. n
      OBVIOUS
    <3>2. [c \in S |-> c] \in [S -> S]
      OBVIOUS
    <3> QED BY <3>1, <3>2
  <2> QED BY <2>1
<1>2. \E f : Iterates(f, S, first, step)
  <2> HIDE DEF step
  <2> QED BY <1>1, RecursionExists
<1>3. PICK f \in [Nat -> S] : f[0] = first /\ \A k \in Nat : f[k + 1] = step[k][f[k]]
  BY <1>2 DEF Iterates
<1> DEFINE g == [i \in 0 .. n |-> f[i]]
<1>4. g \in [0 .. n -> S] /\ g[0] = first
  BY <1>3
<1>5. ASSUME NEW i \in 1 .. n PROVE g[i] = round[i][g[i - 1]]
  <2>1. i - 1 \in Nat /\ i - 1 < n /\ (i - 1) + 1 = i
    OBVIOUS
  <2>2. f[i] = step[i - 1][f[i - 1]]
    BY <1>3, <2>1
  <2>3. step[i - 1] = round[i]
    BY <2>1
  <2> QED BY <2>2, <2>3
<1>6. Rounds(g, S, first, n, round)
  BY <1>4, <1>5 DEF Rounds
<1> QED BY <1>6

\* What every round of a loop keeps holds after each of them.
LEMMA LoopKeeps ==
  ASSUME NEW S, NEW n \in Nat, NEW done, done[0] \in S,
         \A i \in 1 .. n : done[i - 1] \in S => done[i] \in S
  PROVE  \A i \in 0 .. n : done[i] \in S
<1> DEFINE T == {i \in 0 .. n : done[i] \in S}
<1>1. 0 \in T
  OBVIOUS
<1>2. ASSUME NEW i \in Nat, i < n, i \in T PROVE i + 1 \in T
  <2>1. i + 1 \in 1 .. n /\ (i + 1) - 1 = i
    BY <1>2
  <2> QED BY <1>2, <2>1
<1>3. 0 .. n \subseteq T
  <2> HIDE DEF T
  <2> QED BY <1>1, <1>2, BoundedInduction
<1> QED BY <1>3
=============================================================================
