---------------------------- MODULE MutatorProofs ----------------------------
(***************************************************************************)
(* Theorems about the mutator, for any buffer length, width of characters, *)
(* hash function and number of mutations.                                  *)
(***************************************************************************)
EXTENDS Mutator, Induction, FiniteSetTheorems

(***************************************************************************)
(* Powers of two, and the hash function.                                   *)
(***************************************************************************)

LEMMA Pow2Steps ==
  /\ Pow2 \in [Nat -> Nat \ {0}]
  /\ Pow2[0] = 1
  /\ \A k \in Nat : Pow2[k + 1] = 2 * Pow2[k]
<1> DEFINE P == Nat \ {0}
           step == [k \in Nat |-> [c \in P |-> 2 * c]]
           Doubles(f) == f = [k \in Nat |-> IF k = 0 THEN 1 ELSE 2 * f[k - 1]]
<1>1. 1 \in P /\ step \in [Nat -> [P -> P]]
  OBVIOUS
<1>2. \E f : Iterates(f, P, 1, step)
  <2> HIDE DEF P, step
  <2> QED BY <1>1, RecursionExists
<1>3. PICK f \in [Nat -> P] : f[0] = 1 /\ \A k \in Nat : f[k + 1] = 2 * f[k]
  BY <1>2 DEF Iterates
<1>4. Doubles(f)
  <2>1. ASSUME NEW k \in Nat PROVE f[k] = IF k = 0 THEN 1 ELSE 2 * f[k - 1]
    <3>1. k # 0 => k - 1 \in Nat /\ (k - 1) + 1 = k
      OBVIOUS
    <3> QED BY <1>3, <3>1
  <2> QED BY <1>3, <2>1
<1>5. Pow2 = CHOOSE h : Doubles(h)
  BY DEF Pow2
<1>6. Doubles(Pow2)
  <2> HIDE DEF Doubles
  <2> QED BY <1>4, <1>5
<1> DEFINE g == Pow2
<1>7. g[0] = 1 /\ \A k \in Nat : g[k + 1] = 2 * g[k]
  <2> HIDE DEF g
  <2>1. g = [k \in Nat |-> IF k = 0 THEN 1 ELSE 2 * g[k - 1]]
    BY <1>6 DEF g
  <2>2. ASSUME NEW k \in Nat PROVE g[k + 1] = 2 * g[k]
    <3>1. k + 1 \in Nat /\ k + 1 # 0 /\ (k + 1) - 1 = k
      OBVIOUS
    <3> QED BY <2>1, <3>1
  <2> QED BY <2>1, <2>2
<1>8. \A k \in Nat : g[k] \in P
  <2> DEFINE T == {k \in Nat : g[k] \in P}
  <2>1. 0 \in T /\ \A k \in Nat : k \in T => k + 1 \in T
    BY <1>7
  <2>2. Nat \subseteq T
    <3> HIDE DEF T
    <3> QED BY <2>1, SetInduction
  <2> QED BY <2>2
<1>9. g = [k \in Nat |-> g[k]]
  BY <1>6
<1> QED BY <1>7, <1>8, <1>9

LEMMA Pow2Sum ==
  ASSUME NEW j \in Nat, NEW k \in Nat
  PROVE  Pow2[j + k] = Pow2[j] * Pow2[k]
<1> DEFINE T == {i \in Nat : Pow2[j + i] = Pow2[j] * Pow2[i]}
<1>1. Pow2[j] \in Nat /\ 0 \in T
  BY Pow2Steps
<1>2. ASSUME NEW i \in Nat, i \in T PROVE i + 1 \in T
  <2>1. (j + i) + 1 = j + (i + 1) /\ j + i \in Nat /\ i + 1 \in Nat
    OBVIOUS
  <2>2. Pow2[j + (i + 1)] = 2 * Pow2[j + i] /\ Pow2[i + 1] = 2 * Pow2[i] /\ Pow2[i] \in Nat
    BY <2>1, Pow2Steps
  <2>3. Pow2[j + i] = Pow2[j] * Pow2[i]
    BY <1>2
  <2>4. 2 * (Pow2[j] * Pow2[i]) = Pow2[j] * (2 * Pow2[i])
    BY <1>1, <2>2
  <2> QED BY <2>1, <2>2, <2>3, <2>4
<1>3. Nat \subseteq T
  <2> HIDE DEF T
  <2> QED BY <1>1, <1>2, SetInduction
<1> QED BY <1>3

\* Products and quotients.
LEMMA DivMod ==
  ASSUME NEW c \in Nat, NEW m \in Nat \ {0}
  PROVE  c \div m \in Nat /\ c % m \in 0 .. m - 1 /\ c = (m * (c \div m)) + (c % m)
BY SMT

LEMMA TimesGrows ==
  ASSUME NEW m \in Nat \ {0}, NEW x \in Nat, NEW y \in Nat
  PROVE  /\ m * x \in Nat /\ m * (x + 1) = m * x + m
         /\ x <= y => m * x <= m * y
         /\ m * x < m * y => x < y
BY SMT

Width == Pow2[BITS]

\* There are at least two characters.
LEMMA WidthType == Width \in Nat /\ Width >= 2 /\ Characters = 0 .. Width - 1
<1>1. BITS - 1 \in Nat /\ (BITS - 1) + 1 = BITS
  BY MutatorAssumption
<1>2. Pow2[BITS - 1] \in Nat \ {0} /\ Pow2[BITS] = 2 * Pow2[BITS - 1]
  BY <1>1, Pow2Steps
<1> QED BY <1>2 DEF Width, Characters

\* The hash function, iterated at least once, stays below n.
LEMMA HRange ==
  ASSUME NEW n \in 1 .. BITS * MAX_INP_LEN, NEW m \in Nat \ {0}, NEW x \in 0 .. MaxState
  PROVE  H(n, m, x) \in 0 .. n - 1
<1> DEFINE S == 0 .. MaxState + BITS * MaxSeedLen
           body(c) == HASH(c) % n
           round == [i \in 1 .. m |-> [c \in S |-> body(c)]]
           Runs(h) == h = [i \in 0 .. m |-> IF i = 0 THEN x ELSE body(h[i - 1])]
<1>1. /\ BITS * MAX_INP_LEN <= BITS * MaxSeedLen
      /\ BITS * MAX_INP_LEN \in Nat /\ BITS * MaxSeedLen \in Nat /\ MaxState \in Nat
      /\ \A c \in S : HASH(c) \in Nat
  BY MutatorAssumption, TimesGrows
<1>2. x \in S /\ \A c \in S : body(c) \in 0 .. n - 1 /\ body(c) \in S
  BY <1>1
<1>3. round \in [1 .. m -> [S -> S]]
  BY <1>2
<1>4. \E f : Rounds(f, S, x, m, round)
  <2> HIDE DEF S, round
  <2> QED BY <1>2, <1>3, LoopExists
<1>5. PICK f \in [0 .. m -> S] : f[0] = x /\ \A i \in 1 .. m : f[i] = body(f[i - 1])
  <2>1. PICK f : Rounds(f, S, x, m, round)
    BY <1>4
  <2>2. ASSUME NEW i \in 1 .. m PROVE f[i] = body(f[i - 1])
    <3>1. f[i] = round[i][f[i - 1]] /\ f[i - 1] \in S
      BY <2>1 DEF Rounds
    <3> QED BY <3>1
  <2> QED BY <2>1, <2>2 DEF Rounds
<1>6. Runs(f)
  BY <1>5
<1>7. PICK h : Runs(h) /\ H(n, m, x) = h[m]
  <2>1. H(n, m, x) = (CHOOSE h : Runs(h))[m]
    BY DEF H
  <2> HIDE DEF Runs
  <2> QED BY <1>6, <2>1
<1>8. h[0] = x /\ \A i \in 1 .. m : h[i] = body(h[i - 1])
  BY <1>7
<1>9. \A i \in 0 .. m : h[i] \in S
  <2>1. h[0] \in S /\ \A i \in 1 .. m : h[i - 1] \in S => h[i] \in S
    BY <1>2, <1>8
  <2> HIDE DEF S
  <2> QED BY <2>1, LoopKeeps
<1>10. h[m - 1] \in S /\ h[m] = body(h[m - 1])
  BY <1>8, <1>9
<1> QED BY <1>2, <1>7, <1>10

-----------------------------------------------------------------------------
(***************************************************************************)
(* Char arrays.                                                            *)
(***************************************************************************)
CharArrays == [0 .. MAX_INP_LEN -> Characters]

\* n characters.
Chars(n) == [0 .. n - 1 -> Characters]

\* The arrays with a NUL at N.
Terminated(N) == {c \in CharArrays : c[N] = 0}

LEMMA LengthIs ==
  ASSUME NEW n \in Nat, NEW s, DOMAIN s = 0 .. n - 1
  PROVE  Length(s) = n
<1>1. Cardinality(0 .. n - 1) = IF 0 > n - 1 THEN 0 ELSE (n - 1) - 0 + 1
  BY FS_Interval
<1> QED BY <1>1 DEF Length

LEMMA StringType ==
  ASSUME NEW s \in Strings
  PROVE  /\ Length(s) \in 0 .. MaxSeedLen
         /\ s \in [0 .. Length(s) - 1 -> Characters \ {0}]
<1>1. PICK n \in 0 .. MaxSeedLen : s \in [0 .. n - 1 -> Characters \ {0}]
  BY DEF Strings
<1>2. n \in Nat /\ DOMAIN s = 0 .. n - 1
  BY <1>1, MutatorAssumption
<1>3. Length(s) = n
  BY <1>2, LengthIs
<1> QED BY <1>1, <1>3

LEMMA PutKeeps ==
  ASSUME NEW b \in CharArrays, NEW at \in 0 .. MAX_INP_LEN, NEW c \in Characters
  PROVE  /\ Put(b, at, c) \in CharArrays
         /\ \A k \in 0 .. MAX_INP_LEN : Put(b, at, c)[k] = IF k = at THEN c ELSE b[k]
<1>1. DOMAIN b \cup {at} = 0 .. MAX_INP_LEN
  BY DEF CharArrays
<1>2. Put(b, at, c) = [k \in 0 .. MAX_INP_LEN |-> IF k = at THEN c ELSE b[k]]
  BY <1>1 DEF Put
<1> QED BY <1>2 DEF CharArrays

\* Copying n characters to where there is room for them.
LEMMA CopyKeeps ==
  ASSUME NEW b \in CharArrays, NEW n \in Nat, NEW s \in Chars(n),
         NEW at \in Nat, at + n <= MAX_INP_LEN + 1
  PROVE  /\ Copy(b, at, s) \in CharArrays
         /\ \A k \in 0 .. MAX_INP_LEN :
               Copy(b, at, s)[k] = IF k \in at .. at + n - 1 THEN s[k - at] ELSE b[k]
<1>1. MAX_INP_LEN \in Nat /\ s \in [0 .. n - 1 -> Characters]
  BY MutatorAssumption DEF Chars
<1>2. DOMAIN b \cup {at + j : j \in DOMAIN s} = 0 .. MAX_INP_LEN
  BY <1>1 DEF CharArrays
<1>3. Copy(b, at, s) =
        [k \in 0 .. MAX_INP_LEN |-> IF k - at \in DOMAIN s THEN s[k - at] ELSE b[k]]
  BY <1>2 DEF Copy
<1>4. \A k \in 0 .. MAX_INP_LEN : k - at \in DOMAIN s <=> k \in at .. at + n - 1
  BY <1>1
<1>5. ASSUME NEW k \in 0 .. MAX_INP_LEN
      PROVE  /\ Copy(b, at, s)[k] = IF k \in at .. at + n - 1 THEN s[k - at] ELSE b[k]
             /\ Copy(b, at, s)[k] \in Characters
  <2>1. CASE k - at \in DOMAIN s
    <3>1. s[k - at] \in Characters
      BY <1>1, <2>1
    <3> QED BY <1>3, <1>4, <2>1, <3>1
  <2>2. CASE k - at \notin DOMAIN s
    BY <1>3, <1>4, <2>2 DEF CharArrays
  <2> QED BY <2>1, <2>2
<1> QED BY <1>3, <1>5 DEF CharArrays

\* Part of a string, and of a buffer.
LEMMA PartType ==
  ASSUME NEW l \in Nat, NEW s \in Chars(l), NEW at \in Nat, NEW n \in Nat,
         at + n <= l
  PROVE  /\ Part(s, at, n) \in Chars(n)
         /\ \A k \in 0 .. n - 1 : Part(s, at, n)[k] = s[at + k]
BY DEF Part, Chars

LEMMA BufferPartType ==
  ASSUME NEW b \in CharArrays, NEW at \in Nat, NEW n \in Nat, at + n <= MAX_INP_LEN + 1
  PROVE  /\ Part(b, at, n) \in Chars(n)
         /\ \A k \in 0 .. n - 1 : Part(b, at, n)[k] = b[at + k]
<1>1. MAX_INP_LEN \in Nat
  BY MutatorAssumption
<1> QED BY <1>1 DEF Part, CharArrays, Chars

\* make_input makes an input of every buffer with a NUL.
LEMMA MakeInputType ==
  ASSUME NEW b \in CharArrays, NEW N \in 0 .. MAX_INP_LEN, b[N] = 0
  PROVE  /\ MakeInput(b) \in Inputs
         /\ MakeInput(b).state = 0 /\ Length(MakeInput(b).str) <= MAX_INP_LEN
<1>1. MAX_INP_LEN \in Nat /\ DOMAIN b = 0 .. MAX_INP_LEN /\ 0 \in 0 .. MaxState
  BY MutatorAssumption DEF CharArrays
<1> DEFINE nuls == {k \in 0 .. MAX_INP_LEN : b[k] = 0}
           IsFirst(n) == b[n] = 0 /\ \A k \in 0 .. n - 1 : b[k] # 0
<1>2. PICK m \in nuls : \A k \in nuls : m <= k
  <2>1. nuls \subseteq Nat /\ nuls # {}
    BY <1>1
  <2> HIDE DEF nuls
  <2> QED BY <2>1, LeastExists
<1>3. m \in DOMAIN b /\ IsFirst(m)
  BY <1>1, <1>2
<1>4. strlen(b) = CHOOSE n \in DOMAIN b : IsFirst(n)
  BY DEF strlen
<1>5. strlen(b) \in DOMAIN b /\ IsFirst(strlen(b))
  <2> HIDE DEF IsFirst
  <2> QED BY <1>3, <1>4
<1> DEFINE n == strlen(b)
<1>6. n \in 0 .. MAX_INP_LEN /\ \A k \in 0 .. n - 1 : b[k] # 0
  BY <1>1, <1>5
<1> HIDE DEF n
<1>7. \A k \in 0 .. n - 1 : b[k] \in Characters \ {0}
  BY <1>1, <1>6 DEF CharArrays
<1>8. [k \in 0 .. n - 1 |-> b[k]] \in Strings
  BY <1>1, <1>6, <1>7, MutatorAssumption DEF Strings
<1>9. MakeInput(b) = [str |-> [k \in 0 .. n - 1 |-> b[k]], state |-> 0]
  BY <1>1 DEF MakeInput, n
<1>10. Length([k \in 0 .. n - 1 |-> b[k]]) = n
  BY <1>1, <1>6, LengthIs
<1> QED BY <1>1, <1>6, <1>8, <1>9, <1>10 DEF Inputs

-----------------------------------------------------------------------------
(***************************************************************************)
(* The loops: each has a sequence of buffers, one for each round.          *)
(***************************************************************************)

\* r is c with the text s, of l characters, injected at a.
InjectedAt(r, c, N, l, s, a) ==
    \A k \in 0 .. N - 1 : r[k] = IF k \in a .. a + l - 1 THEN s[k - a] ELSE c[k]

\* One injection, into a string of length N at a.
LEMMA InjectRound ==
  ASSUME NEW N \in 1 .. MAX_INP_LEN, NEW c \in Terminated(N), NEW l \in Nat,
         NEW s \in Chars(l), NEW a \in 0 .. N - 1,
         NEW r, r = Copy(c, a, Part(s, 0, Lower(Length(s), N - a)))
  PROVE  /\ r \in Terminated(N)
         /\ InjectedAt(r, c, N, l, s, a)
<1>1. MAX_INP_LEN \in Nat /\ Length(s) = l
  BY MutatorAssumption, LengthIs DEF Chars
<1>2. PICK n : n = Lower(Length(s), N - a)
  OBVIOUS
<1>3. n \in Nat /\ n <= l /\ a + n <= N /\ (n = l \/ n = N - a)
  BY <1>1, <1>2 DEF Lower
<1>4. PICK part : part = Part(s, 0, n)
  OBVIOUS
<1>5. part \in Chars(n) /\ \A k \in 0 .. n - 1 : part[k] = s[k]
  <2>1. 0 \in Nat /\ 0 + n <= l
    BY <1>3
  <2>2. part \in Chars(n) /\ \A k \in 0 .. n - 1 : part[k] = s[0 + k]
    BY <1>3, <1>4, <2>1, PartType
  <2> QED BY <2>2
<1>6. c \in CharArrays /\ c[N] = 0 /\ a + n <= MAX_INP_LEN + 1 /\ a \in Nat
  BY <1>1, <1>3 DEF Terminated
<1>7. /\ Copy(c, a, part) \in CharArrays
      /\ \A k \in 0 .. MAX_INP_LEN :
            Copy(c, a, part)[k] = IF k \in a .. a + n - 1 THEN part[k - a] ELSE c[k]
  BY <1>3, <1>5, <1>6, CopyKeeps
<1>8. r = Copy(c, a, part)
  BY <1>2, <1>4
<1>9. r \in Terminated(N)
  BY <1>1, <1>3, <1>6, <1>7, <1>8 DEF Terminated
<1>10. ASSUME NEW k \in 0 .. N - 1
       PROVE  r[k] = IF k \in a .. a + l - 1 THEN s[k - a] ELSE c[k]
  <2>1. k \in 0 .. MAX_INP_LEN /\ (k \in a .. a + n - 1 <=> k \in a .. a + l - 1)
    BY <1>1, <1>3
  <2>2. k \in a .. a + n - 1 => part[k - a] = s[k - a]
    BY <1>3, <1>5
  <2> QED BY <1>7, <1>8, <2>1, <2>2
<1> QED BY <1>9, <1>10 DEF InjectedAt

\* Injecting a string into a string of length N.
Injects(done, b, N, s, p, at) ==
    /\ done[0] = b
    /\ \A i \in 1 .. p :
          done[i] = Copy(done[i - 1], at[i], Part(s, 0, Lower(Length(s), N - at[i])))

LEMMA InjectRuns ==
  ASSUME NEW N \in 1 .. MAX_INP_LEN, NEW b \in Terminated(N), NEW l \in Nat,
         NEW s \in Chars(l), NEW p \in Nat, NEW at \in [1 .. p -> 0 .. N - 1]
  PROVE  \E done \in [0 .. p -> Terminated(N)] :
            Injects(done, b, N, s, p, at) /\ Inject(b, N, s, p, at) = done[p]
<1> DEFINE S == Terminated(N)
           body(c, i) == Copy(c, at[i], Part(s, 0, Lower(Length(s), N - at[i])))
           round == [i \in 1 .. p |-> [c \in S |-> body(c, i)]]
           Runs(f) == f = [i \in 0 .. p |-> IF i = 0 THEN b ELSE body(f[i - 1], i)]
<1>1. ASSUME NEW c \in S, NEW i \in 1 .. p PROVE body(c, i) \in S
  <2>1. c \in Terminated(N) /\ at[i] \in 0 .. N - 1
    OBVIOUS
  <2> HIDE DEF S
  <2>2. body(c, i) \in Terminated(N)
    BY <2>1, InjectRound
  <2> QED BY <2>2 DEF S
<1>2. round \in [1 .. p -> [S -> S]]
  <2> HIDE DEF S, body
  <2> QED BY <1>1
<1>3. \E f : Rounds(f, S, b, p, round)
  <2> HIDE DEF S, round
  <2>1. b \in S
    BY DEF S
  <2> QED BY <1>2, <2>1, LoopExists
<1> HIDE DEF body
<1>4. PICK f \in [0 .. p -> S] : f[0] = b /\ \A i \in 1 .. p : f[i] = body(f[i - 1], i)
  <2>1. PICK f : Rounds(f, S, b, p, round)
    BY <1>3
  <2>2. ASSUME NEW i \in 1 .. p PROVE f[i] = body(f[i - 1], i)
    <3>1. f[i] = round[i][f[i - 1]] /\ f[i - 1] \in S
      BY <2>1 DEF Rounds
    <3> QED BY <3>1
  <2> QED BY <2>1, <2>2 DEF Rounds
<1>5. Runs(f)
  BY <1>4
<1>6. PICK h : Runs(h) /\ Inject(b, N, s, p, at) = h[p]
  <2>1. Inject(b, N, s, p, at) = (CHOOSE h : Runs(h))[p]
    BY DEF Inject, body
  <2> HIDE DEF Runs
  <2> QED BY <1>5, <2>1
<1>7. h[0] = b /\ \A i \in 1 .. p : h[i] = body(h[i - 1], i)
  BY <1>6
<1>8. \A i \in 0 .. p : h[i] \in S
  <2>1. h[0] \in S /\ \A i \in 1 .. p : h[i - 1] \in S => h[i] \in S
    BY <1>1, <1>7
  <2> HIDE DEF S
  <2> QED BY <2>1, LoopKeeps
<1>9. h \in [0 .. p -> S]
  BY <1>6, <1>8
<1> QED BY <1>6, <1>7, <1>9 DEF Injects, body

\* Adding to characters of a string of length N.
Shifts(done, b, N, S, p, d) ==
    /\ done[0] = b
    /\ \A i \in 1 .. p :
          done[i] = Put(done[i - 1], H(N, i, S), (done[i - 1][H(N, i, S)] + d) % Width)

LEMMA ShiftRuns ==
  ASSUME NEW N \in 1 .. MAX_INP_LEN, NEW b \in Terminated(N), NEW x \in 0 .. MaxState,
         NEW p \in Nat, NEW d \in Nat
  PROVE  \E done \in [0 .. p -> Terminated(N)] :
            Shifts(done, b, N, x, p, d) /\ Shift(b, N, x, p, d) = done[p]
<1> DEFINE S == Terminated(N)
           body(c, i) == Put(c, H(N, i, x), (c[H(N, i, x)] + d) % Width)
           round == [i \in 1 .. p |-> [c \in S |-> body(c, i)]]
           Runs(f) == f = [i \in 0 .. p |-> IF i = 0 THEN b ELSE body(f[i - 1], i)]
<1>1. ASSUME NEW c \in S, NEW i \in 1 .. p PROVE body(c, i) \in S
  <2>1. MAX_INP_LEN \in Nat /\ BITS \in Nat \ {0} /\ N \in 1 .. BITS * MAX_INP_LEN
    <3>1. \A m, n \in Nat : m > 0 => n <= m * n
      OBVIOUS
    <3> QED BY <3>1, MutatorAssumption
  <2> DEFINE k == H(N, i, x)
  <2>2. k \in 0 .. N - 1
    BY <2>1, HRange
  <2> HIDE DEF k
  <2>3. k \in 0 .. MAX_INP_LEN /\ N \in 0 .. MAX_INP_LEN /\ k # N
    BY <2>1, <2>2
  <2>4. c \in CharArrays /\ c[N] = 0 /\ c[k] \in Characters
    BY <2>3 DEF Terminated, CharArrays
  <2>5. (c[k] + d) % Width \in Characters
    BY <2>4, WidthType
  <2>6. Put(c, k, (c[k] + d) % Width) \in CharArrays /\ Put(c, k, (c[k] + d) % Width)[N] = 0
    BY <2>3, <2>4, <2>5, PutKeeps
  <2> QED BY <2>6 DEF Terminated, k
<1>2. round \in [1 .. p -> [S -> S]]
  <2> HIDE DEF S, body
  <2> QED BY <1>1
<1>3. \E f : Rounds(f, S, b, p, round)
  <2> HIDE DEF S, round
  <2>1. b \in S
    BY DEF S
  <2> QED BY <1>2, <2>1, LoopExists
<1> HIDE DEF body
<1>4. PICK f \in [0 .. p -> S] : f[0] = b /\ \A i \in 1 .. p : f[i] = body(f[i - 1], i)
  <2>1. PICK f : Rounds(f, S, b, p, round)
    BY <1>3
  <2>2. ASSUME NEW i \in 1 .. p PROVE f[i] = body(f[i - 1], i)
    <3>1. f[i] = round[i][f[i - 1]] /\ f[i - 1] \in S
      BY <2>1 DEF Rounds
    <3> QED BY <3>1
  <2> QED BY <2>1, <2>2 DEF Rounds
<1>5. Runs(f)
  BY <1>4
<1>6. PICK h : Runs(h) /\ Shift(b, N, x, p, d) = h[p]
  <2>1. Shift(b, N, x, p, d) = (CHOOSE h : Runs(h))[p]
    BY DEF Shift, body, Width
  <2> HIDE DEF Runs
  <2> QED BY <1>5, <2>1
<1>7. h[0] = b /\ \A i \in 1 .. p : h[i] = body(h[i - 1], i)
  BY <1>6
<1>8. \A i \in 0 .. p : h[i] \in S
  <2>1. h[0] \in S /\ \A i \in 1 .. p : h[i - 1] \in S => h[i] \in S
    BY <1>1, <1>7
  <2> HIDE DEF S
  <2> QED BY <2>1, LoopKeeps
<1>9. h \in [0 .. p -> S]
  BY <1>6, <1>8
<1> QED BY <1>6, <1>7, <1>9 DEF Shifts, body

\* A copy of the first N characters at a, as far as new_len.
\* r is c with N characters, at most those before m, written from a on.
Overlaid(r, c, a, N, m) ==
    \A k \in 0 .. MAX_INP_LEN :
        r[k] = IF a <= k /\ k < a + N /\ k < m THEN c[k - a] ELSE c[k]

LEMMA DuplicateRound ==
  ASSUME NEW N \in 1 .. MAX_INP_LEN, NEW c \in CharArrays, NEW new_len \in 0 .. MAX_INP_LEN,
         NEW a \in Nat, a < new_len, NEW r, r = Copy(c, a, Part(c, 0, Lower(N, new_len - a)))
  PROVE  /\ r \in CharArrays
         /\ N <= a => Overlaid(r, c, a, N, new_len)
<1>1. MAX_INP_LEN \in Nat
  BY MutatorAssumption
<1>2. PICK n : n = Lower(N, new_len - a)
  OBVIOUS
<1>3. n \in Nat /\ n <= N /\ a + n <= new_len /\ (n = N \/ a + n = new_len)
  BY <1>1, <1>2 DEF Lower
<1>4. PICK part : part = Part(c, 0, n)
  OBVIOUS
<1>5. part \in Chars(n) /\ \A k \in 0 .. n - 1 : part[k] = c[k]
  <2>1. 0 \in Nat /\ 0 + n <= MAX_INP_LEN + 1
    BY <1>1, <1>3
  <2>2. part \in Chars(n) /\ \A k \in 0 .. n - 1 : part[k] = c[0 + k]
    BY <1>3, <1>4, <2>1, BufferPartType
  <2> QED BY <2>2
<1>6. a + n <= MAX_INP_LEN + 1
  <2>1. a + n <= new_len /\ new_len <= MAX_INP_LEN /\ new_len \in Nat
    BY <1>1, <1>3
  <2> QED BY <1>1, <1>3, <2>1
<1>7. /\ Copy(c, a, part) \in CharArrays
      /\ \A k \in 0 .. MAX_INP_LEN :
            Copy(c, a, part)[k] = IF k \in a .. a + n - 1 THEN part[k - a] ELSE c[k]
  BY <1>3, <1>5, <1>6, CopyKeeps
<1>8. r = Copy(c, a, part)
  BY <1>2, <1>4
<1>9. ASSUME NEW k \in 0 .. MAX_INP_LEN
      PROVE  r[k] = IF a <= k /\ k < a + N /\ k < new_len THEN c[k - a] ELSE c[k]
  <2>1. k \in a .. a + n - 1 <=> a <= k /\ k < a + N /\ k < new_len
    BY <1>1, <1>3
  <2>2. k \in a .. a + n - 1 => part[k - a] = c[k - a]
    BY <1>1, <1>3, <1>5
  <2> QED BY <1>7, <1>8, <2>1, <2>2
<1> QED BY <1>7, <1>8, <1>9 DEF Overlaid

\* Duplicating the first N characters.
Duplicates(done, b, N, K, new_len) ==
    /\ done[0] = b
    /\ \A i \in 1 .. K :
          done[i] = IF N * i < new_len
                    THEN Copy(done[i - 1], N * i, Part(done[i - 1], 0, Lower(N, new_len - N * i)))
                    ELSE done[i - 1]

LEMMA DuplicateRuns ==
  ASSUME NEW N \in 1 .. MAX_INP_LEN, NEW b \in CharArrays, NEW K \in Nat,
         NEW new_len \in 0 .. MAX_INP_LEN, new_len = Lower(N * (K + 1), MAX_INP_LEN)
  PROVE  \E done \in [0 .. K -> CharArrays] :
            Duplicates(done, b, N, K, new_len) /\ helpr_strat2(b, N, K) = Put(done[K], new_len, 0)
<1> DEFINE S == CharArrays
           body(c, i) == IF N * i < new_len
                         THEN Copy(c, N * i, Part(c, 0, Lower(N, new_len - N * i))) ELSE c
           round == [i \in 1 .. K |-> [c \in S |-> body(c, i)]]
           Runs(f) == f = [i \in 0 .. K |-> IF i = 0 THEN b ELSE body(f[i - 1], i)]
<1>1. ASSUME NEW c \in S, NEW i \in 1 .. K PROVE body(c, i) \in S
  <2>1. CASE N * i < new_len
    <3>1. PICK a \in Nat : a = N * i
      BY MutatorAssumption
    <3>2. PICK r : r = Copy(c, a, Part(c, 0, Lower(N, new_len - a)))
      OBVIOUS
    <3>3. r \in CharArrays
      BY <2>1, <3>1, <3>2, DuplicateRound
    <3> QED BY <2>1, <3>1, <3>2, <3>3
  <2>2. CASE ~(N * i < new_len)
    BY <2>2
  <2> QED BY <2>1, <2>2
<1>2. round \in [1 .. K -> [S -> S]]
  <2> HIDE DEF S, body
  <2> QED BY <1>1
<1>3. \E f : Rounds(f, S, b, K, round)
  <2> HIDE DEF S, round
  <2>1. b \in S
    BY DEF S
  <2> QED BY <1>2, <2>1, LoopExists
<1> HIDE DEF body
<1>4. PICK f \in [0 .. K -> S] : f[0] = b /\ \A i \in 1 .. K : f[i] = body(f[i - 1], i)
  <2>1. PICK f : Rounds(f, S, b, K, round)
    BY <1>3
  <2>2. ASSUME NEW i \in 1 .. K PROVE f[i] = body(f[i - 1], i)
    <3>1. f[i] = round[i][f[i - 1]] /\ f[i - 1] \in S
      BY <2>1 DEF Rounds
    <3> QED BY <3>1
  <2> QED BY <2>1, <2>2 DEF Rounds
<1>5. Runs(f)
  BY <1>4
<1>6. PICK h : Runs(h) /\ helpr_strat2(b, N, K) = Put(h[K], new_len, 0)
  <2>1. helpr_strat2(b, N, K) = Put((CHOOSE h : Runs(h))[K], new_len, 0)
    BY DEF helpr_strat2, body
  <2> HIDE DEF Runs
  <2> QED BY <1>5, <2>1
<1>7. h[0] = b /\ \A i \in 1 .. K : h[i] = body(h[i - 1], i)
  BY <1>6
<1>8. \A i \in 0 .. K : h[i] \in S
  <2>1. h[0] \in S /\ \A i \in 1 .. K : h[i - 1] \in S => h[i] \in S
    BY <1>1, <1>7
  <2> HIDE DEF S
  <2> QED BY <2>1, LoopKeeps
<1>9. h \in [0 .. K -> S]
  BY <1>6, <1>8
<1> QED BY <1>6, <1>7, <1>9 DEF Duplicates, body

\* Flipping a bit of a character gives a character.
LEMMA FlipBitType ==
  ASSUME NEW c \in Characters, NEW bit \in 0 .. BITS - 1
  PROVE  FlipBit(c, bit) \in Characters
<1>1. bit \in Nat /\ BITS - bit - 1 \in Nat /\ (BITS - bit - 1) + 1 = BITS - bit
      /\ bit + (BITS - bit) = BITS /\ BITS - bit \in Nat
  BY MutatorAssumption
<1>2. PICK m, t \in Nat \ {0} : m = Pow2[bit] /\ Width = m * (2 * t)
  <2>1. Pow2[bit] \in Nat \ {0} /\ Pow2[BITS - bit - 1] \in Nat \ {0}
    BY <1>1, Pow2Steps
  <2>2. Pow2[BITS - bit] = 2 * Pow2[BITS - bit - 1]
    BY <1>1, Pow2Steps
  <2>3. Width = Pow2[bit] * Pow2[BITS - bit]
    BY <1>1, Pow2Sum DEF Width
  <2> QED BY <2>1, <2>2, <2>3
<1>3. PICK w \in Nat : w = m * (2 * t)
  BY <1>2
<1>4. c \in 0 .. w - 1 /\ Characters = 0 .. w - 1
  BY <1>2, <1>3, WidthType
<1>5. PICK q : q = c \div m
  OBVIOUS
<1>6. q \in Nat /\ c % m \in 0 .. m - 1 /\ c = (m * q) + (c % m)
  <2>1. c \in Nat
    BY <1>4
  <2> QED BY <1>2, <1>5, <2>1, DivMod
<1>7. PICK x \in Nat : x = m * q
  BY <1>2, <1>6
<1>8. x <= c /\ c < x + m
  BY <1>2, <1>6, <1>7
<1>9. q < 2 * t
  <2>1. PICK u \in Nat : u = 2 * t
    BY <1>2
  <2>2. x < w
    BY <1>4, <1>8
  <2>3. m * q < m * u
    BY <1>3, <1>7, <2>1, <2>2
  <2> QED BY <1>2, <1>6, <2>1, <2>3, TimesGrows
<1>10. CASE q % 2 = 1
  <2>1. m * 1 <= x
    <3>1. 1 <= q
      BY <1>6, <1>10
    <3> QED BY <1>2, <1>6, <1>7, <3>1, TimesGrows
  <2>2. c - m \in 0 .. w - 1
    BY <1>2, <1>3, <1>4, <1>8, <2>1
  <2> QED BY <1>2, <1>4, <1>5, <1>10, <2>2 DEF FlipBit
<1>11. CASE q % 2 # 1
  <2>1. PICK y, z, u \in Nat : y = q + 1 /\ z = y + 1 /\ u = 2 * t
    BY <1>2, <1>6
  <2>2. z <= u
    BY <1>2, <1>6, <1>9, <1>11, <2>1
  <2>3. m * z <= w
    BY <1>2, <1>3, <2>1, <2>2, TimesGrows
  <2>4. m * y = m * q + m /\ m * z = m * y + m
    BY <1>2, <1>6, <2>1, TimesGrows
  <2>5. (x + m) + m <= w
    BY <1>7, <2>3, <2>4
  <2>6. c + m \in 0 .. w - 1
    <3>1. m \in Nat /\ w \in Nat /\ x \in Nat /\ c \in Nat /\ (x + m) + m <= w
      BY <1>2, <1>3, <1>4, <1>7, <2>5
    <3> QED BY <1>8, <3>1
  <2> QED BY <1>2, <1>4, <1>5, <1>11, <2>6 DEF FlipBit
<1> QED BY <1>10, <1>11

\* Flipping n bits of a string of length N, from bit_pos on.
FlipsFrom(done, b, bit_pos, n) ==
    /\ done[0] = b
    /\ \A j \in 1 .. n :
          LET bit == bit_pos + j - 1
          IN  done[j] = Put(done[j - 1], bit \div BITS,
                            FlipBit(done[j - 1][bit \div BITS], bit % BITS))

LEMMA FlipRound ==
  ASSUME NEW N \in 1 .. MAX_INP_LEN, NEW c \in Terminated(N), NEW bit \in 0 .. BITS * N - 1
  PROVE  Put(c, bit \div BITS, FlipBit(c[bit \div BITS], bit % BITS)) \in Terminated(N)
<1>1. BITS \in Nat \ {0} /\ MAX_INP_LEN \in Nat /\ BITS * N \in Nat
  BY MutatorAssumption
<1>2. PICK k, place : k = bit \div BITS /\ place = bit % BITS
  OBVIOUS
<1>3. k \in Nat /\ place \in 0 .. BITS - 1 /\ bit = (BITS * k) + place
  <2>1. bit \in Nat
    BY <1>1
  <2> QED BY <1>1, <1>2, <2>1, DivMod
<1>4. k < N
  <2>1. BITS * k < BITS * N
    <3>1. BITS * k \in Nat
      BY <1>1, <1>3
    <3> QED BY <1>1, <1>3, <3>1
  <2> QED BY <1>1, <1>3, <2>1, TimesGrows
<1>5. k \in 0 .. MAX_INP_LEN /\ N \in 0 .. MAX_INP_LEN /\ k # N
  BY <1>1, <1>3, <1>4
<1>6. c \in CharArrays /\ c[N] = 0 /\ c[k] \in Characters
  BY <1>5 DEF Terminated, CharArrays
<1>7. FlipBit(c[k], place) \in Characters
  BY <1>3, <1>6, FlipBitType
<1>8. Put(c, k, FlipBit(c[k], place)) \in Terminated(N)
  BY <1>5, <1>6, <1>7, PutKeeps DEF Terminated
<1> QED BY <1>2, <1>8

LEMMA FlipFromRuns ==
  ASSUME NEW N \in 1 .. MAX_INP_LEN, NEW b \in Terminated(N), NEW bit_pos \in Nat,
         NEW n \in Nat, bit_pos + n <= BITS * N
  PROVE  \E done \in [0 .. n -> Terminated(N)] :
            FlipsFrom(done, b, bit_pos, n) /\ FlipFrom(b, bit_pos, n) = done[n]
<1> DEFINE S == Terminated(N)
           flip(c, bit) == Put(c, bit \div BITS, FlipBit(c[bit \div BITS], bit % BITS))
           body(c, j) == flip(c, bit_pos + j - 1)
           round == [j \in 1 .. n |-> [c \in S |-> body(c, j)]]
           Runs(f) == f = [j \in 0 .. n |-> IF j = 0 THEN b ELSE body(f[j - 1], j)]
<1>1. ASSUME NEW c \in S, NEW j \in 1 .. n PROVE body(c, j) \in S
  <2>1. bit_pos + j - 1 \in 0 .. BITS * N - 1
    BY MutatorAssumption
  <2> QED BY <2>1, FlipRound
<1>2. round \in [1 .. n -> [S -> S]]
  <2> HIDE DEF S, body
  <2> QED BY <1>1
<1>3. \E f : Rounds(f, S, b, n, round)
  <2> HIDE DEF S, round
  <2>1. b \in S
    BY DEF S
  <2> QED BY <1>2, <2>1, LoopExists
<1> HIDE DEF body
<1>4. PICK f \in [0 .. n -> S] : f[0] = b /\ \A j \in 1 .. n : f[j] = body(f[j - 1], j)
  <2>1. PICK f : Rounds(f, S, b, n, round)
    BY <1>3
  <2>2. ASSUME NEW j \in 1 .. n PROVE f[j] = body(f[j - 1], j)
    <3>1. f[j] = round[j][f[j - 1]] /\ f[j - 1] \in S
      BY <2>1 DEF Rounds
    <3> QED BY <3>1
  <2> QED BY <2>1, <2>2 DEF Rounds
<1>5. Runs(f)
  BY <1>4
<1>6. PICK h : Runs(h) /\ FlipFrom(b, bit_pos, n) = h[n]
  <2>1. FlipFrom(b, bit_pos, n) = (CHOOSE h : Runs(h))[n]
    BY DEF FlipFrom, body
  <2> HIDE DEF Runs
  <2> QED BY <1>5, <2>1
<1>7. h[0] = b /\ \A j \in 1 .. n : h[j] = body(h[j - 1], j)
  BY <1>6
<1>8. \A j \in 0 .. n : h[j] \in S
  <2>1. h[0] \in S /\ \A j \in 1 .. n : h[j - 1] \in S => h[j] \in S
    BY <1>1, <1>7
  <2> HIDE DEF S
  <2> QED BY <2>1, LoopKeeps
<1>9. h \in [0 .. n -> S]
  BY <1>6, <1>8
<1> QED BY <1>6, <1>7, <1>9 DEF FlipsFrom, body

\* Flipping at p places.
Flips(done, b, N, S, p, L) ==
    /\ done[0] = b
    /\ \A i \in 1 .. p :
          LET bit_pos == H(BITS * N, i, S)
          IN  done[i] = FlipFrom(done[i - 1], bit_pos, Lower(L, BITS * N - bit_pos))

LEMMA FlipsRun ==
  ASSUME NEW N \in 1 .. MAX_INP_LEN, NEW b \in Terminated(N), NEW x \in 0 .. MaxState,
         NEW p \in Nat, NEW L \in Nat
  PROVE  \E done \in [0 .. p -> Terminated(N)] :
            Flips(done, b, N, x, p, L) /\ helpr_strat9(b, N, x, p, L) = done[p]
<1> DEFINE S == Terminated(N)
           pos(i) == H(BITS * N, i, x)
           body(c, i) == FlipFrom(c, pos(i), Lower(L, BITS * N - pos(i)))
           round == [i \in 1 .. p |-> [c \in S |-> body(c, i)]]
           Runs(f) == f = [i \in 0 .. p |-> IF i = 0 THEN b ELSE body(f[i - 1], i)]
<1>1. ASSUME NEW c \in S, NEW i \in 1 .. p PROVE body(c, i) \in S
  <2>1. MAX_INP_LEN \in Nat /\ BITS \in Nat \ {0} /\ N \in Nat \ {0}
    BY MutatorAssumption
  <2>2. BITS * N \in 1 .. BITS * MAX_INP_LEN
    <3>1. N - 1 \in Nat /\ BITS * ((N - 1) + 1) = BITS * (N - 1) + BITS /\ BITS * (N - 1) \in Nat
      BY <2>1, TimesGrows
    <3>2. (N - 1) + 1 = N /\ BITS * N >= 1
      BY <2>1, <3>1
    <3>3. BITS * N <= BITS * MAX_INP_LEN /\ BITS * N \in Nat /\ BITS * MAX_INP_LEN \in Nat
      BY <2>1, TimesGrows
    <3> QED BY <3>2, <3>3
  <2>3. pos(i) \in 0 .. BITS * N - 1
    BY <2>2, HRange
  <2>4. PICK y, n : y = pos(i) /\ n = Lower(L, BITS * N - pos(i))
    OBVIOUS
  <2>5. y \in Nat /\ n \in Nat /\ y + n <= BITS * N
    BY <2>2, <2>3, <2>4 DEF Lower
  <2>6. PICK done \in [0 .. n -> S] : FlipFrom(c, y, n) = done[n]
    BY <2>5, FlipFromRuns
  <2> QED BY <2>4, <2>5, <2>6
<1>2. round \in [1 .. p -> [S -> S]]
  <2> HIDE DEF S, body
  <2> QED BY <1>1
<1>3. \E f : Rounds(f, S, b, p, round)
  <2> HIDE DEF S, round
  <2>1. b \in S
    BY DEF S
  <2> QED BY <1>2, <2>1, LoopExists
<1> HIDE DEF body
<1>4. PICK f \in [0 .. p -> S] : f[0] = b /\ \A i \in 1 .. p : f[i] = body(f[i - 1], i)
  <2>1. PICK f : Rounds(f, S, b, p, round)
    BY <1>3
  <2>2. ASSUME NEW i \in 1 .. p PROVE f[i] = body(f[i - 1], i)
    <3>1. f[i] = round[i][f[i - 1]] /\ f[i - 1] \in S
      BY <2>1 DEF Rounds
    <3> QED BY <3>1
  <2> QED BY <2>1, <2>2 DEF Rounds
<1>5. Runs(f)
  BY <1>4
<1>6. PICK h : Runs(h) /\ helpr_strat9(b, N, x, p, L) = h[p]
  <2>1. helpr_strat9(b, N, x, p, L) = (CHOOSE h : Runs(h))[p]
    BY DEF helpr_strat9, body
  <2> HIDE DEF Runs
  <2> QED BY <1>5, <2>1
<1>7. h[0] = b /\ \A i \in 1 .. p : h[i] = body(h[i - 1], i)
  BY <1>6
<1>8. \A i \in 0 .. p : h[i] \in S
  <2>1. h[0] \in S /\ \A i \in 1 .. p : h[i - 1] \in S => h[i] \in S
    BY <1>1, <1>7
  <2> HIDE DEF S
  <2> QED BY <2>1, LoopKeeps
<1>9. h \in [0 .. p -> S]
  BY <1>6, <1>8
<1> QED BY <1>6, <1>7, <1>9 DEF Flips, body

-----------------------------------------------------------------------------
(***************************************************************************)
(* The strategies: each leaves a string in the buffer.                     *)
(***************************************************************************)
CStrings == {c \in CharArrays : \E n \in 0 .. MAX_INP_LEN : c[n] = 0}

LEMMA TerminatedIsCString ==
  ASSUME NEW N \in 1 .. MAX_INP_LEN, NEW c \in Terminated(N)
  PROVE  c \in CStrings
BY MutatorAssumption DEF Terminated, CStrings

\* Writing a NUL makes a string of any char array.
LEMMA PutNul ==
  ASSUME NEW b \in CharArrays, NEW at \in 0 .. MAX_INP_LEN
  PROVE  Put(b, at, 0) \in CStrings
<1>1. 0 \in Characters
  BY WidthType
<1>2. Put(b, at, 0) \in CharArrays /\ Put(b, at, 0)[at] = 0
  BY <1>1, PutKeeps
<1> QED BY <1>2 DEF CStrings

LEMMA CharacterType ==
  ASSUME NEW k \in Nat
  PROVE  Character(k) \in Characters \ {0}
<1>1. Width \in Nat /\ Width - 1 \in Nat \ {0} /\ Characters = 0 .. Width - 1
  BY WidthType
<1>2. k % (Width - 1) \in 0 .. (Width - 1) - 1
  BY <1>1, DivMod
<1>3. Character(k) = 1 + (k % (Width - 1))
  BY DEF Character, Width
<1> QED BY <1>1, <1>2, <1>3

LEMMA TextType ==
  ASSUME NEW l \in Nat
  PROVE  Text(l) \in Chars(l)
BY CharacterType DEF Text, Chars

\* A place of a string that is not empty.
LEMMA PlaceRange ==
  ASSUME NEW N \in 1 .. MAX_INP_LEN, NEW m \in Nat \ {0}, NEW x \in 0 .. MaxState
  PROVE  H(N, m, x) \in 0 .. N - 1
<1>1. MAX_INP_LEN \in Nat /\ BITS \in Nat \ {0} /\ N \in 1 .. BITS * MAX_INP_LEN
  <2>1. \A i, n \in Nat : i > 0 => n <= i * n
    OBVIOUS
  <2> QED BY <2>1, MutatorAssumption
<1> QED BY <1>1, HRange

LEMMA FillIsString ==
  ASSUME NEW N \in 1 .. MAX_INP_LEN, NEW b \in Terminated(N), NEW K \in Nat
  PROVE  helpr_strat1(b, N, K) \in CStrings
<1>1. PICK target : target = Lower(Pow2[K], MAX_INP_LEN)
  OBVIOUS
<1>2. target \in 0 .. MAX_INP_LEN /\ MAX_INP_LEN \in Nat
  BY <1>1, Pow2Steps, MutatorAssumption DEF Lower
<1>3. PICK filled : filled = IF target > N
                             THEN Copy(b, N, [k \in 0 .. target - N - 1 |-> Character(0)])
                             ELSE b
  OBVIOUS
<1>4. filled \in CharArrays
  <2>1. b \in CharArrays
    BY DEF Terminated
  <2>2. CASE target > N
    <3>1. PICK n \in Nat : n = target - N
      BY <1>2, <2>2
    <3>2. PICK s : s = [k \in 0 .. n - 1 |-> Character(0)]
      OBVIOUS
    <3>3. s \in Chars(n)
      BY <3>2, CharacterType DEF Chars
    <3>4. N \in Nat /\ N + n <= MAX_INP_LEN + 1
      BY <1>2, <3>1
    <3>5. Copy(b, N, s) \in CharArrays
      BY <2>1, <3>3, <3>4, CopyKeeps
    <3> QED BY <1>3, <2>2, <3>1, <3>2, <3>5
  <2> QED BY <1>3, <2>1, <2>2
<1>5. helpr_strat1(b, N, K) = Put(filled, target, 0)
  BY <1>1, <1>3 DEF helpr_strat1
<1> QED BY <1>2, <1>4, <1>5, PutNul

LEMMA DuplicateIsString ==
  ASSUME NEW N \in 1 .. MAX_INP_LEN, NEW b \in Terminated(N), NEW K \in Nat
  PROVE  helpr_strat2(b, N, K) \in CStrings
<1>1. PICK new_len : new_len = Lower(N * (K + 1), MAX_INP_LEN)
  OBVIOUS
<1>2. new_len \in 0 .. MAX_INP_LEN
  <2>1. N * (K + 1) \in Nat
    BY MutatorAssumption
  <2> QED BY <1>1, <2>1, MutatorAssumption DEF Lower
<1>3. b \in CharArrays
  BY DEF Terminated
<1>4. PICK done \in [0 .. K -> CharArrays] : helpr_strat2(b, N, K) = Put(done[K], new_len, 0)
  BY <1>1, <1>2, <1>3, DuplicateRuns
<1>5. done[K] \in CharArrays
  OBVIOUS
<1> QED BY <1>2, <1>4, <1>5, PutNul

\* n characters are added, up to new_len.
Adds(N, L, new_len, n) == new_len = Lower(N + L, MAX_INP_LEN) /\ n = new_len - N

Lengthens(b, N, x, L, new_len, n) ==
    /\ helpr_strat3(b, N, x, L) =
           Put(Copy(b, N, [k \in 0 .. n - 1 |-> b[H(N, k + 1, x)]]), new_len, 0)
    /\ \A k \in 0 .. n - 1 : b[H(N, k + 1, x)] \in Characters

\* What strategy 3 does as long as the input fits the buffer.
LEMMA LengthenFits ==
  ASSUME NEW N \in 1 .. MAX_INP_LEN, NEW b \in Terminated(N), NEW x \in 0 .. MaxState,
         NEW L \in Nat, NEW n \in Nat, NEW new_len, Adds(N, L, new_len, n)
  PROVE  Lengthens(b, N, x, L, new_len, n)
<1> DEFINE read(k) == IF k \in DOMAIN b THEN b[k] ELSE Pow2[BITS]
<1>1. /\ MAX_INP_LEN \in Nat /\ new_len \in N .. MAX_INP_LEN /\ N \in Nat
      /\ new_len = Lower(N + L, MAX_INP_LEN) /\ n = new_len - N
  BY MutatorAssumption DEF Lower, Adds
<1>2. b \in [0 .. MAX_INP_LEN -> Characters]
  BY DEF Terminated, CharArrays
<1>3. ASSUME NEW k \in 0 .. n - 1
      PROVE  read(H(N, k + 1, x)) = b[H(N, k + 1, x)] /\ b[H(N, k + 1, x)] \in Characters
  <2>1. k + 1 \in Nat \ {0}
    OBVIOUS
  <2>2. H(N, k + 1, x) \in 0 .. N - 1
    BY <2>1, PlaceRange
  <2>3. H(N, k + 1, x) \in 0 .. MAX_INP_LEN
    BY <1>1, <2>2
  <2> QED BY <1>2, <2>3
<1>4. helpr_strat3(b, N, x, L) =
        Put(Copy(b, N, [k \in 0 .. n - 1 |-> read(H(N, k + 1, x))]), new_len, 0)
  BY <1>1 DEF helpr_strat3
<1> HIDE DEF read
<1>5. [k \in 0 .. n - 1 |-> read(H(N, k + 1, x))] = [k \in 0 .. n - 1 |-> b[H(N, k + 1, x)]]
  BY <1>3
<1> QED BY <1>3, <1>4, <1>5 DEF Lengthens

LEMMA LengthenIsString ==
  ASSUME NEW N \in 1 .. MAX_INP_LEN, NEW b \in Terminated(N), NEW x \in 0 .. MaxState,
         NEW L \in Nat
  PROVE  helpr_strat3(b, N, x, L) \in CStrings
<1>1. PICK new_len : new_len = Lower(N + L, MAX_INP_LEN)
  OBVIOUS
<1>2. MAX_INP_LEN \in Nat /\ new_len \in N .. MAX_INP_LEN /\ N \in Nat
  BY <1>1, MutatorAssumption DEF Lower
<1>3. PICK n \in Nat : n = new_len - N
  BY <1>2
<1>4. PICK s : s = [k \in 0 .. n - 1 |-> b[H(N, k + 1, x)]]
  OBVIOUS
<1>5. b \in CharArrays
  BY DEF Terminated
<1>6. s \in Chars(n) /\ helpr_strat3(b, N, x, L) = Put(Copy(b, N, s), new_len, 0)
  <2>1. /\ helpr_strat3(b, N, x, L) =
              Put(Copy(b, N, [k \in 0 .. n - 1 |-> b[H(N, k + 1, x)]]), new_len, 0)
        /\ \A k \in 0 .. n - 1 : b[H(N, k + 1, x)] \in Characters
    <3>1. Adds(N, L, new_len, n)
      BY <1>1, <1>3 DEF Adds
    <3>2. Lengthens(b, N, x, L, new_len, n)
      BY <3>1, LengthenFits
    <3> QED BY <3>2 DEF Lengthens
  <2>2. s \in Chars(n)
    BY <1>4, <2>1 DEF Chars
  <2> QED BY <1>4, <2>1, <2>2
<1>7. N + n <= MAX_INP_LEN + 1 /\ new_len \in 0 .. MAX_INP_LEN
  BY <1>2, <1>3
<1>8. Copy(b, N, s) \in CharArrays
  BY <1>2, <1>5, <1>6, <1>7, CopyKeeps
<1> QED BY <1>6, <1>7, <1>8, PutNul

\* An input that is too long: strategy 3 writes outside the buffer.
LEMMA LengthenOverruns ==
  ASSUME NEW N \in Nat, N > MAX_INP_LEN, NEW b, NEW x, NEW L \in Nat
  PROVE  helpr_strat3(b, N, x, L) \notin CStrings
<1>1. PICK r : r = [k \in 0 .. 0 |-> IF H(N, k + 1, x) \in DOMAIN b THEN b[H(N, k + 1, x)]
                                   ELSE Pow2[BITS]]
  OBVIOUS
<1>2. MAX_INP_LEN \in Nat /\ Lower(N + L, MAX_INP_LEN) = MAX_INP_LEN /\ MAX_INP_LEN < N
  BY MutatorAssumption DEF Lower
<1>3. helpr_strat3(b, N, x, L) = Put(Copy(b, N, r), MAX_INP_LEN, 0)
  BY <1>1, <1>2 DEF helpr_strat3
<1>4. N \in DOMAIN Copy(b, N, r)
  <2>1. 0 \in DOMAIN r /\ N = N + 0
    BY <1>1
  <2> QED BY <2>1 DEF Copy
<1>5. N \in DOMAIN Put(Copy(b, N, r), MAX_INP_LEN, 0)
  BY <1>4 DEF Put
<1>6. N \notin 0 .. MAX_INP_LEN
  BY <1>2
<1> QED BY <1>3, <1>5, <1>6 DEF CStrings, CharArrays

LEMMA TruncateIsString ==
  ASSUME NEW N \in 1 .. MAX_INP_LEN, NEW b \in Terminated(N), NEW x \in 0 .. MaxState
  PROVE  helpr_strat4(b, N, x) \in CStrings
<1>1. H(N, 1, x) \in 0 .. N - 1
  BY PlaceRange
<1>2. H(N, 1, x) \in 0 .. MAX_INP_LEN /\ b \in CharArrays
  BY <1>1, MutatorAssumption DEF Terminated
<1> QED BY <1>2, PutNul DEF helpr_strat4

\* Injecting any string at places of the input.
LEMMA InjectIsString ==
  ASSUME NEW N \in 1 .. MAX_INP_LEN, NEW b \in Terminated(N), NEW l \in Nat,
         NEW s \in Chars(l), NEW p \in Nat, NEW at \in [1 .. p -> 0 .. N - 1]
  PROVE  Inject(b, N, s, p, at) \in CStrings
<1>1. PICK done \in [0 .. p -> Terminated(N)] : Inject(b, N, s, p, at) = done[p]
  BY InjectRuns
<1>2. done[p] \in Terminated(N)
  OBVIOUS
<1> QED BY <1>1, <1>2, TerminatedIsCString

\* The places of strategies 5, 6 and 8, and those of strategy 7.
LEMMA Places ==
  ASSUME NEW N \in 1 .. MAX_INP_LEN, NEW x \in 0 .. MaxState, NEW p \in Nat
  PROVE  /\ [i \in 1 .. p |-> H(N, i, x)] \in [1 .. p -> 0 .. N - 1]
         /\ [i \in 1 .. p |-> H(N, i + 1, x)] \in [1 .. p -> 0 .. N - 1]
<1>1. ASSUME NEW i \in 1 .. p PROVE H(N, i, x) \in 0 .. N - 1 /\ H(N, i + 1, x) \in 0 .. N - 1
  <2>1. i \in Nat \ {0} /\ i + 1 \in Nat \ {0}
    OBVIOUS
  <2> QED BY <2>1, PlaceRange
<1> QED BY <1>1

LEMMA InjectTextIsString ==
  ASSUME NEW N \in 1 .. MAX_INP_LEN, NEW b \in Terminated(N), NEW x \in 0 .. MaxState,
         NEW p \in Nat, NEW l \in Nat, NEW s \in Chars(l)
  PROVE  helpr_strat5(b, N, x, p, s) \in CStrings
<1>1. PICK at : at = [i \in 1 .. p |-> H(N, i, x)]
  OBVIOUS
<1>2. at \in [1 .. p -> 0 .. N - 1]
  BY <1>1, Places
<1>3. Inject(b, N, s, p, at) \in CStrings
  BY <1>2, InjectIsString
<1> QED BY <1>1, <1>3 DEF helpr_strat5

LEMMA InjectIntegerIsString ==
  ASSUME NEW N \in 1 .. MAX_INP_LEN, NEW b \in Terminated(N), NEW x \in 0 .. MaxState,
         NEW p \in Nat
  PROVE  helpr_strat6(b, N, x, p) \in CStrings
<1>1. HASH(x) \in Nat
  <2>1. x \in 0 .. MaxState + BITS * MaxSeedLen
    BY MutatorAssumption
  <2> QED BY <2>1, MutatorAssumption
<1>2. PICK l \in Nat : l = 1 + (HASH(x) % 11)
  BY <1>1
<1>3. Text(l) \in Chars(l)
  BY TextType
<1>4. helpr_strat6(b, N, x, p) = helpr_strat5(b, N, x, p, Text(l))
  BY <1>2 DEF helpr_strat6
<1> QED BY <1>3, <1>4, InjectTextIsString

LEMMA InjectPartIsString ==
  ASSUME NEW N \in 1 .. MAX_INP_LEN, NEW b \in Terminated(N), NEW x \in 0 .. MaxState,
         NEW p \in Nat, NEW L \in Nat
  PROVE  helpr_strat7(b, N, x, p, L) \in CStrings
<1>1. PICK src_pos \in 0 .. N - 1 : src_pos = H(N, 1, x)
  BY PlaceRange
<1>2. PICK n : n = Lower(L, N - src_pos)
  OBVIOUS
<1>3. n \in Nat /\ src_pos + n <= MAX_INP_LEN + 1 /\ src_pos \in Nat
  BY <1>1, <1>2, MutatorAssumption DEF Lower
<1>4. PICK substr : substr = Part(b, src_pos, n)
  OBVIOUS
<1>5. b \in CharArrays
  BY DEF Terminated
<1>6. substr \in Chars(n)
  BY <1>3, <1>4, <1>5, BufferPartType
<1>7. PICK at : at = [i \in 1 .. p |-> H(N, i + 1, x)]
  OBVIOUS
<1>8. at \in [1 .. p -> 0 .. N - 1]
  BY <1>7, Places
<1>9. Inject(b, N, substr, p, at) \in CStrings
  BY <1>3, <1>6, <1>8, InjectIsString
<1> QED BY <1>1, <1>2, <1>4, <1>7, <1>9 DEF helpr_strat7

LEMMA InjectCharacterIsString ==
  ASSUME NEW N \in 1 .. MAX_INP_LEN, NEW b \in Terminated(N), NEW x \in 0 .. MaxState,
         NEW p \in Nat, NEW c \in Characters
  PROVE  helpr_strat8(b, N, x, p, c) \in CStrings
<1>1. PICK s : s = [k \in 0 .. 0 |-> c]
  OBVIOUS
<1>2. s \in Chars(1) /\ 1 \in Nat
  BY <1>1 DEF Chars
<1>3. PICK at : at = [i \in 1 .. p |-> H(N, i, x)]
  OBVIOUS
<1>4. at \in [1 .. p -> 0 .. N - 1]
  BY <1>3, Places
<1>5. Inject(b, N, s, p, at) \in CStrings
  BY <1>2, <1>4, InjectIsString
<1> QED BY <1>1, <1>3, <1>5 DEF helpr_strat8

LEMMA FlipIsString ==
  ASSUME NEW N \in 1 .. MAX_INP_LEN, NEW b \in Terminated(N), NEW x \in 0 .. MaxState,
         NEW p \in Nat, NEW L \in Nat
  PROVE  helpr_strat9(b, N, x, p, L) \in CStrings
<1>1. PICK done \in [0 .. p -> Terminated(N)] : helpr_strat9(b, N, x, p, L) = done[p]
  BY FlipsRun
<1>2. done[p] \in Terminated(N)
  OBVIOUS
<1> QED BY <1>1, <1>2, TerminatedIsCString

LEMMA ShiftIsString ==
  ASSUME NEW N \in 1 .. MAX_INP_LEN, NEW b \in Terminated(N), NEW x \in 0 .. MaxState,
         NEW p \in Nat
  PROVE  /\ helpr_strat10(b, N, x, p) \in CStrings
         /\ helpr_strat11(b, N, x, p) \in CStrings
<1>1. ASSUME NEW d \in Nat PROVE Shift(b, N, x, p, d) \in CStrings
  <2>1. PICK done \in [0 .. p -> Terminated(N)] : Shift(b, N, x, p, d) = done[p]
    BY ShiftRuns
  <2>2. done[p] \in Terminated(N)
    OBVIOUS
  <2> QED BY <2>1, <2>2, TerminatedIsCString
<1>2. 1 \in Nat /\ Width - 1 \in Nat
  BY WidthType
<1> QED BY <1>1, <1>2 DEF helpr_strat10, helpr_strat11, Width

-----------------------------------------------------------------------------
(***************************************************************************)
(* The invariant: as long as nothing is undefined the buffer holds a       *)
(* string, and only a fresh input can be too long.                         *)
(***************************************************************************)
StringInv ==
    /\ TypeOK /\ StaysInBuffer
    /\ ~HoldsString(buf) => result = UNDEFINED
    /\ result \notin {NULL, UNDEFINED} => result.state = 0

LEMMA HoldsStringIs == ASSUME NEW b PROVE HoldsString(b) <=> b \in CStrings
BY DEF HoldsString, CStrings, CharArrays

LEMMA ClearedIsString == Cleared \in CStrings
BY WidthType, MutatorAssumption DEF Cleared, CStrings, CharArrays

\* The string of an input is an input again, as it is.
LEMMA MakeInputOfString ==
  ASSUME NEW s \in Strings
  PROVE  MakeInput(s) \in Inputs /\ MakeInput(s).str = s /\ MakeInput(s).state = 0
<1>1. s \in [0 .. Length(s) - 1 -> Characters \ {0}]
  BY StringType
<1>2. ~ \E k \in DOMAIN s : s[k] = 0
  BY <1>1
<1>3. MakeInput(s) = [str |-> s, state |-> 0]
  BY <1>2 DEF MakeInput
<1> QED BY <1>3, MutatorAssumption DEF Inputs

LEMMA StringInvInit == Init => StringInv
<1> SUFFICES ASSUME Init PROVE StringInv
  OBVIOUS
<1>1. PICK s \in Strings : input = MakeInput(s)
  BY MutatorAssumption DEF Init
<1>2. input \in Inputs /\ input.state = 0
  BY <1>1, MakeInputOfString
<1>3. HoldsString(buf)
  BY ClearedIsString, HoldsStringIs DEF Init
<1> QED BY <1>2, <1>3 DEF Init, StringInv, TypeOK, StaysInBuffer

\* The locals of mutate, for any input ...
LEMMA LocalsAreNat ==
  ASSUME input \in Inputs
  PROVE  NLocal \in Nat /\ SLocal \in Nat /\ Literal \in Nat
<1>1. input.str \in Strings /\ input.state \in 0 .. MaxState
  BY DEF Inputs
<1>2. NLocal \in 0 .. MaxSeedLen /\ SLocal \in Nat
  BY <1>1, StringType, MutatorAssumption DEF NLocal, SLocal
<1>3. \A j \in 1 .. 37 : Cycle[j][2] \in Nat
  BY DEF Cycle
<1>4. (SLocal % 37) + 1 \in 1 .. 37
  BY <1>2
<1> QED BY <1>2, <1>3, <1>4, MutatorAssumption DEF Literal, UNIQUE_MUTS

\* ... and for one that fits the buffer.
LEMMA LocalsType ==
  ASSUME input \in Inputs, SLocal \in 1 .. MaxState - 1, NLocal # 0,
         NLocal <= MAX_INP_LEN
  PROVE  /\ NLocal \in 1 .. MAX_INP_LEN
         /\ SLocal \in 0 .. MaxState
         /\ KLocal \in Nat \ {0}
         /\ pLocal \in Nat
         /\ Literal \in Nat
         /\ Buffer \in Terminated(NLocal)
         /\ \A k \in 0 .. NLocal - 1 : Buffer[k] = input.str[k]
<1>1. /\ input.str \in Strings /\ input.state \in 0 .. MaxState
      /\ MAX_INP_LEN \in Nat /\ MaxState \in Nat
  BY MutatorAssumption DEF Inputs
<1>2. NLocal \in 1 .. MAX_INP_LEN /\ input.str \in [0 .. NLocal - 1 -> Characters \ {0}]
  BY <1>1, StringType DEF NLocal
<1>3. SLocal \in Nat
  BY <1>1 DEF SLocal
<1>4. KLocal \in Nat \ {0} /\ pLocal \in Nat
  BY <1>3 DEF KLocal, pLocal, UNIQUE_MUTS
<1>5. \A j \in 1 .. 37 : Cycle[j][2] \in Nat
  BY DEF Cycle
<1>6. Literal \in Nat
  <2>1. (SLocal % 37) + 1 \in 1 .. 37
    BY <1>3
  <2> QED BY <1>5, <2>1 DEF Literal, UNIQUE_MUTS
<1>7. ASSUME NEW k \in 0 .. MAX_INP_LEN
      PROVE  (IF k < NLocal /\ k < MAX_INP_LEN THEN input.str[k] ELSE 0) \in Characters
  BY <1>2, WidthType
<1>8. Buffer \in CharArrays
  BY <1>7 DEF Buffer, CharArrays
<1>9. NLocal \in 0 .. MAX_INP_LEN /\ \A k \in 0 .. NLocal - 1 : k \in 0 .. MAX_INP_LEN
  BY <1>1, <1>2
<1>10. Buffer[NLocal] = 0 /\ \A k \in 0 .. NLocal - 1 : Buffer[k] = input.str[k]
  BY <1>1, <1>2, <1>9 DEF Buffer
<1> QED BY <1>1, <1>2, <1>3, <1>4, <1>6, <1>8, <1>10 DEF Terminated, SLocal

\* A call that leaves a string in the buffer.
LEMMA SendsKeeps ==
  ASSUME StringInv, SLocal < MaxState, NEW b \in CStrings, NEW m \in Inputs, m.state = 0,
         SLocal >= 1 => Length(m.str) <= MAX_INP_LEN,
         NLocal > MAX_INP_LEN => SLocal <= 1, Sends(b, m)
  PROVE  StringInv'
<1>1. input \in Inputs /\ input.state < MaxState /\ input.state \in 0 .. MaxState
  BY DEF SLocal, Inputs, StringInv, TypeOK
<1>2. input.state + 1 \in 0 .. MaxState
  BY <1>1, MutatorAssumption
<1>3. input' \in Inputs /\ input'.str = input.str /\ input'.state = input.state + 1
  BY <1>1, <1>2 DEF Sends, InputStateStep, Inputs
<1>4. HoldsString(b) /\ buf' = b /\ result' = m
  BY HoldsStringIs DEF Sends
<1>5. TypeOK'
  BY <1>1, <1>3, <1>4 DEF TypeOK, SLocal
<1>6. StaysInBuffer'
  BY <1>1, <1>3, <1>4 DEF StaysInBuffer, SLocal, NLocal
<1> QED BY <1>4, <1>5, <1>6 DEF StringInv

\* A call that does not.
LEMMA OverrunKeeps ==
  ASSUME StringInv, SLocal < MaxState, SLocal \in {1, 2}, NLocal > MAX_INP_LEN,
         NEW b, b \notin CStrings, Sends(b, UNDEFINED)
  PROVE  StringInv'
<1>1. input \in Inputs /\ input.state < MaxState /\ input.state \in 0 .. MaxState
      /\ input.state \in {1, 2}
  BY DEF SLocal, Inputs, StringInv, TypeOK
<1>2. input.state + 1 \in 0 .. MaxState
  BY <1>1, MutatorAssumption
<1>3. input' \in Inputs /\ input'.str = input.str /\ input'.state = input.state + 1
  BY <1>1, <1>2 DEF Sends, InputStateStep, Inputs
<1>4. ~HoldsString(b) /\ buf' = b /\ result' = UNDEFINED
  BY HoldsStringIs DEF Sends
<1> QED BY <1>1, <1>3, <1>4 DEF StringInv, TypeOK, StaysInBuffer, NLocal

\* An input that is too long has been mutated at most once.
LEMMA LongIsFresh ==
  ASSUME StringInv, result # UNDEFINED, NLocal > MAX_INP_LEN
  PROVE  SLocal <= 2
BY DEF StringInv, StaysInBuffer, SLocal

LEMMA MutatesKeeps ==
  ASSUME StringInv, NEW s, NEW b, Mutates(s, b),
         SLocal \in 1 .. MaxState - 1 /\ NLocal # 0 /\ NLocal <= MAX_INP_LEN => b \in CStrings,
         s = 3 /\ NLocal > MAX_INP_LEN => b \notin CStrings
  PROVE  StringInv'
<1>1. /\ SLocal \in 1 .. MaxState - 1 /\ NLocal # 0 /\ result # UNDEFINED /\ Strategy = s
      /\ Sends(b, IF HoldsString(b) THEN MakeInput(b) ELSE UNDEFINED)
  BY DEF Mutates, Sends
<1>2. SLocal < MaxState /\ SLocal \in Nat /\ SLocal >= 1 /\ MAX_INP_LEN \in Nat /\ NLocal \in Nat
  <2>1. input.str \in Strings
    BY DEF StringInv, TypeOK, Inputs
  <2>2. NLocal \in 0 .. MaxSeedLen
    BY <2>1, StringType DEF NLocal
  <2> QED BY <1>1, <2>2, MutatorAssumption
<1>3. NLocal > MAX_INP_LEN => SLocal \in {1, 2}
  BY <1>1, <1>2, LongIsFresh
<1>4. SLocal = 2 => s = 3
  BY <1>1 DEF Strategy, Cycle, UNIQUE_MUTS
<1>5. CASE b \in CStrings
  <2>1. MakeInput(b) \in Inputs /\ MakeInput(b).state = 0 /\ Length(MakeInput(b).str) <= MAX_INP_LEN
    BY <1>5, MakeInputType DEF CStrings
  <2>2. Sends(b, MakeInput(b))
    BY <1>1, <1>5, HoldsStringIs
  <2>3. NLocal > MAX_INP_LEN => SLocal <= 1
    BY <1>3, <1>4, <1>5
  <2> QED BY <1>2, <1>5, <2>1, <2>2, <2>3, SendsKeeps
<1>6. CASE b \notin CStrings
  <2>1. Sends(b, UNDEFINED) /\ NLocal > MAX_INP_LEN
    BY <1>1, <1>2, <1>6, HoldsStringIs
  <2> QED BY <1>2, <1>3, <1>6, <2>1, OverrunKeeps
<1> QED BY <1>5, <1>6

LEMMA StringInvNext == StringInv /\ [Next]_vars => StringInv'
<1> SUFFICES ASSUME StringInv, [Next]_vars PROVE StringInv'
  OBVIOUS
<1> DEFINE Busy == SLocal \in 1 .. MaxState - 1 /\ NLocal # 0 /\ NLocal <= MAX_INP_LEN
<1>1. input \in Inputs /\ result \in Inputs \cup {NULL, UNDEFINED}
  BY DEF StringInv, TypeOK
<1>2. Busy => /\ NLocal \in 1 .. MAX_INP_LEN /\ SLocal \in 0 .. MaxState
              /\ KLocal \in Nat /\ pLocal \in Nat /\ Literal \in Nat
              /\ Buffer \in Terminated(NLocal)
  BY <1>1, LocalsType
<1>3. CASE FillToLength
  <2>1. Busy => helpr_strat1(Buffer, NLocal, KLocal) \in CStrings
    BY <1>2, FillIsString
  <2> QED BY <1>3, <2>1, MutatesKeeps DEF FillToLength
<1>4. CASE Duplicate
  <2>1. Busy => helpr_strat2(Buffer, NLocal, KLocal) \in CStrings
    BY <1>2, DuplicateIsString
  <2> QED BY <1>4, <2>1, MutatesKeeps DEF Duplicate
<1>5. CASE Lengthen
  <2>1. Busy => helpr_strat3(Buffer, NLocal, SLocal, Literal) \in CStrings
    BY <1>2, LengthenIsString
  <2>2. NLocal > MAX_INP_LEN => helpr_strat3(Buffer, NLocal, SLocal, Literal) \notin CStrings
    BY <1>1, LocalsAreNat, LengthenOverruns
  <2> QED BY <1>5, <2>1, <2>2, MutatesKeeps DEF Lengthen
<1>6. CASE Truncate
  <2>1. Busy => helpr_strat4(Buffer, NLocal, SLocal) \in CStrings
    BY <1>2, TruncateIsString
  <2> QED BY <1>6, <2>1, MutatesKeeps DEF Truncate
<1>7. CASE InjectString
  <2>1. Busy => helpr_strat5(Buffer, NLocal, SLocal, pLocal, Text(Literal)) \in CStrings
    BY <1>2, InjectTextIsString, TextType
  <2> QED BY <1>7, <2>1, MutatesKeeps DEF InjectString
<1>8. CASE InjectInteger
  <2>1. Busy => helpr_strat6(Buffer, NLocal, SLocal, pLocal) \in CStrings
    BY <1>2, InjectIntegerIsString
  <2> QED BY <1>8, <2>1, MutatesKeeps DEF InjectInteger
<1>9. CASE InjectSubstring
  <2>1. Busy => helpr_strat7(Buffer, NLocal, SLocal, pLocal, Literal) \in CStrings
    BY <1>2, InjectPartIsString
  <2> QED BY <1>9, <2>1, MutatesKeeps DEF InjectSubstring
<1>10. CASE InjectCharacter
  <2>1. Busy => helpr_strat8(Buffer, NLocal, SLocal, pLocal, Character(Literal)) \in CStrings
    BY <1>2, InjectCharacterIsString, CharacterType
  <2> QED BY <1>10, <2>1, MutatesKeeps DEF InjectCharacter
<1>11. CASE FlipBits
  <2>1. Busy => helpr_strat9(Buffer, NLocal, SLocal, pLocal, Literal) \in CStrings
    BY <1>2, FlipIsString
  <2> QED BY <1>11, <2>1, MutatesKeeps DEF FlipBits
<1>12. CASE Increment
  <2>1. Busy => helpr_strat10(Buffer, NLocal, SLocal, pLocal) \in CStrings
    BY <1>2, ShiftIsString
  <2> QED BY <1>12, <2>1, MutatesKeeps DEF Increment
<1>13. CASE Decrement
  <2>1. Busy => helpr_strat11(Buffer, NLocal, SLocal, pLocal) \in CStrings
    BY <1>2, ShiftIsString
  <2> QED BY <1>13, <2>1, MutatesKeeps DEF Decrement
<1>14. CASE MutateEmpty
  <2>1. <<>> \in Strings /\ Length(<<>>) = 0
    <3>1. <<>> \in [0 .. 0 - 1 -> Characters \ {0}] /\ 0 \in 0 .. MaxSeedLen
          /\ DOMAIN <<>> = 0 .. 0 - 1
      BY MutatorAssumption
    <3> QED BY <3>1, LengthIs DEF Strings
  <2>2. SLocal < MaxState /\ Sends(Cleared, MakeInput(<<>>)) /\ NLocal = 0
    BY <1>14, MutatorAssumption DEF MutateEmpty
  <2>3. MAX_INP_LEN \in Nat /\ Length(MakeInput(<<>>).str) <= MAX_INP_LEN
    BY <2>1, MakeInputOfString, MutatorAssumption
  <2> QED BY <2>1, <2>2, <2>3, MakeInputOfString, ClearedIsString, SendsKeeps
<1>15. CASE SendItself
  <2>1. input.str \in Strings /\ SLocal < MaxState /\ Sends(Cleared, MakeInput(input.str)) /\ SLocal = 0
    BY <1>1, <1>15, MutatorAssumption DEF SendItself, Inputs
  <2> QED BY <2>1, MakeInputOfString, ClearedIsString, SendsKeeps
<1>16. CASE Requeue
  <2>1. input' \in Inputs /\ input'.state = 0
    BY <1>1, <1>16 DEF Requeue, StringInv
  <2>2. HoldsString(Cleared)
    BY ClearedIsString, HoldsStringIs
  <2> QED BY <1>16, <2>1, <2>2 DEF Requeue, StringInv, TypeOK, StaysInBuffer
<1>17. CASE UNCHANGED vars
  BY <1>17 DEF vars, StringInv, TypeOK, StaysInBuffer, NLocal
<1> QED BY <1>3, <1>4, <1>5, <1>6, <1>7, <1>8, <1>9, <1>10, <1>11, <1>12, <1>13, <1>14,
           <1>15, <1>16, <1>17 DEF Next, Mutate, AfterUndefined

THEOREM StringInvariance == Spec => []StringInv
<1> QED BY StringInvInit, StringInvNext, PTL DEF Spec

\* Whatever is mutated, a seed line of any length included, what mutate returns is a
\* string that fits its buffer, unless the buffer was overrun.
THEOREM MutatorTypeCorrect == Spec => []TypeOK
<1>1. StringInv => TypeOK
  BY DEF StringInv
<1> QED BY <1>1, StringInvariance, PTL

\* For seed lines of any length: no strategy writes outside buf[MAX_INP_LEN + 1] or
\* leaves it without a NUL unless the line is longer than that, and then the second
\* mutation does.
THEOREM WritesInBounds == Spec => []StaysInBuffer
<1>1. StringInv => StaysInBuffer
  BY DEF StringInv
<1> QED BY <1>1, StringInvariance, PTL
=============================================================================
