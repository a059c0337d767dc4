---------------------------- MODULE MutationProofs ---------------------------
(***************************************************************************)
(* mutator.c computes the strings that Mutation.md specifies, for any      *)
(* buffer length, width of characters, hash function and number of         *)
(* mutations: the closed form of each loop, by induction over its rounds.  *)
(***************************************************************************)
EXTENDS MutatorProofs

(***************************************************************************)
(* The notions that Mutator and MutationSpec share.                        *)
(***************************************************************************)
LEMMA SamePow2 == MD!Pow2 = Pow2
BY DEF MD!Pow2, Pow2

LEMMA SameHelpers ==
  /\ \A s : MD!Length(s) = Length(s)
  /\ \A a, b : MD!Lower(a, b) = Lower(a, b)
<1>1. \A S : MD!Cardinality(S) = Cardinality(S)
  BY DEF MD!Cardinality, Cardinality
<1>2. \A s : MD!Length(s) = Length(s)
  BY <1>1 DEF MD!Length, Length
<1>3. \A a, b : MD!Lower(a, b) = Lower(a, b)
  BY DEF MD!Lower, Lower
<1> QED BY <1>2, <1>3

LEMMA SameHash ==
  ASSUME NEW n, n # 0, NEW m, NEW x
  PROVE  MD!Iterated(n, m, x) = H(n, m, x)
BY DEF MD!Iterated, H

\* make_input stops where the specification cuts: at the first NUL.
LEMMA CutIs ==
  ASSUME NEW b \in CharArrays, NEW n \in 0 .. MAX_INP_LEN, b[n] = 0,
         NEW s, s = [j \in 0 .. n - 1 |-> b[j]]
  PROVE  MakeInput(b).str = MD!Cut(s) /\ MakeInput(b).state = 0
<1>1. MAX_INP_LEN \in Nat /\ DOMAIN b = 0 .. MAX_INP_LEN
  BY MutatorAssumption DEF CharArrays
<1> DEFINE IsFirst(i) == b[i] = 0 /\ \A k \in 0 .. i - 1 : b[k] # 0
<1>2. PICK m \in DOMAIN b : m = strlen(b) /\ IsFirst(m)
  <2> DEFINE nuls == {k \in 0 .. MAX_INP_LEN : b[k] = 0}
  <2>1. PICK m \in nuls : \A k \in nuls : m <= k
    <3>1. nuls \subseteq Nat /\ nuls # {}
      BY <1>1
    <3> HIDE DEF nuls
    <3> QED BY <3>1, LeastExists
  <2>2. m \in DOMAIN b /\ IsFirst(m)
    BY <1>1, <2>1
  <2>3. strlen(b) = CHOOSE i \in DOMAIN b : IsFirst(i)
    BY DEF strlen
  <2> HIDE DEF IsFirst
  <2> QED BY <2>2, <2>3
<1>3. m \in 0 .. n /\ b[m] = 0 /\ \A k \in 0 .. m - 1 : b[k] # 0
  BY <1>1, <1>2
<1>4. MakeInput(b) = [str |-> [k \in 0 .. m - 1 |-> b[k]], state |-> 0]
  BY <1>1, <1>2 DEF MakeInput
<1>5. MD!Cut(s) = [k \in 0 .. m - 1 |-> b[k]]
  <2> DEFINE nuls == {k \in DOMAIN s : s[k] = 0}
  <2>1. \A k : k \in nuls <=> k \in 0 .. n - 1 /\ b[k] = 0
    OBVIOUS
  <2>2. CASE m = n
    <3>1. nuls = {}
      BY <1>1, <1>3, <2>1, <2>2
    <3> QED BY <2>2, <3>1 DEF MD!Cut
  <2>3. CASE m # n
    <3>1. m \in nuls /\ \A k \in nuls : m <= k
      BY <1>1, <1>3, <2>1, <2>3
    <3>2. MD!First(nuls) = m
      <4>1. nuls \subseteq Nat
        BY <1>1, <2>1
      <4>2. \A x \in nuls : (\A y \in nuls : x <= y) => x = m
        BY <3>1, <4>1
      <4> HIDE DEF nuls
      <4> QED BY <3>1, <4>2 DEF MD!First
    <3>3. MD!Cut(s) = [k \in 0 .. m - 1 |-> s[k]]
      BY <3>1, <3>2 DEF MD!Cut
    <3>4. \A k \in 0 .. m - 1 : s[k] = b[k]
      BY <1>1, <1>3
    <3> QED BY <3>3, <3>4
  <2> QED BY <2>2, <2>3
<1> QED BY <1>4, <1>5

\* The input that make_input makes of a buffer.
Yields(b, str) == MakeInput(b).str = str /\ MakeInput(b).state = 0

LEMMA PointsMatch ==
  ASSUME NEW r \in CharArrays, NEW n \in 0 .. MAX_INP_LEN, r[n] = 0,
         NEW s, s = [j \in 0 .. n - 1 |-> s[j]], \A j \in 0 .. n - 1 : r[j] = s[j]
  PROVE  Yields(r, MD!Cut(s))
<1>1. s = [j \in 0 .. n - 1 |-> r[j]]
  OBVIOUS
<1> QED BY <1>1, CutIs DEF Yields

LEMMA PutMatches ==
  ASSUME NEW c \in CharArrays, NEW n \in 0 .. MAX_INP_LEN,
         NEW s, s = [j \in 0 .. n - 1 |-> s[j]], \A j \in 0 .. n - 1 : c[j] = s[j]
  PROVE  Yields(Put(c, n, 0), MD!Cut(s))
<1>1. PICK r : r = Put(c, n, 0)
  OBVIOUS
<1>2. MAX_INP_LEN \in Nat /\ 0 \in Characters
  BY MutatorAssumption, WidthType
<1>3. r \in CharArrays /\ \A k \in 0 .. MAX_INP_LEN : r[k] = IF k = n THEN 0 ELSE c[k]
  BY <1>1, <1>2, PutKeeps
<1>4. r[n] = 0 /\ \A j \in 0 .. n - 1 : r[j] = s[j]
  BY <1>2, <1>3
<1> QED BY <1>1, <1>3, <1>4, PointsMatch

-----------------------------------------------------------------------------
(***************************************************************************)
(* The strategies without a loop over places.  The buffer b holds the      *)
(* string A of N characters.                                               *)
(***************************************************************************)
LEMMA FillIs ==
  ASSUME NEW A, NEW N \in 1 .. MAX_INP_LEN, N = Length(A), NEW b \in Terminated(N),
         \A k \in 0 .. N - 1 : b[k] = A[k], NEW K \in Nat
  PROVE  Yields(helpr_strat1(b, N, K), MD!FillWith(A, K, Character(0)))
<1>1. PICK target : target = Lower(Pow2[K], MAX_INP_LEN)
  OBVIOUS
<1>2. target \in 0 .. MAX_INP_LEN /\ MAX_INP_LEN \in Nat
  BY <1>1, Pow2Steps, MutatorAssumption DEF Lower
<1>3. PICK filled : filled = IF target > N
                             THEN Copy(b, N, [k \in 0 .. target - N - 1 |-> Character(0)])
                             ELSE b
  OBVIOUS
<1>4. PICK s : s = [j \in 0 .. target - 1 |-> IF j < N THEN A[j] ELSE Character(0)]
  OBVIOUS
<1>5. b \in CharArrays
  BY DEF Terminated
<1>6. filled \in CharArrays /\ \A j \in 0 .. target - 1 : filled[j] = s[j]
  <2>1. CASE target > N
    <3>1. PICK n \in Nat : n = target - N
      BY <1>2, <2>1
    <3>2. PICK t : t = [k \in 0 .. n - 1 |-> Character(0)]
      OBVIOUS
    <3>3. t \in Chars(n)
      BY <3>2, CharacterType DEF Chars
    <3>4. N \in Nat /\ N + n <= MAX_INP_LEN + 1 /\ N + n = target
      BY <1>2, <3>1
    <3>5. /\ Copy(b, N, t) \in CharArrays
          /\ \A k \in 0 .. MAX_INP_LEN :
                Copy(b, N, t)[k] = IF k \in N .. N + n - 1 THEN t[k - N] ELSE b[k]
      BY <1>5, <3>3, <3>4, CopyKeeps
    <3>6. filled = Copy(b, N, t)
      BY <1>3, <2>1, <3>1, <3>2
    <3>7. ASSUME NEW j \in 0 .. target - 1 PROVE filled[j] = s[j]
      <4>1. j \in 0 .. MAX_INP_LEN /\ (j \in N .. N + n - 1 <=> ~(j < N))
        BY <1>2, <3>4
      <4>2. j >= N => j - N \in 0 .. n - 1
        BY <1>2, <3>4
      <4>3. CASE j < N
        <5>1. j \in 0 .. N - 1
          BY <4>3, <1>2
        <5> QED BY <1>4, <3>5, <3>6, <4>1, <4>3, <5>1
      <4>4. CASE ~(j < N)
        <5>1. t[j - N] = Character(0)
          BY <1>2, <3>2, <4>2, <4>4
        <5> QED BY <1>4, <3>5, <3>6, <4>1, <4>4, <5>1
      <4> QED BY <4>3, <4>4
    <3> QED BY <3>5, <3>6, <3>7
  <2>2. CASE ~(target > N)
    <3>1. ASSUME NEW j \in 0 .. target - 1 PROVE b[j] = s[j]
      <4>1. j < N /\ j \in 0 .. N - 1
        BY <1>2, <2>2
      <4> QED BY <1>4, <4>1
    <3> QED BY <1>3, <1>5, <2>2, <3>1
  <2> QED BY <2>1, <2>2
<1>7. s = [j \in 0 .. target - 1 |-> s[j]]
  BY <1>4
<1>8. Yields(Put(filled, target, 0), MD!Cut(s))
  BY <1>2, <1>6, <1>7, PutMatches
<1>9. helpr_strat1(b, N, K) = Put(filled, target, 0)
  BY <1>1, <1>3 DEF helpr_strat1
<1>10. MD!FillWith(A, K, Character(0)) = MD!Cut(s)
  BY <1>1, <1>4, SamePow2, SameHelpers DEF MD!FillWith
<1> QED BY <1>8, <1>9, <1>10

LEMMA LengthenIs ==
  ASSUME NEW A, NEW N \in 1 .. MAX_INP_LEN, N = Length(A), NEW b \in Terminated(N),
         \A k \in 0 .. N - 1 : b[k] = A[k], NEW x \in 0 .. MaxState, NEW L \in Nat
  PROVE  Yields(helpr_strat3(b, N, x, L), MD!Lengthened(A, x, L))
<1>1. PICK new_len : new_len = Lower(N + L, MAX_INP_LEN)
  OBVIOUS
<1>2. MAX_INP_LEN \in Nat /\ new_len \in N .. MAX_INP_LEN /\ N \in Nat
  BY <1>1, MutatorAssumption DEF Lower
<1>3. PICK n \in Nat : n = new_len - N
  BY <1>2
<1>4. PICK t : t = [k \in 0 .. n - 1 |-> b[H(N, k + 1, x)]]
  OBVIOUS
<1>5. b \in CharArrays
  BY DEF Terminated
<1>6. ASSUME NEW k \in 0 .. n - 1
      PROVE  b[H(N, k + 1, x)] \in Characters /\ b[H(N, k + 1, x)] = A[H(N, k + 1, x)]
  <2>1. k + 1 \in Nat \ {0}
    OBVIOUS
  <2>2. H(N, k + 1, x) \in 0 .. N - 1
    BY <2>1, PlaceRange
  <2>3. H(N, k + 1, x) \in 0 .. MAX_INP_LEN
    BY <1>2, <2>2
  <2> QED BY <1>5, <2>2, <2>3 DEF CharArrays
<1>7. t \in Chars(n)
  BY <1>4, <1>6 DEF Chars
<1>8. N + n <= MAX_INP_LEN + 1 /\ new_len \in 0 .. MAX_INP_LEN /\ N + n = new_len
  BY <1>2, <1>3
<1>9. /\ Copy(b, N, t) \in CharArrays
      /\ \A k \in 0 .. MAX_INP_LEN :
            Copy(b, N, t)[k] = IF k \in N .. N + n - 1 THEN t[k - N] ELSE b[k]
  BY <1>2, <1>5, <1>7, <1>8, CopyKeeps
<1>10. helpr_strat3(b, N, x, L) = Put(Copy(b, N, t), new_len, 0)
  <2>1. Adds(N, L, new_len, n)
    BY <1>1, <1>3 DEF Adds
  <2>2. Lengthens(b, N, x, L, new_len, n)
    BY <2>1, LengthenFits
  <2> QED BY <1>4, <2>2 DEF Lengthens
<1>11. PICK s : s = [j \in 0 .. new_len - 1 |->
                        IF j < N THEN A[j] ELSE A[H(N, j - N + 1, x)]]
  OBVIOUS
<1>12. ASSUME NEW j \in 0 .. new_len - 1 PROVE Copy(b, N, t)[j] = s[j]
  <2>1. j \in 0 .. MAX_INP_LEN /\ (j \in N .. N + n - 1 <=> ~(j < N))
    BY <1>2, <1>8
  <2>2. CASE j < N
    <3>1. j \in 0 .. N - 1
      BY <1>2, <2>2
    <3> QED BY <1>9, <1>11, <2>1, <2>2, <3>1
  <2>3. CASE ~(j < N)
    <3>1. PICK k \in 0 .. n - 1 : k = j - N
      BY <1>2, <1>8, <2>3
    <3>2. t[k] = A[H(N, k + 1, x)]
      BY <1>4, <1>6
    <3> QED BY <1>9, <1>11, <2>1, <2>3, <3>1, <3>2
  <2> QED BY <2>2, <2>3
<1>13. s = [j \in 0 .. new_len - 1 |-> s[j]]
  BY <1>11
<1>14. Yields(Put(Copy(b, N, t), new_len, 0), MD!Cut(s))
  BY <1>8, <1>9, <1>12, <1>13, PutMatches
<1>15. MD!Lengthened(A, x, L) = MD!Cut(s)
  <2>1. N # 0 /\ \A m : MD!Iterated(N, m, x) = H(N, m, x)
    BY <1>2, SameHash
  <2> QED BY <1>1, <1>11, <2>1, SameHelpers DEF MD!Lengthened
<1> QED BY <1>10, <1>14, <1>15

LEMMA TruncateIs ==
  ASSUME NEW A, NEW N \in 1 .. MAX_INP_LEN, N = Length(A), NEW b \in Terminated(N),
         \A k \in 0 .. N - 1 : b[k] = A[k], NEW x \in 0 .. MaxState
  PROVE  Yields(helpr_strat4(b, N, x), MD!Truncated(A, x))
<1>1. PICK n \in 0 .. N - 1 : n = H(N, 1, x)
  BY PlaceRange
<1>2. MAX_INP_LEN \in Nat /\ n \in 0 .. MAX_INP_LEN /\ b \in CharArrays /\ N # 0
  BY <1>1, MutatorAssumption DEF Terminated
<1>3. PICK s : s = [j \in 0 .. n - 1 |-> A[j]]
  OBVIOUS
<1>4. s = [j \in 0 .. n - 1 |-> s[j]] /\ \A j \in 0 .. n - 1 : b[j] = s[j]
  BY <1>1, <1>2, <1>3
<1>5. Yields(Put(b, n, 0), MD!Cut(s))
  BY <1>2, <1>4, PutMatches
<1>6. MD!Truncated(A, x) = MD!Cut(s)
  BY <1>1, <1>2, <1>3, SameHelpers, SameHash DEF MD!Truncated
<1> QED BY <1>1, <1>5, <1>6 DEF helpr_strat4

-----------------------------------------------------------------------------
(***************************************************************************)
(* Quotients, remainders and numbers of rounds.                            *)
(***************************************************************************)
LEMMA QuotientIs ==
  ASSUME NEW m \in Nat \ {0}, NEW q \in Nat, NEW r \in 0 .. m - 1, NEW c, c = (m * q) + r
  PROVE  c \div m = q /\ c % m = r
<1>1. m * q \in Nat /\ c \in Nat
  OBVIOUS
<1>2. PICK u, v : u = c \div m /\ v = c % m
  OBVIOUS
<1>3. u \in Nat /\ v \in 0 .. m - 1 /\ c = (m * u) + v /\ m * u \in Nat
  BY <1>1, <1>2, DivMod, TimesGrows
<1>4. PICK x, y \in Nat : x = m * q /\ y = m * u
  BY <1>1, <1>3
<1>5. x + r = y + v
  BY <1>3, <1>4
<1>6. ~(u < q)
  <2>1. SUFFICES ASSUME u < q PROVE FALSE
    OBVIOUS
  <2>2. PICK w \in Nat : w = u + 1
    BY <1>3
  <2>3. m * w = y + m /\ w <= q
    BY <1>3, <1>4, <2>1, <2>2, TimesGrows
  <2>4. m * w <= x
    BY <1>4, <2>2, <2>3, TimesGrows
  <2>5. y + m <= x
    BY <2>3, <2>4
  <2> QED BY <1>3, <1>4, <1>5, <2>5
<1>7. ~(q < u)
  <2>1. SUFFICES ASSUME q < u PROVE FALSE
    OBVIOUS
  <2>2. PICK w \in Nat : w = q + 1
    OBVIOUS
  <2>3. m * w = x + m /\ w <= u
    BY <1>3, <1>4, <2>1, <2>2, TimesGrows
  <2>4. m * w <= y
    BY <1>3, <1>4, <2>2, <2>3, TimesGrows
  <2>5. x + m <= y
    BY <2>3, <2>4
  <2> QED BY <1>3, <1>4, <1>5, <2>5
<1>8. u = q
  BY <1>3, <1>6, <1>7
<1>9. v = r
  BY <1>3, <1>4, <1>5, <1>8
<1> QED BY <1>2, <1>8, <1>9

LEMMA SmallRemainder == ASSUME NEW m \in Nat \ {0}, NEW r \in 0 .. m - 1 PROVE r % m = r
<1>1. r = (m * 0) + r
  OBVIOUS
<1> QED BY <1>1, QuotientIs

LEMMA MultipleRemainder ==
  ASSUME NEW m \in Nat \ {0}, NEW q \in Nat, NEW r \in 0 .. m - 1, NEW a, a = m * q,
         NEW c, c = a + r
  PROVE  c \div m = q /\ c % m = r
BY QuotientIs

\* Taking remainders in between changes no sum.
LEMMA RemainderOfSum ==
  ASSUME NEW u \in Nat, NEW d \in Nat, NEW w \in Nat \ {0}
  PROVE  ((u % w) + d) % w = (u + d) % w
<1>1. PICK q \in Nat, r \in 0 .. w - 1 : u = (w * q) + r /\ r = u % w
  BY DivMod
<1>2. PICK k \in Nat, v \in 0 .. w - 1 : r + d = (w * k) + v /\ v = (r + d) % w
  <2>1. r + d \in Nat
    OBVIOUS
  <2> QED BY <2>1, DivMod
<1>3. PICK n \in Nat : n = q + k
  OBVIOUS
<1>4. w * n = (w * q) + (w * k)
  BY <1>3
<1>5. PICK x, y \in Nat : x = w * q /\ y = w * k
  OBVIOUS
<1>6. PICK c \in Nat : c = u + d
  OBVIOUS
<1>7. c = (w * n) + v
  <2>1. c = (x + y) + v
    <3>1. u = x + r /\ r + d = y + v
      BY <1>1, <1>2, <1>5
    <3> QED BY <1>6, <3>1
  <2> QED BY <1>4, <1>5, <2>1
<1>8. c % w = v
  BY <1>3, <1>7, QuotientIs
<1> QED BY <1>1, <1>2, <1>6, <1>8

\* One more round, and how many of them are in R.
LEMMA CountRound ==
  ASSUME NEW R, NEW i \in Nat \ {0}
  PROVE  /\ Cardinality((1 .. i) \cap R) \in Nat
         /\ Cardinality((1 .. i - 1) \cap R) \in Nat
         /\ Cardinality((1 .. i) \cap R) =
               Cardinality((1 .. i - 1) \cap R) + (IF i \in R THEN 1 ELSE 0)
<1> DEFINE before == (1 .. i - 1) \cap R
           after == (1 .. i) \cap R
<1>1. IsFiniteSet(1 .. i - 1) /\ IsFiniteSet(1 .. i)
  BY FS_Interval
<1>2. IsFiniteSet(before) /\ IsFiniteSet(after)
  BY <1>1, FS_Subset
<1>3. Cardinality(before) \in Nat /\ Cardinality(after) \in Nat
  BY <1>2, FS_CardinalityType
<1>4. CASE i \in R
  <2>1. after = before \cup {i} /\ i \notin before
    BY <1>4
  <2>2. Cardinality(before \cup {i}) = Cardinality(before) + 1
    <3> HIDE DEF before
    <3> QED BY <1>2, <2>1, FS_AddElement
  <2> QED BY <1>3, <1>4, <2>1, <2>2
<1>5. CASE i \notin R
  <2>1. after = before
    BY <1>5
  <2>2. PICK n \in Nat : n = Cardinality(before)
    BY <1>3
  <2>3. Cardinality(after) = n
    BY <2>1, <2>2, Zenon
  <2> QED BY <1>5, <2>2, <2>3
<1> QED BY <1>4, <1>5

LEMMA NoRounds == ASSUME NEW R PROVE Cardinality((1 .. 0) \cap R) = 0
<1>1. (1 .. 0) \cap R = {}
  OBVIOUS
<1> QED BY <1>1, FS_EmptySet

LEMMA LastIs ==
  ASSUME NEW S, S \subseteq Nat, NEW m \in S, \A y \in S : y <= m
  PROVE  MD!Last(S) = m
<1>1. \A x \in S : (\A y \in S : y <= x) => x = m
  OBVIOUS
<1> QED BY <1>1 DEF MD!Last

-----------------------------------------------------------------------------
(***************************************************************************)
(* Duplicating.                                                            *)
(***************************************************************************)
\* The first n of the m characters of c repeat A.
Repeats(c, A, N, m, n) == \A k \in 0 .. m - 1 : k < n => c[k] = A[k % N]

\* A copy of the string, after a multiple of its length.
LEMMA DuplicateStep ==
  ASSUME NEW A, NEW N \in 1 .. MAX_INP_LEN, NEW c \in CharArrays,
         NEW m \in 0 .. MAX_INP_LEN, NEW a \in Nat, N <= a, a % N = 0, a < m,
         NEW r, r = Copy(c, a, Part(c, 0, Lower(N, m - a))),
         Repeats(c, A, N, m, a)
  PROVE  Repeats(r, A, N, m, a + N)
<1>1. MAX_INP_LEN \in Nat /\ m \in Nat /\ m <= MAX_INP_LEN /\ N \in Nat \ {0}
  BY MutatorAssumption
<1>2. \A k \in 0 .. MAX_INP_LEN :
         r[k] = IF a <= k /\ k < a + N /\ k < m THEN c[k - a] ELSE c[k]
  <2>1. r \in CharArrays /\ (N <= a => Overlaid(r, c, a, N, m))
    BY DuplicateRound, Zenon
  <2> QED BY <2>1 DEF Overlaid
<1> SUFFICES ASSUME NEW k \in 0 .. m - 1, k < a + N PROVE r[k] = A[k % N]
  BY DEF Repeats
<1>3. k \in 0 .. MAX_INP_LEN /\ k < m /\ k \in Nat
  BY <1>1
<1>4. CASE k < a
  BY <1>1, <1>2, <1>3, <1>4 DEF Repeats
<1>5. CASE ~(k < a)
  <2>1. PICK j \in Nat : j = k - a
    BY <1>3, <1>5
  <2>2. k = a + j /\ j < a /\ j \in 0 .. m - 1
    BY <1>1, <1>3, <1>5, <2>1
  <2>3. r[k] = A[j % N]
    BY <1>2, <1>3, <1>5, <2>1, <2>2 DEF Repeats
  <2>4. ((a % N) + j) % N = (a + j) % N
    BY <1>1, RemainderOfSum
  <2>5. j % N = k % N
    BY <2>2, <2>4
  <2> QED BY <2>3, <2>5
<1> QED BY <1>4, <1>5

LEMMA DuplicateIs ==
  ASSUME NEW A, NEW N \in 1 .. MAX_INP_LEN, N = Length(A), NEW b \in Terminated(N),
         \A k \in 0 .. N - 1 : b[k] = A[k], NEW K \in Nat
  PROVE  Yields(helpr_strat2(b, N, K), MD!Duplicated(A, K))
<1>1. PICK new_len : new_len = Lower(N * (K + 1), MAX_INP_LEN)
  OBVIOUS
<1>2. N * (K + 1) \in Nat
  BY MutatorAssumption
<1>3. MAX_INP_LEN \in Nat /\ N \in Nat \ {0} /\ new_len \in 0 .. MAX_INP_LEN
  BY <1>2, <1>1, MutatorAssumption DEF Lower
<1>4. b \in CharArrays
  BY DEF Terminated
<1>5. PICK done \in [0 .. K -> CharArrays] :
         Duplicates(done, b, N, K, new_len) /\ helpr_strat2(b, N, K) = Put(done[K], new_len, 0)
  BY <1>1, <1>3, <1>4, DuplicateRuns
<1> DEFINE T == {i \in 0 .. K : Repeats(done[i], A, N, new_len, N * (i + 1))}
<1>6. 0 \in T
  <2>1. ASSUME NEW k \in 0 .. new_len - 1, k < N * (0 + 1) PROVE done[0][k] = A[k % N]
    <3>1. k \in 0 .. N - 1 /\ k = (N * 0) + k
      BY <1>3, <2>1
    <3>2. k % N = k
      BY <1>3, <3>1, QuotientIs
    <3> QED BY <1>5, <3>1, <3>2 DEF Duplicates
  <2> QED BY <2>1 DEF Repeats
<1>7. ASSUME NEW i \in 1 .. K, i - 1 \in T PROVE i \in T
  <2>1. PICK a \in Nat : a = N * i
    BY <1>3
  <2>2. N * (i + 1) = a + N /\ N * ((i - 1) + 1) = a /\ i \in Nat /\ i > 0 /\ N <= a
    <3>1. (i - 1) + 1 = i /\ i \in Nat /\ i >= 1 /\ i > 0 /\ N * 1 = N
      BY <1>3
    <3>2. N * (i + 1) = N * i + N /\ N * 1 <= N * i
      BY <1>3, <3>1, TimesGrows
    <3> QED BY <2>1, <3>1, <3>2
  <2>3. Repeats(done[i - 1], A, N, new_len, a)
    BY <1>7, <2>2
  <2>4. PICK c, r : c = done[i - 1] /\ r = done[i] /\ c \in CharArrays
    OBVIOUS
  <2>5. Repeats(r, A, N, new_len, a + N)
    <3>1. CASE a < new_len
      <4>1. r = Copy(c, a, Part(c, 0, Lower(N, new_len - a)))
        BY <1>5, <2>1, <2>4, <3>1 DEF Duplicates
      <4>2. a % N = 0
        <5>1. a = (N * i) + 0 /\ 0 \in 0 .. N - 1
          BY <1>3, <2>1, <2>2
        <5>2. i \in Nat /\ N \in Nat \ {0}
          BY <1>3, <2>2
        <5> QED BY <5>1, <5>2, QuotientIs, Zenon
      <4> QED BY <1>3, <2>2, <2>3, <2>4, <3>1, <4>1, <4>2, DuplicateStep, Zenon
    <3>2. CASE ~(a < new_len)
      <4>1. r = c
        BY <1>5, <2>1, <2>4, <3>2 DEF Duplicates
      <4>2. \A k \in 0 .. new_len - 1 : k < a
        BY <1>3, <2>1, <3>2
      <4> QED BY <2>3, <2>4, <4>1, <4>2 DEF Repeats
    <3> QED BY <3>1, <3>2
  <2> QED BY <2>2, <2>4, <2>5
<1>8. K \in T
  <2>1. 0 .. K \subseteq T
    <3> HIDE DEF T
    <3> QED BY <1>6, <1>7, RoundInduction
  <2> QED BY <2>1
<1>9. PICK s : s = [j \in 0 .. new_len - 1 |-> A[j % N]]
  OBVIOUS
<1>10. s = [j \in 0 .. new_len - 1 |-> s[j]] /\ \A j \in 0 .. new_len - 1 : done[K][j] = s[j]
  <2>1. \A j \in 0 .. new_len - 1 : j < N * (K + 1)
    BY <1>2, <1>1, <1>3 DEF Lower
  <2> QED BY <1>8, <1>9, <2>1 DEF Repeats
<1>11. Yields(Put(done[K], new_len, 0), MD!Cut(s))
  <2>1. done[K] \in CharArrays
    OBVIOUS
  <2> QED BY <1>3, <1>10, <2>1, PutMatches
<1>12. MD!Duplicated(A, K) = MD!Cut(s)
  BY <1>1, <1>9, SameHelpers DEF MD!Duplicated
<1> QED BY <1>5, <1>11, <1>12

-----------------------------------------------------------------------------
(***************************************************************************)
(* Injecting.                                                              *)
(***************************************************************************)
\* The first i places whose text of length l covers the character at j.
Covering(at, l, i, j) == {m \in 1 .. i : at[m] <= j /\ j < at[m] + l}

\* c is b with the text s injected at the first i places.
InjectedUpTo(c, b, N, l, s, at, i) ==
    \A j \in 0 .. N - 1 : c[j] = IF Covering(at, l, i, j) = {} THEN b[j]
                                 ELSE s[j - at[MD!Last(Covering(at, l, i, j))]]

LEMMA InjectStep ==
  ASSUME NEW N \in Nat, NEW l \in Nat, NEW p \in Nat, NEW at \in [1 .. p -> 0 .. N - 1],
         NEW i \in 1 .. p, NEW b, NEW c, NEW s, NEW r,
         InjectedUpTo(c, b, N, l, s, at, i - 1), InjectedAt(r, c, N, l, s, at[i])
  PROVE  InjectedUpTo(r, b, N, l, s, at, i)
<1> SUFFICES ASSUME NEW j \in 0 .. N - 1
             PROVE  r[j] = IF Covering(at, l, i, j) = {} THEN b[j]
                           ELSE s[j - at[MD!Last(Covering(at, l, i, j))]]
  BY DEF InjectedUpTo
<1>1. PICK a \in 0 .. N - 1 : a = at[i]
  OBVIOUS
<1>2. r[j] = IF j \in a .. a + l - 1 THEN s[j - a] ELSE c[j]
  BY <1>1 DEF InjectedAt
<1>3. i \in Nat /\ j \in Nat /\ \A m \in 1 .. i : m <= i /\ m \in 1 .. p /\ at[m] \in Nat
  OBVIOUS
<1>4. CASE j \in a .. a + l - 1
  <2>1. i \in Covering(at, l, i, j) /\ \A m \in Covering(at, l, i, j) : m <= i
    BY <1>1, <1>3, <1>4 DEF Covering
  <2>2. Covering(at, l, i, j) \subseteq Nat
    BY <1>3 DEF Covering
  <2>3. MD!Last(Covering(at, l, i, j)) = i
    BY <2>1, <2>2, LastIs
  <2> QED BY <1>1, <1>2, <1>4, <2>1, <2>3
<1>5. CASE j \notin a .. a + l - 1
  <2>1. Covering(at, l, i, j) = Covering(at, l, i - 1, j)
    BY <1>1, <1>3, <1>5 DEF Covering
  <2> QED BY <1>2, <1>5, <2>1 DEF InjectedUpTo
<1> QED BY <1>4, <1>5

LEMMA InjectIs ==
  ASSUME NEW A, NEW N \in 1 .. MAX_INP_LEN, N = Length(A), NEW b \in Terminated(N),
         \A k \in 0 .. N - 1 : b[k] = A[k], NEW l \in Nat, NEW s \in Chars(l),
         NEW p \in Nat, NEW at \in [1 .. p -> 0 .. N - 1]
  PROVE  Yields(Inject(b, N, s, p, at), MD!Injected(A, p, s, at))
<1>1. MAX_INP_LEN \in Nat /\ N \in Nat \ {0} /\ N \in 0 .. MAX_INP_LEN
  BY MutatorAssumption
<1>2. PICK done \in [0 .. p -> Terminated(N)] :
         Injects(done, b, N, s, p, at) /\ Inject(b, N, s, p, at) = done[p]
  BY InjectRuns
<1> DEFINE T == {i \in 0 .. p : InjectedUpTo(done[i], b, N, l, s, at, i)}
<1>3. 0 \in T
  <2>1. \A j : Covering(at, l, 0, j) = {}
    BY DEF Covering
  <2>2. done[0] = b
    BY <1>2 DEF Injects
  <2> QED BY <2>1, <2>2 DEF InjectedUpTo
<1>4. ASSUME NEW i \in 1 .. p, i - 1 \in T PROVE i \in T
  <2>1. PICK c \in Terminated(N), r \in Terminated(N) : c = done[i - 1] /\ r = done[i]
    OBVIOUS
  <2>2. PICK a \in 0 .. N - 1 : a = at[i]
    OBVIOUS
  <2>3. r = Copy(c, a, Part(s, 0, Lower(Length(s), N - a)))
    BY <1>2, <2>1, <2>2 DEF Injects
  <2>4. InjectedAt(r, c, N, l, s, a)
    BY <2>3, InjectRound, Zenon
  <2>5. InjectedUpTo(c, b, N, l, s, at, i - 1)
    BY <1>4, <2>1
  <2>6. InjectedUpTo(r, b, N, l, s, at, i)
    BY <1>1, <2>2, <2>4, <2>5, InjectStep, Zenon
  <2> QED BY <2>1, <2>6
<1>5. p \in T
  <2>1. 0 .. p \subseteq T
    <3> HIDE DEF T
    <3> QED BY <1>3, <1>4, RoundInduction
  <2> QED BY <2>1
<1>6. PICK r \in Terminated(N) : r = done[p]
  OBVIOUS
<1>7. PICK t : t = [j \in 0 .. N - 1 |-> IF Covering(at, l, p, j) = {} THEN A[j]
                                         ELSE s[j - at[MD!Last(Covering(at, l, p, j))]]]
  OBVIOUS
<1>8. t = [j \in 0 .. N - 1 |-> t[j]] /\ \A j \in 0 .. N - 1 : r[j] = t[j]
  BY <1>5, <1>6, <1>7 DEF InjectedUpTo
<1>9. r \in CharArrays /\ r[N] = 0
  BY <1>1 DEF Terminated
<1>10. Yields(r, MD!Cut(t))
  BY <1>1, <1>8, <1>9, PointsMatch
<1>11. MD!Injected(A, p, s, at) = MD!Cut(t)
  <2> DEFINE covering(j) == {i \in 1 .. p : at[i] <= j /\ j - at[i] \in DOMAIN s}
  <2>1. ASSUME NEW j \in 0 .. N - 1 PROVE covering(j) = Covering(at, l, p, j)
    BY <1>1 DEF Covering, Chars
  <2>2. t = [j \in 0 .. N - 1 |-> IF covering(j) = {} THEN A[j]
                                  ELSE s[j - at[MD!Last(covering(j))]]]
    <3> HIDE DEF covering
    <3> QED BY <1>7, <2>1
  <2>3. MD!Length(A) = N
    BY SameHelpers
  <2> QED BY <2>2, <2>3 DEF MD!Injected
<1> QED BY <1>2, <1>6, <1>10, <1>11

LEMMA InjectTextIs ==
  ASSUME NEW A, NEW N \in 1 .. MAX_INP_LEN, N = Length(A), NEW b \in Terminated(N),
         \A k \in 0 .. N - 1 : b[k] = A[k], NEW x \in 0 .. MaxState, NEW p \in Nat,
         NEW l \in Nat, NEW s \in Chars(l)
  PROVE  Yields(helpr_strat5(b, N, x, p, s), MD!InjectedText(A, x, p, s))
<1>1. PICK at : at = [i \in 1 .. p |-> H(N, i, x)]
  OBVIOUS
<1>2. at \in [1 .. p -> 0 .. N - 1]
  BY <1>1, Places, Zenon
<1>3. Yields(Inject(b, N, s, p, at), MD!Injected(A, p, s, at))
  BY <1>2, InjectIs, Zenon
<1>4. N # 0
  BY MutatorAssumption
<1>5. MD!InjectedText(A, x, p, s) = MD!Injected(A, p, s, at)
  <2>1. at = [i \in 1 .. p |-> MD!Iterated(MD!Length(A), i, x)]
    BY <1>1, <1>4, SameHelpers, SameHash
  <2> QED BY <2>1 DEF MD!InjectedText
<1> QED BY <1>1, <1>3, <1>5 DEF helpr_strat5

LEMMA InjectIntegerIs ==
  ASSUME NEW A, NEW N \in 1 .. MAX_INP_LEN, N = Length(A), NEW b \in Terminated(N),
         \A k \in 0 .. N - 1 : b[k] = A[k], NEW x \in 0 .. MaxState, NEW p \in Nat
  PROVE  Yields(helpr_strat6(b, N, x, p), MD!InjectedText(A, x, p, Text(1 + (HASH(x) % 11))))
<1>1. PICK l \in Nat : l = 1 + (HASH(x) % 11)
  <2>1. x \in 0 .. MaxState + BITS * MaxSeedLen
    BY MutatorAssumption
  <2> QED BY <2>1, MutatorAssumption
<1>2. Text(l) \in Chars(l)
  BY TextType
<1>3. Yields(helpr_strat5(b, N, x, p, Text(l)), MD!InjectedText(A, x, p, Text(l)))
  BY <1>2, InjectTextIs, Zenon
<1> QED BY <1>1, <1>3 DEF helpr_strat6

LEMMA InjectPartIs ==
  ASSUME NEW A, NEW N \in 1 .. MAX_INP_LEN, N = Length(A), NEW b \in Terminated(N),
         \A k \in 0 .. N - 1 : b[k] = A[k], NEW x \in 0 .. MaxState, NEW p \in Nat,
         NEW L \in Nat
  PROVE  Yields(helpr_strat7(b, N, x, p, L), MD!InjectedPart(A, x, p, L))
<1>1. PICK from \in 0 .. N - 1 : from = H(N, 1, x)
  BY PlaceRange
<1>2. PICK l : l = Lower(L, N - from)
  OBVIOUS
<1>3. l \in Nat /\ from + l <= N /\ MAX_INP_LEN \in Nat /\ N # 0
  BY <1>2, MutatorAssumption DEF Lower
<1>4. PICK part : part = Part(b, from, l)
  OBVIOUS
<1>5. part \in Chars(l) /\ part = [k \in 0 .. l - 1 |-> A[from + k]]
  <2>1. b \in CharArrays /\ from \in Nat /\ from + l <= MAX_INP_LEN + 1
    BY <1>3 DEF Terminated
  <2>2. part \in Chars(l)
    BY <1>3, <1>4, <2>1, BufferPartType, Zenon
  <2>3. \A k \in 0 .. l - 1 : from + k \in 0 .. N - 1
    BY <1>3
  <2> QED BY <1>4, <2>2, <2>3 DEF Part
<1>6. PICK at : at = [i \in 1 .. p |-> H(N, i + 1, x)]
  OBVIOUS
<1>7. at \in [1 .. p -> 0 .. N - 1]
  BY <1>6, Places, Zenon
<1>8. Yields(Inject(b, N, part, p, at), MD!Injected(A, p, part, at))
  BY <1>3, <1>5, <1>7, InjectIs, Zenon
<1>9. MD!InjectedPart(A, x, p, L) = MD!Injected(A, p, part, at)
  <2>1. at = [i \in 1 .. p |-> MD!Iterated(MD!Length(A), i + 1, x)]
    BY <1>3, <1>6, SameHelpers, SameHash
  <2>2. from = MD!Iterated(MD!Length(A), 1, x) /\ l = MD!Lower(L, MD!Length(A) - from)
    BY <1>1, <1>2, <1>3, SameHelpers, SameHash
  <2> QED BY <1>5, <2>1, <2>2 DEF MD!InjectedPart
<1>10. helpr_strat7(b, N, x, p, L) = Inject(b, N, part, p, at)
  BY <1>1, <1>2, <1>4, <1>6 DEF helpr_strat7
<1> QED BY <1>8, <1>9, <1>10

LEMMA InjectCharacterIs ==
  ASSUME NEW A, NEW N \in 1 .. MAX_INP_LEN, N = Length(A), NEW b \in Terminated(N),
         \A k \in 0 .. N - 1 : b[k] = A[k], NEW x \in 0 .. MaxState, NEW p \in Nat,
         NEW c \in Characters, NEW s, s = [k \in {0} |-> c]
  PROVE  Yields(helpr_strat8(b, N, x, p, c), MD!InjectedText(A, x, p, s))
<1>1. s = [k \in 0 .. 0 |-> c]
  <2>1. 0 .. 0 = {0}
    OBVIOUS
  <2> QED BY <2>1
<1>2. 1 \in Nat /\ s \in Chars(1) /\ s = [k \in {0} |-> c]
  <2>1. 0 .. 0 = {0} /\ 1 - 1 = 0
    OBVIOUS
  <2> QED BY <1>1, <2>1 DEF Chars
<1>3. Yields(helpr_strat5(b, N, x, p, s), MD!InjectedText(A, x, p, s))
  BY <1>2, InjectTextIs, Zenon
<1>4. helpr_strat8(b, N, x, p, c) = helpr_strat5(b, N, x, p, s)
  BY <1>1 DEF helpr_strat8, helpr_strat5
<1> QED BY <1>2, <1>3, <1>4

-----------------------------------------------------------------------------
(***************************************************************************)
(* Adding to characters.                                                   *)
(***************************************************************************)
\* c is b with d added, modulo the width, for each of the first i places.
ShiftedUpTo(c, b, N, x, d, i) ==
    \A j \in 0 .. N - 1 :
        c[j] = (b[j] + (d * Cardinality((1 .. i) \cap {m \in Nat : H(N, m, x) = j}))) % Width

\* One more place, at k.
AddedAt(r, c, N, k, d) ==
    \A j \in 0 .. N - 1 : r[j] = IF j = k THEN (c[j] + d) % Width ELSE c[j]

LEMMA OneMore ==
  ASSUME NEW v \in Nat, NEW d \in Nat, NEW n \in Nat
  PROVE  /\ (v + (d * n)) \in Nat
         /\ (((v + (d * n)) % Width) + d) % Width = (v + (d * (n + 1))) % Width
<1>1. d * (n + 1) = (d * n) + d
  OBVIOUS
<1>2. PICK u \in Nat : u = d * n
  OBVIOUS
<1>3. PICK w \in Nat : w = v + u
  OBVIOUS
<1>4. ((w % Width) + d) % Width = (w + d) % Width
  <2>1. Width \in Nat \ {0}
    BY WidthType
  <2> QED BY <2>1, RemainderOfSum, Zenon
<1>5. v + (d * (n + 1)) = w + d
  BY <1>1, <1>2, <1>3
<1> QED BY <1>2, <1>3, <1>4, <1>5

LEMMA ShiftStep ==
  ASSUME NEW N \in 1 .. MAX_INP_LEN, NEW x \in 0 .. MaxState, NEW d \in Nat,
         NEW i \in Nat \ {0}, NEW b \in CharArrays, NEW c, NEW r,
         ShiftedUpTo(c, b, N, x, d, i - 1), AddedAt(r, c, N, H(N, i, x), d)
  PROVE  ShiftedUpTo(r, b, N, x, d, i)
<1> SUFFICES ASSUME NEW j \in 0 .. N - 1
             PROVE  r[j] = (b[j] + (d * Cardinality((1 .. i) \cap
                                        {m \in Nat : H(N, m, x) = j}))) % Width
  BY DEF ShiftedUpTo
<1>1. PICK R : R = {m \in Nat : H(N, m, x) = j}
  OBVIOUS
<1>2. PICK n \in Nat, k \in Nat : n = Cardinality((1 .. i - 1) \cap R)
                                  /\ k = Cardinality((1 .. i) \cap R)
                                  /\ k = n + (IF i \in R THEN 1 ELSE 0)
  BY CountRound
<1>3. i \in R <=> j = H(N, i, x)
  BY <1>1
<1>4. c[j] = (b[j] + (d * n)) % Width
  BY <1>1, <1>2 DEF ShiftedUpTo
<1>5. b[j] \in Nat
  BY MutatorAssumption, WidthType DEF CharArrays
<1>6. r[j] = IF j = H(N, i, x) THEN (c[j] + d) % Width ELSE c[j]
  BY DEF AddedAt
<1>7. CASE i \in R
  <2>1. k = n + 1
    BY <1>2, <1>7
  <2>2. (((b[j] + (d * n)) % Width) + d) % Width = (b[j] + (d * (n + 1))) % Width
    BY <1>5, OneMore, Zenon
  <2> QED BY <1>1, <1>2, <1>3, <1>4, <1>6, <1>7, <2>1, <2>2, Zenon
<1>8. CASE i \notin R
  <2>1. k = n
    BY <1>2, <1>8
  <2> QED BY <1>1, <1>2, <1>3, <1>4, <1>6, <1>8, <2>1, Zenon
<1> QED BY <1>7, <1>8

LEMMA ShiftIs ==
  ASSUME NEW A, NEW N \in 1 .. MAX_INP_LEN, N = Length(A), NEW b \in Terminated(N),
         \A k \in 0 .. N - 1 : b[k] = A[k], NEW x \in 0 .. MaxState, NEW p \in Nat,
         NEW d \in Nat
  PROVE  Yields(Shift(b, N, x, p, d), MD!Shifted(A, x, p, d))
<1>1. MAX_INP_LEN \in Nat /\ N \in Nat \ {0} /\ N \in 0 .. MAX_INP_LEN /\ b \in CharArrays
  BY MutatorAssumption DEF Terminated
<1>2. PICK done \in [0 .. p -> Terminated(N)] :
         Shifts(done, b, N, x, p, d) /\ Shift(b, N, x, p, d) = done[p]
  BY ShiftRuns
<1> DEFINE T == {i \in 0 .. p : ShiftedUpTo(done[i], b, N, x, d, i)}
<1>3. 0 \in T
  <2>1. ASSUME NEW j \in 0 .. N - 1
        PROVE  b[j] = (b[j] + (d * Cardinality((1 .. 0) \cap {m \in Nat : H(N, m, x) = j})))
                         % Width
    <3>1. Cardinality((1 .. 0) \cap {m \in Nat : H(N, m, x) = j}) = 0
      BY NoRounds, Zenon
    <3>2. b[j] \in 0 .. Width - 1
      BY <1>1, WidthType DEF CharArrays
    <3>3. b[j] % Width = b[j] /\ b[j] + (d * 0) = b[j]
      <4>1. Width \in Nat \ {0} /\ b[j] \in Nat
        BY <3>2, WidthType
      <4>2. b[j] % Width = b[j]
        BY <3>2, <4>1, SmallRemainder, Zenon
      <4> QED BY <4>1, <4>2
    <3> QED BY <3>1, <3>3, Zenon
  <2>2. done[0] = b
    BY <1>2 DEF Shifts
  <2> QED BY <2>1, <2>2 DEF ShiftedUpTo
<1>4. ASSUME NEW i \in 1 .. p, i - 1 \in T PROVE i \in T
  <2>1. PICK c \in Terminated(N), r \in Terminated(N) : c = done[i - 1] /\ r = done[i]
    OBVIOUS
  <2>2. i \in Nat \ {0}
    OBVIOUS
  <2>3. PICK k \in 0 .. N - 1 : k = H(N, i, x)
    BY <2>2, PlaceRange
  <2>4. r = Put(c, k, (c[k] + d) % Width)
    BY <1>2, <2>1, <2>3 DEF Shifts
  <2>5. AddedAt(r, c, N, k, d)
    <3>1. k \in 0 .. MAX_INP_LEN /\ c \in CharArrays
      BY <1>1 DEF Terminated
    <3>2. PICK v \in Characters : v = (c[k] + d) % Width
      <4>1. c[k] \in Nat
        BY <3>1, WidthType DEF CharArrays
      <4>2. (c[k] + d) % Width \in 0 .. Width - 1
        <5>1. c[k] + d \in Nat /\ Width \in Nat \ {0}
          BY <4>1, WidthType
        <5> QED BY <5>1, DivMod, Zenon
      <4> QED BY <4>2, WidthType
    <3>3. \A j \in 0 .. MAX_INP_LEN : r[j] = IF j = k THEN v ELSE c[j]
      BY <2>4, <3>1, <3>2, PutKeeps
    <3>4. \A j \in 0 .. N - 1 : j \in 0 .. MAX_INP_LEN
      BY <1>1
    <3> QED BY <3>2, <3>3, <3>4 DEF AddedAt
  <2>6. ShiftedUpTo(c, b, N, x, d, i - 1)
    BY <1>4, <2>1
  <2>7. ShiftedUpTo(r, b, N, x, d, i)
    BY <1>1, <2>2, <2>3, <2>5, <2>6, ShiftStep, Zenon
  <2> QED BY <2>1, <2>7
<1>5. p \in T
  <2>1. 0 .. p \subseteq T
    <3> HIDE DEF T
    <3> QED BY <1>3, <1>4, RoundInduction
  <2> QED BY <2>1
<1>6. PICK r \in Terminated(N) : r = done[p]
  OBVIOUS
<1>7. PICK t : t = [j \in 0 .. N - 1 |->
                      (A[j] + (d * Cardinality((1 .. p) \cap {m \in Nat : H(N, m, x) = j})))
                         % Width]
  OBVIOUS
<1>8. t = [j \in 0 .. N - 1 |-> t[j]] /\ \A j \in 0 .. N - 1 : r[j] = t[j]
  BY <1>5, <1>6, <1>7 DEF ShiftedUpTo
<1>9. r \in CharArrays /\ r[N] = 0
  BY <1>1 DEF Terminated
<1>10. Yields(r, MD!Cut(t))
  BY <1>1, <1>8, <1>9, PointsMatch
<1>11. MD!Shifted(A, x, p, d) = MD!Cut(t)
  <2> DEFINE places(j) == {i \in 1 .. p : MD!Iterated(MD!Length(A), i, x) = j}
             places2(j) == (1 .. p) \cap {m \in Nat : H(N, m, x) = j}
  <2>1. \A i : MD!Iterated(MD!Length(A), i, x) = H(N, i, x)
    BY <1>1, SameHelpers, SameHash
  <2>2. ASSUME NEW j PROVE places(j) = places2(j)
    BY <2>1
  <2>3. \A S : MD!Cardinality(S) = Cardinality(S)
    BY DEF MD!Cardinality, Cardinality
  <2>4. MD!Length(A) = N /\ MD!Pow2[BITS] = Width
    BY SameHelpers, SamePow2 DEF Width
  <2>5. t = [j \in 0 .. N - 1 |-> (A[j] + (d * MD!Cardinality(places(j)))) % Width]
    <3> HIDE DEF places
    <3> QED BY <1>7, <2>2, <2>3
  <2> QED BY <2>4, <2>5 DEF MD!Shifted
<1> QED BY <1>2, <1>6, <1>10, <1>11

-----------------------------------------------------------------------------
(***************************************************************************)
(* The bits of a character.                                                *)
(***************************************************************************)
Bit(c, k) == (c \div Pow2[k]) % 2

LEMMA BitType == ASSUME NEW c \in Nat, NEW k \in Nat PROVE Bit(c, k) \in {0, 1}
<1>1. PICK m \in Nat \ {0} : m = Pow2[k]
  BY Pow2Steps
<1>2. PICK q \in Nat : q = c \div m
  BY DivMod
<1>3. q % 2 \in {0, 1}
  OBVIOUS
<1> QED BY <1>1, <1>2, <1>3 DEF Bit

LEMMA DivDiv ==
  ASSUME NEW c \in Nat, NEW m \in Nat \ {0}, NEW n \in Nat \ {0}
  PROVE  c \div (m * n) = (c \div m) \div n
<1>1. PICK w : w = m * n
  OBVIOUS
<1>2. PICK q \in Nat, r \in 0 .. m - 1 : c = (m * q) + r /\ q = c \div m
  BY DivMod
<1>3. PICK u \in Nat, v \in 0 .. n - 1 : q = (n * u) + v /\ u = q \div n
  BY DivMod
<1>4. w \in Nat \ {0} /\ w = m * n
  <2>1. m * 1 <= m * n /\ m * 1 = m /\ m * n \in Nat
    BY TimesGrows
  <2> QED BY <1>1, <2>1
<1>5. PICK g \in Nat : g = m * v
  OBVIOUS
<1>6. g + r \in 0 .. w - 1
  <2>1. PICK v1 \in Nat : v1 = v + 1 /\ v1 <= n
    OBVIOUS
  <2>2. m * v1 = g + m /\ m * v1 <= w
    BY <1>4, <1>5, <2>1, TimesGrows
  <2>3. g + m <= w
    BY <2>2
  <2> QED BY <1>4, <1>5, <2>3
<1>7. c = (w * u) + (g + r)
  <2>1. PICK y \in Nat : y = n * u
    OBVIOUS
  <2>2. m * (y + v) = (m * y) + (m * v)
    OBVIOUS
  <2>3. m * y = w * u
    <3>1. m * (n * u) = (m * n) * u
      OBVIOUS
    <3> QED BY <1>4, <2>1, <3>1
  <2>4. PICK z \in Nat : z = m * y
    BY <2>1
  <2>5. c = (z + g) + r
    BY <1>2, <1>3, <1>5, <2>1, <2>2, <2>4
  <2> QED BY <1>5, <2>3, <2>4, <2>5
<1>8. c \div w = u
  BY <1>4, <1>6, <1>7, QuotientIs, Zenon
<1> QED BY <1>1, <1>2, <1>3, <1>8, Zenon

LEMMA DivOfSum ==
  ASSUME NEW n \in Nat \ {0}, NEW q \in Nat, NEW r \in Nat
  PROVE  ((n * q) + r) \div n = q + (r \div n)
<1>1. PICK c : c = (n * q) + r
  OBVIOUS
<1>2. PICK u \in Nat, v \in 0 .. n - 1 : r = (n * u) + v /\ u = r \div n
  BY DivMod
<1>3. n * (q + u) = (n * q) + (n * u)
  OBVIOUS
<1>4. PICK x, y \in Nat : x = n * q /\ y = n * u
  OBVIOUS
<1>5. PICK k \in Nat : k = q + u
  OBVIOUS
<1>6. c = (n * k) + v
  <2>1. c = (x + y) + v
    BY <1>1, <1>2, <1>4
  <2> QED BY <1>3, <1>4, <1>5, <2>1
<1>7. c \div n = k
  BY <1>6, QuotientIs, Zenon
<1> QED BY <1>1, <1>2, <1>5, <1>7, Zenon

\* f has the bits of c but for the one at t.
Toggled(f, c, t) ==
    \A k \in 0 .. BITS - 1 : Bit(f, k) = IF k = t THEN 1 - Bit(c, k) ELSE Bit(c, k)

\* c is h, the bit e at t, and r.
Splits(c, t, h, e, r) == c = (Pow2[t] * ((2 * h) + e)) + r

LEMMA HighBits ==
  ASSUME NEW h \in Nat, NEW e \in {0, 1}, NEW t \in Nat, NEW r \in 0 .. Pow2[t] - 1,
         NEW k \in Nat, t < k, NEW c, Splits(c, t, h, e, r)
  PROVE  c \div Pow2[k] = h \div Pow2[k - (t + 1)]
<1>1. c = (Pow2[t] * ((2 * h) + e)) + r
  BY DEF Splits
<1>2. PICK m \in Nat \ {0} : m = Pow2[t]
  BY Pow2Steps
<1>3. PICK i \in Nat : i = k - (t + 1)
  OBVIOUS
<1>4. PICK n \in Nat \ {0} : n = Pow2[i]
  BY Pow2Steps
<1>5. Pow2[k] = m * (2 * n)
  <2>1. Pow2[i + 1] = 2 * Pow2[i] /\ i + 1 \in Nat /\ k = t + (i + 1)
    BY <1>3, Pow2Steps
  <2>2. Pow2[k] = Pow2[t] * Pow2[i + 1]
    BY <2>1, Pow2Sum
  <2> QED BY <1>2, <1>4, <2>1, <2>2
<1>6. PICK q \in Nat : q = (2 * h) + e
  OBVIOUS
<1>7. c = (m * q) + r /\ c \in Nat /\ r \in 0 .. m - 1
  BY <1>1, <1>2, <1>6
<1>8. c \div m = q
  BY <1>7, QuotientIs, Zenon
<1>9. PICK n2 \in Nat \ {0} : n2 = 2 * n
  OBVIOUS
<1>10. c \div Pow2[k] = q \div n2
  <2>1. Pow2[k] = m * n2
    BY <1>5, <1>9
  <2>2. c \div (m * n2) = (c \div m) \div n2
    BY <1>7, DivDiv, Zenon
  <2> QED BY <1>8, <2>1, <2>2, Zenon
<1>11. q \div 2 = h
  BY <1>6
<1>12. q \div n2 = (q \div 2) \div n
  <2>1. 2 \in Nat \ {0}
    OBVIOUS
  <2>2. q \div (2 * n) = (q \div 2) \div n
    BY <2>1, DivDiv, Zenon
  <2> QED BY <1>9, <2>2, Zenon
<1> QED BY <1>1, <1>3, <1>4, <1>10, <1>11, <1>12, Zenon

LEMMA LowBits ==
  ASSUME NEW h \in Nat, NEW e \in {0, 1}, NEW t \in Nat, NEW r \in 0 .. Pow2[t] - 1,
         NEW k \in Nat, k < t, NEW c, Splits(c, t, h, e, r)
  PROVE  Bit(c, k) = Bit(r, k)
<1>1. PICK q \in Nat : q = (2 * h) + e
  OBVIOUS
<1>2. c = (Pow2[t] * q) + r
  BY <1>1 DEF Splits
<1>3. PICK i \in Nat : i = t - (k + 1)
  OBVIOUS
<1>4. PICK n \in Nat \ {0}, w \in Nat \ {0} : n = Pow2[k] /\ w = Pow2[i]
  BY Pow2Steps
<1>5. Pow2[t] = n * (2 * w)
  <2>1. Pow2[i + 1] = 2 * Pow2[i] /\ i + 1 \in Nat /\ t = k + (i + 1)
    BY <1>3, Pow2Steps
  <2>2. Pow2[t] = Pow2[k] * Pow2[i + 1]
    BY <2>1, Pow2Sum
  <2> QED BY <1>4, <2>1, <2>2
<1>6. PICK y \in Nat : y = w * q
  OBVIOUS
<1>7. r \in Nat /\ r \div n \in Nat
  <2>1. r \in Nat
    BY Pow2Steps
  <2> QED BY <2>1, DivMod
<1>8. c = (n * (2 * y)) + r
  <2>1. (n * (2 * w)) * q = n * (2 * (w * q))
    OBVIOUS
  <2> QED BY <1>2, <1>5, <1>6, <2>1
<1>9. PICK y2 \in Nat : y2 = 2 * y
  OBVIOUS
<1>10. c \div n = y2 + (r \div n)
  <2>1. ((n * y2) + r) \div n = y2 + (r \div n)
    BY <1>7, DivOfSum, Zenon
  <2> QED BY <1>8, <1>9, <2>1, Zenon
<1>11. PICK v \in Nat : v = r \div n
  BY <1>7
<1>12. (y2 + v) % 2 = v % 2
  BY <1>9
<1>13. Bit(c, k) = Bit(r, k)
  BY <1>4, <1>10, <1>11, <1>12 DEF Bit
<1> QED BY <1>2, <1>13, Zenon

LEMMA FlipBitFlips ==
  ASSUME NEW c \in Nat, NEW t \in 0 .. BITS - 1
  PROVE  Toggled(FlipBit(c, t), c, t)
<1>1. t \in Nat
  BY MutatorAssumption
<1>2. PICK m \in Nat \ {0} : m = Pow2[t]
  BY <1>1, Pow2Steps
<1>3. PICK q \in Nat, r \in 0 .. m - 1 : c = (m * q) + r /\ q = c \div m
  BY DivMod
<1>4. PICK h \in Nat, e \in {0, 1} : q = (2 * h) + e /\ e = q % 2
  OBVIOUS
<1>5. PICK d \in {0, 1} : d = 1 - e
  OBVIOUS
<1>6. PICK u \in Nat : u = (2 * h) + d
  OBVIOUS
<1>7. PICK f : f = FlipBit(c, t)
  OBVIOUS
<1>8. f = (m * u) + r
  <2>1. PICK x \in Nat : x = m * (2 * h)
    OBVIOUS
  <2>2. m * ((2 * h) + 1) = x + m /\ m * ((2 * h) + 0) = x
    BY <2>1
  <2>3. f = IF e = 1 THEN c - m ELSE c + m
    BY <1>2, <1>3, <1>4, <1>7 DEF FlipBit
  <2>4. CASE e = 1
    <3>1. m * q = x + m /\ m * u = x
      BY <1>4, <1>5, <1>6, <2>2, <2>4
    <3>2. c = (x + m) + r /\ f = c - m
      BY <1>3, <2>3, <2>4, <3>1
    <3> QED BY <3>1, <3>2
  <2>5. CASE e = 0
    <3>1. m * q = x /\ m * u = x + m
      BY <1>4, <1>5, <1>6, <2>2, <2>5
    <3>2. f = c + m
      BY <2>3, <2>5
    <3>3. c = x + r
      BY <1>3, <3>1
    <3> QED BY <3>1, <3>2, <3>3
  <2> QED BY <2>4, <2>5
<1>9. Splits(c, t, h, e, r) /\ Splits(f, t, h, d, r)
  BY <1>2, <1>3, <1>4, <1>6, <1>8, Zenon DEF Splits
<1>10. ASSUME NEW k \in 0 .. BITS - 1
       PROVE  Bit(f, k) = IF k = t THEN 1 - Bit(c, k) ELSE Bit(c, k)
  <2>1. k \in Nat
    BY MutatorAssumption
  <2>2. CASE k = t
    <3>1. f \div m = u
      BY <1>8, QuotientIs, Zenon
    <3>2. u % 2 = d
      BY <1>6
    <3> QED BY <1>2, <1>3, <1>4, <1>5, <2>2, <3>1, <3>2 DEF Bit
  <2>3. CASE t < k
    <3>1. r \in 0 .. Pow2[t] - 1
      BY <1>2
    <3>2. c \div Pow2[k] = h \div Pow2[k - (t + 1)]
      BY <1>1, <1>9, <2>1, <2>3, <3>1, HighBits
    <3>3. f \div Pow2[k] = h \div Pow2[k - (t + 1)]
      BY <1>1, <1>9, <2>1, <2>3, <3>1, HighBits
    <3>4. k # t
      BY <1>1, <2>1, <2>3
    <3> QED BY <3>2, <3>3, <3>4 DEF Bit
  <2>4. CASE k < t
    <3>1. r \in 0 .. Pow2[t] - 1
      BY <1>2
    <3>2. Bit(c, k) = Bit(r, k)
      BY <1>1, <1>9, <2>1, <2>4, <3>1, LowBits
    <3>3. Bit(f, k) = Bit(r, k)
      BY <1>1, <1>9, <2>1, <2>4, <3>1, LowBits
    <3>4. k # t
      BY <1>1, <2>1, <2>4
    <3> QED BY <3>2, <3>3, <3>4
  <2> QED BY <1>1, <2>1, <2>2, <2>3, <2>4
<1> QED BY <1>7, <1>10 DEF Toggled

\* A character is known by its bits.
LEMMA BitsDetermine ==
  ASSUME NEW c \in Characters, NEW d \in Characters,
         \A k \in 0 .. BITS - 1 : Bit(c, k) = Bit(d, k)
  PROVE  c = d
<1>1. BITS \in Nat /\ c \in 0 .. Pow2[BITS] - 1 /\ d \in 0 .. Pow2[BITS] - 1
      /\ Pow2[BITS] \in Nat \ {0} /\ c \in Nat /\ d \in Nat
  BY MutatorAssumption, Pow2Steps DEF Characters
<1> DEFINE T == {i \in 0 .. BITS : c \div Pow2[BITS - i] = d \div Pow2[BITS - i]}
<1>2. 0 \in T
  <2>1. PICK m \in Nat \ {0} : m = Pow2[BITS]
    BY <1>1
  <2>2. c = (m * 0) + c /\ d = (m * 0) + d /\ 0 \in Nat
    BY <1>1
  <2>3. c \div m = 0 /\ d \div m = 0
    BY <1>1, <2>1, <2>2, QuotientIs, Zenon
  <2>4. BITS - 0 = BITS /\ 0 \in 0 .. BITS
    BY <1>1
  <2> QED BY <2>1, <2>3, <2>4
<1>3. ASSUME NEW i \in 1 .. BITS, i - 1 \in T PROVE i \in T
  <2>1. PICK k \in 0 .. BITS - 1 : k = BITS - i /\ BITS - (i - 1) = k + 1 /\ k \in Nat
    BY <1>1
  <2>2. PICK n \in Nat \ {0}, w \in Nat \ {0} : n = Pow2[k] /\ w = Pow2[k + 1] /\ w = n * 2
    <3>1. Pow2[k] \in Nat \ {0} /\ Pow2[k + 1] \in Nat \ {0} /\ Pow2[k + 1] = 2 * Pow2[k]
      BY <2>1, Pow2Steps
    <3> QED BY <3>1
  <2>3. 2 \in Nat \ {0}
    OBVIOUS
  <2>4. c \div w = (c \div n) \div 2 /\ d \div w = (d \div n) \div 2
    <3>1. c \div (n * 2) = (c \div n) \div 2
      BY <1>1, <2>3, DivDiv, Zenon
    <3>2. d \div (n * 2) = (d \div n) \div 2
      BY <1>1, <2>3, DivDiv, Zenon
    <3> QED BY <2>2, <3>1, <3>2, Zenon
  <2>5. c \div w = d \div w
    BY <1>3, <2>1, <2>2
  <2>6. (c \div n) % 2 = (d \div n) % 2
    BY <2>2 DEF Bit
  <2>7. PICK u, v \in Nat : u = c \div n /\ v = d \div n
    BY <1>1, DivMod
  <2>8. u = v
    BY <2>4, <2>5, <2>6, <2>7
  <2> QED BY <2>1, <2>2, <2>7, <2>8
<1>4. BITS \in T
  <2>1. 0 .. BITS \subseteq T
    <3> HIDE DEF T
    <3> QED BY <1>1, <1>2, <1>3, RoundInduction
  <2> QED BY <1>1, <2>1
<1>5. c \div Pow2[0] = c /\ d \div Pow2[0] = d
  BY <1>1, Pow2Steps
<1>6. BITS - BITS = 0
  BY <1>1
<1> QED BY <1>4, <1>5, <1>6

-----------------------------------------------------------------------------
(***************************************************************************)
(* Flipping.                                                               *)
(***************************************************************************)
\* The bit t of the character at k, counted from the start of the string.
BitAt(k, t) == (BITS * k) + t

LEMMA BitAtIs ==
  ASSUME NEW k \in Nat, NEW t \in 0 .. BITS - 1
  PROVE  /\ BitAt(k, t) \in Nat
         /\ BitAt(k, t) \div BITS = k
         /\ BitAt(k, t) % BITS = t
<1>1. BITS \in Nat \ {0} /\ t \in Nat
  BY MutatorAssumption
<1>2. PICK x \in Nat : x = BITS * k
  BY <1>1
<1>3. BitAt(k, t) = (BITS * k) + t
  BY DEF BitAt
<1>4. BitAt(k, t) \in Nat
  BY <1>1, <1>2, <1>3
<1>5. BitAt(k, t) \div BITS = k /\ BitAt(k, t) % BITS = t
  BY <1>1, <1>3, QuotientIs, Zenon
<1> QED BY <1>4, <1>5

LEMMA BitAtOf ==
  ASSUME NEW bit \in Nat
  PROVE  /\ bit \div BITS \in Nat /\ bit % BITS \in 0 .. BITS - 1
         /\ BitAt(bit \div BITS, bit % BITS) = bit
<1>1. BITS \in Nat \ {0}
  BY MutatorAssumption
<1> QED BY <1>1, DivMod, Zenon DEF BitAt

LEMMA BitAtBelow ==
  ASSUME NEW N \in Nat \ {0}, NEW k \in 0 .. N - 1, NEW t \in 0 .. BITS - 1
  PROVE  BitAt(k, t) < BITS * N
<1>1. BITS \in Nat \ {0} /\ t \in Nat /\ t < BITS /\ k \in Nat /\ k + 1 <= N /\ k + 1 \in Nat
  BY MutatorAssumption
<1>2. BITS * (k + 1) = (BITS * k) + BITS /\ BITS * (k + 1) <= BITS * N
  BY <1>1, TimesGrows
<1>3. PICK x, y \in Nat : x = BITS * k /\ y = BITS * N
  BY <1>1
<1>4. x + t < y
  BY <1>1, <1>2, <1>3
<1> QED BY <1>3, <1>4 DEF BitAt

\* The bits of c are those of b, with n of them flipped from pos on.
FlippedFrom(c, b, N, pos, n) ==
    \A k \in 0 .. N - 1, t \in 0 .. BITS - 1 :
        Bit(c[k], t) = IF pos <= BitAt(k, t) /\ BitAt(k, t) < pos + n
                       THEN 1 - Bit(b[k], t) ELSE Bit(b[k], t)

\* The bits of r are those of c, with the one at bit flipped.
FlippedAt(r, c, N, bit) ==
    \A k \in 0 .. N - 1, t \in 0 .. BITS - 1 :
        Bit(r[k], t) = IF BitAt(k, t) = bit THEN 1 - Bit(c[k], t) ELSE Bit(c[k], t)

LEMMA FlipRoundIs ==
  ASSUME NEW N \in 1 .. MAX_INP_LEN, NEW c \in Terminated(N), NEW bit \in Nat, bit < BITS * N,
         NEW r, r = Put(c, bit \div BITS, FlipBit(c[bit \div BITS], bit % BITS))
  PROVE  FlippedAt(r, c, N, bit)
<1>1. BITS \in Nat \ {0} /\ MAX_INP_LEN \in Nat /\ N \in Nat \ {0}
  BY MutatorAssumption
<1>2. PICK i \in Nat, place \in 0 .. BITS - 1 :
         i = bit \div BITS /\ place = bit % BITS /\ BitAt(i, place) = bit
  BY BitAtOf
<1>3. i \in 0 .. N - 1
  <2>1. BITS * i < BITS * N
    <3>1. PICK x, y \in Nat : x = BITS * i /\ y = BITS * N
      BY <1>1
    <3>2. bit = x + place /\ place \in Nat
      BY <1>1, <1>2, <3>1 DEF BitAt
    <3> QED BY <3>1, <3>2
  <2> QED BY <1>1, <2>1, TimesGrows
<1>4. c \in CharArrays /\ i \in 0 .. MAX_INP_LEN /\ \A k \in 0 .. N - 1 : k \in 0 .. MAX_INP_LEN
  BY <1>1, <1>3 DEF Terminated
<1>5. c[i] \in Characters /\ c[i] \in Nat
  BY <1>4, WidthType DEF CharArrays
<1>6. PICK v \in Characters : v = FlipBit(c[i], place)
  BY <1>5, FlipBitType
<1>7. Toggled(v, c[i], place)
  BY <1>5, <1>6, FlipBitFlips
<1>8. \A k \in 0 .. MAX_INP_LEN : r[k] = IF k = i THEN v ELSE c[k]
  BY <1>2, <1>4, <1>6, PutKeeps
<1> SUFFICES ASSUME NEW k \in 0 .. N - 1, NEW t \in 0 .. BITS - 1
             PROVE  Bit(r[k], t) = IF BitAt(k, t) = bit THEN 1 - Bit(c[k], t) ELSE Bit(c[k], t)
  BY DEF FlippedAt
<1>9. k \in Nat /\ (BitAt(k, t) = bit <=> k = i /\ t = place)
  <2>1. BitAt(k, t) \div BITS = k /\ BitAt(k, t) % BITS = t
    BY BitAtIs
  <2> QED BY <1>2, <2>1
<1>10. CASE k = i
  BY <1>4, <1>7, <1>8, <1>9, <1>10 DEF Toggled
<1>11. CASE k # i
  BY <1>4, <1>8, <1>9, <1>11
<1> QED BY <1>10, <1>11

LEMMA FlipFromStep ==
  ASSUME NEW N \in 1 .. MAX_INP_LEN, NEW b, NEW c, NEW r, NEW pos \in Nat, NEW n \in Nat \ {0},
         FlippedFrom(c, b, N, pos, n - 1), FlippedAt(r, c, N, (pos + n) - 1)
  PROVE  FlippedFrom(r, b, N, pos, n)
<1> SUFFICES ASSUME NEW k \in 0 .. N - 1, NEW t \in 0 .. BITS - 1
             PROVE  Bit(r[k], t) = IF pos <= BitAt(k, t) /\ BitAt(k, t) < pos + n
                                   THEN 1 - Bit(b[k], t) ELSE Bit(b[k], t)
  BY DEF FlippedFrom
<1>1. PICK bit \in Nat : bit = BitAt(k, t)
  BY BitAtIs
<1>2. Bit(c[k], t) = IF pos <= bit /\ bit < pos + (n - 1) THEN 1 - Bit(b[k], t)
                     ELSE Bit(b[k], t)
  BY <1>1 DEF FlippedFrom
<1>3. Bit(r[k], t) = IF bit = (pos + n) - 1 THEN 1 - Bit(c[k], t) ELSE Bit(c[k], t)
  BY <1>1 DEF FlippedAt
<1>4. pos <= bit /\ bit < pos + n <=> (pos <= bit /\ bit < pos + (n - 1)) \/ bit = (pos + n) - 1
  OBVIOUS
<1>5. ~(pos <= bit /\ bit < pos + (n - 1) /\ bit = (pos + n) - 1)
  OBVIOUS
<1> QED BY <1>1, <1>2, <1>3, <1>4, <1>5

LEMMA FlipFromIs ==
  ASSUME NEW N \in 1 .. MAX_INP_LEN, NEW b \in Terminated(N), NEW pos \in Nat,
         NEW n \in Nat, pos + n <= BITS * N
  PROVE  FlipFrom(b, pos, n) \in Terminated(N) /\ FlippedFrom(FlipFrom(b, pos, n), b, N, pos, n)
<1>1. PICK done \in [0 .. n -> Terminated(N)] :
         FlipsFrom(done, b, pos, n) /\ FlipFrom(b, pos, n) = done[n]
  BY FlipFromRuns
<1> DEFINE T == {j \in 0 .. n : FlippedFrom(done[j], b, N, pos, j)}
<1>2. 0 \in T
  <2>1. ASSUME NEW k \in 0 .. N - 1, NEW t \in 0 .. BITS - 1
        PROVE  ~(pos <= BitAt(k, t) /\ BitAt(k, t) < pos + 0)
    <3>1. PICK bit \in Nat : bit = BitAt(k, t)
      BY BitAtIs
    <3> QED BY <3>1
  <2>2. done[0] = b
    BY <1>1 DEF FlipsFrom
  <2> QED BY <2>1, <2>2 DEF FlippedFrom
<1>3. ASSUME NEW j \in 1 .. n, j - 1 \in T PROVE j \in T
  <2>1. PICK c \in Terminated(N), r \in Terminated(N) : c = done[j - 1] /\ r = done[j]
    OBVIOUS
  <2>2. PICK bit \in Nat : bit = (pos + j) - 1 /\ j \in Nat \ {0}
    OBVIOUS
  <2>3. bit < BITS * N
    <3>1. PICK w \in Nat : w = BITS * N
      BY MutatorAssumption
    <3> QED BY <2>2, <3>1
  <2>4. r = Put(c, bit \div BITS, FlipBit(c[bit \div BITS], bit % BITS))
    BY <1>1, <2>1, <2>2 DEF FlipsFrom
  <2>5. FlippedAt(r, c, N, bit)
    BY <2>3, <2>4, FlipRoundIs, Zenon
  <2>6. FlippedFrom(c, b, N, pos, j - 1)
    BY <1>3, <2>1
  <2>7. FlippedFrom(r, b, N, pos, j)
    BY <2>2, <2>5, <2>6, FlipFromStep, Zenon
  <2> QED BY <2>1, <2>7
<1>4. n \in T
  <2>1. 0 .. n \subseteq T
    <3> HIDE DEF T
    <3> QED BY <1>2, <1>3, RoundInduction
  <2> QED BY <2>1
<1> QED BY <1>1, <1>4

\* The rounds among the first i that cover the bit.
Covers(N, x, L, bit) ==
    {m \in Nat : H(BITS * N, m, x) <= bit /\ bit < H(BITS * N, m, x) + L}

\* c is b with each bit flipped as often as one of the first i places covers it.
FlippedUpTo(c, b, N, x, L, i) ==
    \A k \in 0 .. N - 1, t \in 0 .. BITS - 1 :
        Bit(c[k], t) =
            (Bit(b[k], t) + Cardinality((1 .. i) \cap Covers(N, x, L, BitAt(k, t)))) % 2

LEMMA FlipPlace ==
  ASSUME NEW N \in 1 .. MAX_INP_LEN, NEW i \in Nat \ {0}, NEW x \in 0 .. MaxState
  PROVE  BITS * N \in Nat /\ H(BITS * N, i, x) \in Nat /\ H(BITS * N, i, x) < BITS * N
<1>1. MAX_INP_LEN \in Nat /\ BITS \in Nat \ {0} /\ N \in Nat \ {0}
  BY MutatorAssumption
<1>2. PICK w, y \in Nat : w = BITS * N /\ y = BITS * MAX_INP_LEN
  BY <1>1
<1>3. w \in 1 .. y
  <2>1. BITS * 1 <= BITS * N /\ BITS * 1 = BITS /\ BITS * N <= BITS * MAX_INP_LEN
    BY <1>1, TimesGrows
  <2> QED BY <1>1, <1>2, <2>1
<1>4. H(w, i, x) \in 0 .. w - 1
  BY <1>2, <1>3, HRange
<1>5. H(w, i, x) \in Nat /\ H(w, i, x) < w
  BY <1>4
<1> QED BY <1>2, <1>5

LEMMA FlipStep ==
  ASSUME NEW N \in 1 .. MAX_INP_LEN, NEW x \in 0 .. MaxState, NEW L \in Nat,
         NEW i \in Nat \ {0}, NEW b \in CharArrays, NEW c, NEW r,
         FlippedUpTo(c, b, N, x, L, i - 1),
         FlippedFrom(r, c, N, H(BITS * N, i, x), Lower(L, BITS * N - H(BITS * N, i, x)))
  PROVE  FlippedUpTo(r, b, N, x, L, i)
<1> SUFFICES ASSUME NEW k \in 0 .. N - 1, NEW t \in 0 .. BITS - 1
             PROVE  Bit(r[k], t) =
                       (Bit(b[k], t) + Cardinality((1 .. i) \cap Covers(N, x, L, BitAt(k, t)))) % 2
  BY DEF FlippedUpTo
<1>1. PICK w, pos \in Nat : w = BITS * N /\ pos = H(w, i, x) /\ pos < w
  BY FlipPlace
<1>2. PICK bit \in Nat : bit = BitAt(k, t) /\ bit < w
  <2>1. k \in Nat /\ N \in Nat \ {0}
    BY MutatorAssumption
  <2> QED BY <1>1, <2>1, BitAtIs, BitAtBelow
<1>3. PICK R : R = Covers(N, x, L, bit)
  OBVIOUS
<1>4. PICK n, m \in Nat : n = Cardinality((1 .. i - 1) \cap R)
                          /\ m = Cardinality((1 .. i) \cap R)
                          /\ m = n + (IF i \in R THEN 1 ELSE 0)
  BY CountRound
<1>5. i \in R <=> pos <= bit /\ bit < pos + L
  BY <1>1, <1>3 DEF Covers
<1>6. i \in R <=> pos <= bit /\ bit < pos + Lower(L, w - pos)
  BY <1>1, <1>2, <1>5 DEF Lower
<1>7. PICK e \in {0, 1} : e = Bit(b[k], t)
  <2>1. b[k] \in Nat /\ t \in Nat
    BY MutatorAssumption, WidthType DEF CharArrays
  <2> QED BY <2>1, BitType
<1>8. Bit(c[k], t) = (e + n) % 2
  BY <1>2, <1>3, <1>4, <1>7 DEF FlippedUpTo
<1>9. Bit(r[k], t) = IF i \in R THEN 1 - Bit(c[k], t) ELSE Bit(c[k], t)
  BY <1>1, <1>2, <1>6 DEF FlippedFrom
<1>10. (e + (n + 1)) % 2 = 1 - ((e + n) % 2)
  OBVIOUS
<1>11. Bit(r[k], t) = (e + m) % 2
  BY <1>4, <1>8, <1>9, <1>10
<1> QED BY <1>2, <1>3, <1>4, <1>7, <1>11

LEMMA FlipIs ==
  ASSUME NEW A, NEW N \in 1 .. MAX_INP_LEN, N = Length(A), NEW b \in Terminated(N),
         \A k \in 0 .. N - 1 : b[k] = A[k], NEW x \in 0 .. MaxState, NEW p \in Nat,
         NEW L \in Nat
  PROVE  Yields(helpr_strat9(b, N, x, p, L), MD!Flipped(A, x, p, L))
<1>1. MAX_INP_LEN \in Nat /\ N \in Nat \ {0} /\ N \in 0 .. MAX_INP_LEN /\ b \in CharArrays
  BY MutatorAssumption DEF Terminated
<1>2. PICK done \in [0 .. p -> Terminated(N)] :
         Flips(done, b, N, x, p, L) /\ helpr_strat9(b, N, x, p, L) = done[p]
  BY FlipsRun
<1> DEFINE T == {i \in 0 .. p : FlippedUpTo(done[i], b, N, x, L, i)}
<1>3. 0 \in T
  <2>1. ASSUME NEW k \in 0 .. N - 1, NEW t \in 0 .. BITS - 1
        PROVE  Bit(b[k], t) =
                  (Bit(b[k], t) + Cardinality((1 .. 0) \cap Covers(N, x, L, BitAt(k, t)))) % 2
    <3>1. Cardinality((1 .. 0) \cap Covers(N, x, L, BitAt(k, t))) = 0
      BY NoRounds, Zenon
    <3>2. PICK e \in {0, 1} : e = Bit(b[k], t)
      <4>1. b[k] \in Nat /\ t \in Nat
        BY <1>1, MutatorAssumption, WidthType DEF CharArrays
      <4> QED BY <4>1, BitType
    <3>3. e = (e + 0) % 2
      OBVIOUS
    <3> QED BY <3>1, <3>2, <3>3, Zenon
  <2>2. done[0] = b
    BY <1>2 DEF Flips
  <2> QED BY <2>1, <2>2 DEF FlippedUpTo
<1>4. ASSUME NEW i \in 1 .. p, i - 1 \in T PROVE i \in T
  <2>1. PICK c \in Terminated(N), r \in Terminated(N) : c = done[i - 1] /\ r = done[i]
    OBVIOUS
  <2>2. i \in Nat \ {0}
    OBVIOUS
  <2>3. PICK w, pos \in Nat : w = BITS * N /\ pos = H(w, i, x) /\ pos < w
    BY <2>2, FlipPlace
  <2>4. PICK n \in Nat : n = Lower(L, w - pos) /\ pos + n <= w
    BY <2>3 DEF Lower
  <2>5. r = FlipFrom(c, pos, n)
    BY <1>2, <2>1, <2>3, <2>4 DEF Flips
  <2>6. pos + n <= BITS * N
    BY <2>3, <2>4
  <2>7. FlippedFrom(r, c, N, pos, n)
    BY <2>5, <2>6, FlipFromIs, Zenon
  <2>8. FlippedUpTo(c, b, N, x, L, i - 1)
    BY <1>4, <2>1
  <2>9. FlippedFrom(r, c, N, H(BITS * N, i, x), Lower(L, BITS * N - H(BITS * N, i, x)))
    BY <2>3, <2>4, <2>7, Zenon
  <2>10. FlippedUpTo(r, b, N, x, L, i)
    BY <1>1, <2>2, <2>8, <2>9, FlipStep, Zenon
  <2> QED BY <2>1, <2>10
<1>5. p \in T
  <2>1. 0 .. p \subseteq T
    <3> HIDE DEF T
    <3> QED BY <1>3, <1>4, RoundInduction
  <2> QED BY <2>1
<1>6. PICK r \in Terminated(N) : r = done[p]
  OBVIOUS
<1> DEFINE Is(c, j) ==
             \A t \in 0 .. BITS - 1 :
                Bit(c, t) =
                   (Bit(A[j], t) + Cardinality((1 .. p) \cap Covers(N, x, L, BitAt(j, t)))) % 2
<1>7. PICK s : s = [j \in 0 .. N - 1 |-> CHOOSE c \in Characters : Is(c, j)]
  OBVIOUS
<1>8. r \in CharArrays /\ r[N] = 0
  BY <1>1 DEF Terminated
<1>9. ASSUME NEW j \in 0 .. N - 1 PROVE r[j] = s[j]
  <2>1. r[j] \in Characters
    BY <1>1, <1>8 DEF CharArrays
  <2>2. Is(r[j], j)
    BY <1>5, <1>6 DEF FlippedUpTo
  <2>3. ASSUME NEW c \in Characters, Is(c, j) PROVE c = r[j]
    <3>1. \A t \in 0 .. BITS - 1 : Bit(c, t) = Bit(r[j], t)
      BY <2>2, <2>3
    <3> QED BY <2>1, <3>1, BitsDetermine
  <2> HIDE DEF Is
  <2>4. (CHOOSE c \in Characters : Is(c, j)) = r[j]
    BY <2>1, <2>2, <2>3
  <2> QED BY <1>7, <2>4
<1>10. s = [j \in 0 .. N - 1 |-> s[j]]
  <2> HIDE DEF Is
  <2> QED BY <1>7
<1>11. Yields(r, MD!Cut(s))
  BY <1>1, <1>8, <1>9, <1>10, PointsMatch
<1>12. MD!Flipped(A, x, p, L) = MD!Cut(s)
  <2> DEFINE covers(bit) == {i \in 1 .. p :
                               LET start == MD!Iterated(BITS * MD!Length(A), i, x)
                               IN  start <= bit /\ bit < start + L}
             Is2(c, j) == \A t \in 0 .. BITS - 1 :
                            MD!Bit(c, t) =
                               (MD!Bit(A[j], t) + MD!Cardinality(covers((BITS * j) + t))) % 2
  <2>1. MD!Length(A) = N /\ MD!Pow2 = Pow2 /\ \A S : MD!Cardinality(S) = Cardinality(S)
    BY SameHelpers, SamePow2 DEF MD!Cardinality, Cardinality
  <2>2. \A c, t : MD!Bit(c, t) = Bit(c, t)
    BY <2>1 DEF MD!Bit, Bit
  <2>3. BITS * N # 0
    BY <1>1, MutatorAssumption, TimesGrows
  <2>4. \A i : MD!Iterated(BITS * MD!Length(A), i, x) = H(BITS * N, i, x)
    BY <2>1, <2>3, SameHash
  <2>5. \A bit : covers(bit) = (1 .. p) \cap Covers(N, x, L, bit)
    BY <2>4 DEF Covers
  <2>6. \A c, j : Is2(c, j) <=> Is(c, j)
    <3> HIDE DEF covers
    <3> QED BY <2>1, <2>2, <2>5 DEF BitAt
  <2>7. s = [j \in 0 .. N - 1 |-> CHOOSE c \in 0 .. Pow2[BITS] - 1 : Is2(c, j)]
    <3> HIDE DEF Is, Is2
    <3> QED BY <1>7, <2>6 DEF Characters
  <2> QED BY <2>1, <2>7 DEF MD!Flipped
<1> QED BY <1>2, <1>6, <1>11, <1>12

-----------------------------------------------------------------------------
(***************************************************************************)
(* A call of mutate.                                                       *)
(***************************************************************************)
\* The string that is sent, for a buffer that is read as str.
LEMMA MutatesYields ==
  ASSUME input \in Inputs, NEW s, NEW b, Mutates(s, b), HoldsString(buf)',
         NEW str, Yields(b, str)
  PROVE  /\ result'.str = str
         /\ result'.state = 0
         /\ input' = [input EXCEPT !.state = @ + 1]
<1>1. buf' = b /\ result' = (IF HoldsString(b) THEN MakeInput(b) ELSE UNDEFINED)
      /\ input' = InputStateStep(input)
  BY DEF Mutates, Sends
<1>2. HoldsString(b)
  BY <1>1
<1> QED BY <1>1, <1>2 DEF Yields, InputStateStep

\* The effect of mutate that AsSpecified promises.
Promised ==
    /\ result'.str = Specified
    /\ result'.state = 0
    /\ input' = [input EXCEPT !.state = @ + 1]

LEMMA MutatesPromised ==
  ASSUME input \in Inputs, NEW s, NEW b, Mutates(s, b), HoldsString(buf)',
         Yields(b, Specified)
  PROVE  Promised
BY MutatesYields DEF Promised

\* Mutate does with the input at hand what Mutation.md says.
LEMMA MutateIs == StringInv /\ Mutate /\ NLocal <= MAX_INP_LEN => Promised
<1> SUFFICES ASSUME StringInv, Mutate, NLocal <= MAX_INP_LEN PROVE Promised
  OBVIOUS
<1>1. input \in Inputs /\ HoldsString(buf)'
  <2>1. StringInv'
    BY StringInvNext DEF Next
  <2>2. input \in Inputs /\ input'.str = input.str
    BY DEF StringInv, TypeOK, Inputs, Sends, InputStateStep, Mutate, Mutates, MutateEmpty,
       FillToLength, Duplicate, Lengthen, Truncate, InjectString, InjectInteger,
       InjectSubstring, InjectCharacter, FlipBits, Increment, Decrement
  <2>3. NLocal' <= MAX_INP_LEN /\ NLocal' \in Nat
    BY <2>2, LocalsAreNat DEF NLocal
  <2> QED BY <2>1, <2>2, <2>3, MutatorAssumption DEF StringInv, StaysInBuffer
<1> DEFINE Mutating == SLocal \in 1 .. MaxState - 1 /\ NLocal # 0
<1>2. ASSUME Mutating
      PROVE  /\ NLocal \in 1 .. MAX_INP_LEN /\ NLocal = Length(input.str)
             /\ Buffer \in Terminated(NLocal)
             /\ \A k \in 0 .. NLocal - 1 : Buffer[k] = input.str[k]
             /\ SLocal \in 0 .. MaxState /\ KLocal \in Nat /\ pLocal \in Nat /\ Literal \in Nat
  BY <1>1, <1>2, LocalsType DEF NLocal
<1>3. ASSUME NEW s, NEW b, Mutates(s, b) PROVE Mutating /\ NLocal # 0 /\ Strategy = s
  BY <1>3 DEF Mutates
<1> HIDE DEF Mutating
<1>4. CASE FillToLength
  <2>1. Yields(helpr_strat1(Buffer, NLocal, KLocal),
               MD!FillWith(input.str, KLocal, Character(0)))
    BY <1>2, <1>3, <1>4, FillIs DEF FillToLength
  <2>2. Specified = MD!FillWith(input.str, KLocal, Character(0))
    BY <1>3, <1>4 DEF FillToLength, Specified
  <2> QED BY <1>1, <1>4, <2>1, <2>2, MutatesPromised DEF FillToLength
<1>5. CASE Duplicate
  <2>1. Yields(helpr_strat2(Buffer, NLocal, KLocal), MD!Duplicated(input.str, KLocal))
    BY <1>2, <1>3, <1>5, DuplicateIs DEF Duplicate
  <2>2. Specified = MD!Duplicated(input.str, KLocal)
    BY <1>3, <1>5 DEF Duplicate, Specified
  <2> QED BY <1>1, <1>5, <2>1, <2>2, MutatesPromised DEF Duplicate
<1>6. CASE Lengthen
  <2>1. Yields(helpr_strat3(Buffer, NLocal, SLocal, Literal),
               MD!Lengthened(input.str, SLocal, Literal))
    BY <1>2, <1>3, <1>6, LengthenIs DEF Lengthen
  <2>2. Specified = MD!Lengthened(input.str, SLocal, Literal)
    BY <1>3, <1>6 DEF Lengthen, Specified
  <2> QED BY <1>1, <1>6, <2>1, <2>2, MutatesPromised DEF Lengthen
<1>7. CASE Truncate
  <2>1. Yields(helpr_strat4(Buffer, NLocal, SLocal), MD!Truncated(input.str, SLocal))
    BY <1>2, <1>3, <1>7, TruncateIs DEF Truncate
  <2>2. Specified = MD!Truncated(input.str, SLocal)
    BY <1>3, <1>7 DEF Truncate, Specified
  <2> QED BY <1>1, <1>7, <2>1, <2>2, MutatesPromised DEF Truncate
<1>8. CASE InjectString
  <2>1. Yields(helpr_strat5(Buffer, NLocal, SLocal, pLocal, Text(Literal)),
               MD!InjectedText(input.str, SLocal, pLocal, Text(Literal)))
    <3>1. Text(Literal) \in Chars(Literal)
      BY <1>2, <1>3, <1>8, TextType DEF InjectString
    <3> QED BY <1>2, <1>3, <1>8, <3>1, InjectTextIs DEF InjectString
  <2>2. Specified = MD!InjectedText(input.str, SLocal, pLocal, Text(Literal))
    BY <1>3, <1>8 DEF InjectString, Specified
  <2> QED BY <1>1, <1>8, <2>1, <2>2, MutatesPromised DEF InjectString
<1>9. CASE InjectInteger
  <2>1. Yields(helpr_strat6(Buffer, NLocal, SLocal, pLocal),
               MD!InjectedText(input.str, SLocal, pLocal, Text(1 + (HASH(SLocal) % 11))))
    BY <1>2, <1>3, <1>9, InjectIntegerIs DEF InjectInteger
  <2>2. Specified = MD!InjectedText(input.str, SLocal, pLocal, Text(1 + (HASH(SLocal) % 11)))
    BY <1>3, <1>9 DEF InjectInteger, Specified
  <2> QED BY <1>1, <1>9, <2>1, <2>2, MutatesPromised DEF InjectInteger
<1>10. CASE InjectSubstring
  <2>1. Yields(helpr_strat7(Buffer, NLocal, SLocal, pLocal, Literal),
               MD!InjectedPart(input.str, SLocal, pLocal, Literal))
    BY <1>2, <1>3, <1>10, InjectPartIs DEF InjectSubstring
  <2>2. Specified = MD!InjectedPart(input.str, SLocal, pLocal, Literal)
    BY <1>3, <1>10 DEF InjectSubstring, Specified
  <2> QED BY <1>1, <1>10, <2>1, <2>2, MutatesPromised DEF InjectSubstring
<1>11. CASE InjectCharacter
  <2>1. Yields(helpr_strat8(Buffer, NLocal, SLocal, pLocal, Character(Literal)),
               MD!InjectedText(input.str, SLocal, pLocal, [k \in {0} |-> Character(Literal)]))
    <3>1. Character(Literal) \in Characters
      BY <1>2, <1>3, <1>11, CharacterType DEF InjectCharacter
    <3>2. PICK s : s = [k \in {0} |-> Character(Literal)]
      OBVIOUS
    <3>3. Yields(helpr_strat8(Buffer, NLocal, SLocal, pLocal, Character(Literal)),
                 MD!InjectedText(input.str, SLocal, pLocal, s))
      BY <1>2, <1>3, <1>11, <3>1, <3>2, InjectCharacterIs DEF InjectCharacter
    <3> QED BY <3>2, <3>3, Zenon
  <2>2. Specified = MD!InjectedText(input.str, SLocal, pLocal,
                                    [k \in {0} |-> Character(Literal)])
    BY <1>3, <1>11 DEF InjectCharacter, Specified
  <2> QED BY <1>1, <1>11, <2>1, <2>2, MutatesPromised DEF InjectCharacter
<1>12. CASE FlipBits
  <2>1. Yields(helpr_strat9(Buffer, NLocal, SLocal, pLocal, Literal),
               MD!Flipped(input.str, SLocal, pLocal, Literal))
    BY <1>2, <1>3, <1>12, FlipIs DEF FlipBits
  <2>2. Specified = MD!Flipped(input.str, SLocal, pLocal, Literal)
    BY <1>3, <1>12 DEF FlipBits, Specified
  <2> QED BY <1>1, <1>12, <2>1, <2>2, MutatesPromised DEF FlipBits
<1>13. CASE Increment
  <2>1. Yields(helpr_strat10(Buffer, NLocal, SLocal, pLocal),
               MD!Shifted(input.str, SLocal, pLocal, 1))
    BY <1>2, <1>3, <1>13, ShiftIs DEF Increment, helpr_strat10
  <2>2. Specified = MD!Shifted(input.str, SLocal, pLocal, 1)
    BY <1>3, <1>13 DEF Increment, Specified
  <2> QED BY <1>1, <1>13, <2>1, <2>2, MutatesPromised DEF Increment
<1>14. CASE Decrement
  <2>1. Yields(helpr_strat11(Buffer, NLocal, SLocal, pLocal),
               MD!Shifted(input.str, SLocal, pLocal, Pow2[BITS] - 1))
    <3>1. Pow2[BITS] - 1 \in Nat
      BY WidthType DEF Width
    <3> QED BY <1>2, <1>3, <1>14, <3>1, ShiftIs DEF Decrement, helpr_strat11
  <2>2. Specified = MD!Shifted(input.str, SLocal, pLocal, Pow2[BITS] - 1)
    BY <1>3, <1>14 DEF Decrement, Specified
  <2> QED BY <1>1, <1>14, <2>1, <2>2, MutatesPromised DEF Decrement
<1>15. CASE MutateEmpty
  <2>1. NLocal = 0 /\ result' = MakeInput(<<>>) /\ input' = InputStateStep(input)
    BY <1>15 DEF MutateEmpty, Sends
  <2>2. MakeInput(<<>>) = [str |-> <<>>, state |-> 0]
    BY DEF MakeInput
  <2>3. Specified = <<>>
    BY <2>1 DEF Specified
  <2> QED BY <2>1, <2>2, <2>3 DEF Promised, InputStateStep
<1> QED BY <1>4, <1>5, <1>6, <1>7, <1>8, <1>9, <1>10, <1>11, <1>12, <1>13, <1>14, <1>15
        DEF Mutate

\* Every call of mutate with an input that fits its buffer returns the string that
\* Mutation.md gives for the state of the input, and changes of its argument only that state, by one.
THEOREM MutatesAsSpecified == Spec => AsSpecified
<1>1. StringInv /\ [Next]_vars =>
         [Mutate /\ NLocal <= MAX_INP_LEN
              => /\ result'.str = Specified
                 /\ result'.state = 0
                 /\ input' = [input EXCEPT !.state = @ + 1]]_vars
  BY MutateIs DEF Promised
<1> QED BY <1>1, StringInvariance, PTL DEF Spec, AsSpecified
=============================================================================
