---------------------------- MODULE MutationSpec ----------------------------
(***************************************************************************)
(* What each mutation strategy promises (src/fuzzer/Mutation.md), written  *)
(* as the character at each position of the mutated string instead of the  *)
(* sequence of writes that mutator.c makes.                                *)
(***************************************************************************)
EXTENDS Naturals, FiniteSets

CONSTANTS
    MAX_INP_LEN,   \* the longest string
    BITS,          \* bits of a character
    HASH(_)

\* A string is a function on 0 .. length - 1 to the non-zero characters.
Length(s) == Cardinality(DOMAIN s)
Lower(a, b) == IF a < b THEN a ELSE b

Pow2[k \in Nat] == IF k = 0 THEN 1 ELSE 2 * Pow2[k - 1]
Bit(c, b) == (c \div Pow2[b]) % 2

First(S) == CHOOSE x \in S : \A y \in S : x <= y
Last(S) == CHOOSE x \in S : \A y \in S : y <= x

\* H_{n,m}(x) of Mutation.md, for m > 0.
Iterated(n, m, x) ==
    LET h[i \in 0 .. m] == IF i = 0 THEN x ELSE HASH(h[i - 1]) % n
    IN  h[m]

\* The characters before the first NUL.
Cut(s) == LET nuls == {k \in DOMAIN s : s[k] = 0}
          IN  IF nuls = {} THEN s ELSE [k \in 0 .. First(nuls) - 1 |-> s[k]]

(***************************************************************************)
(* The strategies of Mutation.md: A is the input, K the cycle index, S the *)
(* mutator state, p the number of places, T an injected text.              *)
(***************************************************************************)
FillWith(A, K, c) ==
    Cut([j \in 0 .. Lower(Pow2[K], MAX_INP_LEN) - 1 |-> IF j < Length(A) THEN A[j] ELSE c])

Duplicated(A, K) ==
    Cut([j \in 0 .. Lower(Length(A) * (K + 1), MAX_INP_LEN) - 1 |-> A[j % Length(A)]])

Lengthened(A, S, L) ==
    Cut([j \in 0 .. Lower(Length(A) + L, MAX_INP_LEN) - 1 |->
            IF j < Length(A) THEN A[j] ELSE A[Iterated(Length(A), j - Length(A) + 1, S)]])

Truncated(A, S) == Cut([j \in 0 .. Iterated(Length(A), 1, S) - 1 |-> A[j]])

\* T starts at the places start[1] .. start[p]; the last one to cover a character wins.
Injected(A, p, T, start) ==
    LET covering(j) == {i \in 1 .. p : start[i] <= j /\ j - start[i] \in DOMAIN T}
    IN  Cut([j \in 0 .. Length(A) - 1 |->
                IF covering(j) = {} THEN A[j] ELSE T[j - start[Last(covering(j))]]])

InjectedText(A, S, p, T) == Injected(A, p, T, [i \in 1 .. p |-> Iterated(Length(A), i, S)])

InjectedPart(A, S, p, L) ==
    LET from == Iterated(Length(A), 1, S)
        part == [k \in 0 .. Lower(L, Length(A) - from) - 1 |-> A[from + k]]
    IN  Injected(A, p, part, [i \in 1 .. p |-> Iterated(Length(A), i + 1, S)])

\* The character at j is the one with these bits: a bit that an even number of the p
\* sequences of L bits cover is unchanged.
Flipped(A, S, p, L) ==
    LET covers(bit) == {i \in 1 .. p : LET start == Iterated(BITS * Length(A), i, S)
                                       IN  start <= bit /\ bit < start + L}
    IN  Cut([j \in 0 .. Length(A) - 1 |->
                CHOOSE c \in 0 .. Pow2[BITS] - 1 :
                    \A b \in 0 .. BITS - 1 :
                        Bit(c, b) = (Bit(A[j], b) + Cardinality(covers((BITS * j) + b))) % 2])

\* Each of the p places adds d to its character, modulo the width.
Shifted(A, S, p, d) ==
    Cut([j \in 0 .. Length(A) - 1 |->
            (A[j] + (d * Cardinality({i \in 1 .. p : Iterated(Length(A), i, S) = j})))
                % Pow2[BITS]])
=============================================================================
