------------------------------ MODULE Mutator -------------------------------
(***************************************************************************)
(* The mutation engine (src/fuzzer/src/mutator.c) on the input objects of  *)
(* input.c, driven as the dispatch of run_fuzzer drives it: an input is    *)
(* sent once as it is and is then mutated again and again; what was sent   *)
(* may come back as an input.  mutate is sequential: a call is one step.   *)
(*                                                                         *)
(* A char array is a function from indices to characters.  A write outside *)
(* the array adds an index to the domain, so that it can be seen.          *)
(***************************************************************************)
EXTENDS Naturals, FiniteSets

CONSTANTS
    MAX_INP_LEN,   \* mutator.c:6
    BITS,          \* bits of a character, 8 in the code
    HASH(_),       \* the hash function of global.c, any function on Nat
    NULL,
    UNDEFINED,     \* what a call that has left its buffer returns
    SeedLines,     \* lines of the seed file, of any length
    MaxSeedLen,    \* bound: length of a line
    MaxState       \* bound: the mutator state at which an input is left alone

UNIQUE_MUTS == 37
Pow2[k \in Nat] == IF k = 0 THEN 1 ELSE 2 * Pow2[k - 1]
Characters == 0 .. Pow2[BITS] - 1
Length(s) == Cardinality(DOMAIN s)
Lower(a, b) == IF a < b THEN a ELSE b

\* The strings an input can hold: what getline or mutate hands to make_input.
Strings == UNION {[0 .. n - 1 -> Characters \ {0}] : n \in 0 .. MaxSeedLen}

Inputs == [str : Strings, state : 0 .. MaxState]

ASSUME MutatorAssumption ==
    /\ MAX_INP_LEN \in Nat \ {0} /\ BITS \in Nat \ {0} /\ MaxState \in Nat \ {0}
    /\ MaxSeedLen \in Nat /\ MAX_INP_LEN <= MaxSeedLen /\ SeedLines \subseteq Strings
    /\ \A x \in 0 .. MaxState + BITS * MaxSeedLen : HASH(x) \in Nat

VARIABLES
    input,    \* the input object that was dequeued
    buf,      \* the buffer of the last call of mutate
    result    \* the input object to send, or UNDEFINED

vars == <<input, buf, result>>

Cleared == [k \in 0 .. MAX_INP_LEN |-> 0]

\* The index of the first NUL.
strlen(chars) ==
    CHOOSE n \in DOMAIN chars : chars[n] = 0 /\ \A k \in 0 .. n - 1 : chars[k] # 0

\* Mutant: the whole buffer is taken, not the string in it.
MakeInputWhole(chars) == [str |-> chars, state |-> 0]

\* make_input and input_state_step; strdup stops at the first NUL.
MakeInput(chars) ==
    [str |-> IF \E k \in DOMAIN chars : chars[k] = 0
             THEN [k \in 0 .. strlen(chars) - 1 |-> chars[k]] ELSE chars,
     state |-> 0]

InputStateStep(i) == [i EXCEPT !.state = @ + 1]

Init ==
    /\ input \in {MakeInput(s) : s \in SeedLines}
    /\ buf = Cleared
    /\ result = NULL

(***************************************************************************)
(* Writing a char array.                                                   *)
(***************************************************************************)
\* b[at] = c, and memcpy of the characters s to b + at.
Put(b, at, c) == [k \in DOMAIN b \cup {at} |-> IF k = at THEN c ELSE b[k]]

Copy(b, at, s) ==
    [k \in DOMAIN b \cup {at + j : j \in DOMAIN s} |->
        IF k - at \in DOMAIN s THEN s[k - at] ELSE b[k]]

\* The n characters from b + at on.
Part(b, at, n) == [k \in 0 .. n - 1 |-> b[at + k]]

\* The string s is copied to the places at[1] .. at[p] of a string of length N, as
\* much of it as is left of the string there.
Inject(b, N, s, p, at) ==
    LET done[i \in 0 .. p] ==
          IF i = 0 THEN b
          ELSE Copy(done[i - 1], at[i], Part(s, 0, Lower(Length(s), N - at[i])))
    IN  done[p]

\* The literals of mutate: only their length and the order of their characters matter.
Character(k) == 1 + (k % (Pow2[BITS] - 1))
Text(length) == [k \in 0 .. length - 1 |-> Character(length + k)]

H(n, m, x) ==
    LET h[i \in 0 .. m] == IF i = 0 THEN x ELSE HASH(h[i - 1]) % n
    IN  IF n = 0 THEN 0 ELSE h[m]

(***************************************************************************)
(* The eleven strategies: buffer b, length N, cycle K, state S, p places.  *)
(***************************************************************************)
helpr_strat1(b, N, K) ==   \* Fill With Single Character To Length
    LET target == Lower(Pow2[K], MAX_INP_LEN)
        filled == IF target > N THEN Copy(b, N, [k \in 0 .. target - N - 1 |-> Character(0)])
                  ELSE b
    IN  Put(filled, target, 0)

helpr_strat2(b, N, K) ==   \* Duplicate Input K+1 times
    LET new_len == Lower(N * (K + 1), MAX_INP_LEN)
        done[i \in 0 .. K] ==
          IF i = 0 THEN b
          ELSE IF N * i < new_len
          THEN Copy(done[i - 1], N * i, Part(done[i - 1], 0, Lower(N, new_len - N * i)))
          ELSE done[i - 1]
    IN  Put(done[K], new_len, 0)

StratThreeUncapped(b, N, S, L) ==   \* mutant: the length is not cut to MAX_INP_LEN
    LET read(k) == IF k \in DOMAIN b THEN b[k] ELSE Pow2[BITS]
    IN  Put(Copy(b, N, [k \in 0 .. L - 1 |-> read(H(N, k + 1, S))]), N + L, 0)

\* [3] Lengthen String By L Characters.  For N > MAX_INP_LEN the difference of the
\* lengths wraps round and the loop runs off the stack: its first write, which is
\* outside already, stands for all (of a value that no character has if what it
\* reads is outside as well).
helpr_strat3(b, N, S, L) ==
    LET new_len == Lower(N + L, MAX_INP_LEN)
        added == IF new_len < N THEN 1 ELSE new_len - N
        read(k) == IF k \in DOMAIN b THEN b[k] ELSE Pow2[BITS]
    IN  Put(Copy(b, N, [k \in 0 .. added - 1 |-> read(H(N, k + 1, S))]), new_len, 0)

helpr_strat4(b, N, S) ==   \* Truncate Input
    Put(b, H(N, 1, S), 0)

helpr_strat5(b, N, S, p, A) ==   \* Inject String
    Inject(b, N, A, p, [i \in 1 .. p |-> H(N, i, S)])

helpr_strat6(b, N, S, p) ==   \* Inject Random Integer String, of one to eleven characters
    helpr_strat5(b, N, S, p, Text(1 + (HASH(S) % 11)))

StratSevenInPlace(b, N, S, p, L) ==   \* mutant: the substring is not copied out first
    LET src_pos == H(N, 1, S)
        actual_L == Lower(L, N - src_pos)
        done[i \in 0 .. p] ==
          IF i = 0 THEN b
          ELSE LET dest_pos == H(N, i + 1, S)
               IN  Copy(done[i - 1], dest_pos,
                        Part(done[i - 1], src_pos, Lower(actual_L, N - dest_pos)))
    IN  done[p]

helpr_strat7(b, N, S, p, L) ==   \* Inject Random Substring of Length L
    LET src_pos == H(N, 1, S)
        substr == Part(b, src_pos, Lower(L, N - src_pos))
    IN  Inject(b, N, substr, p, [i \in 1 .. p |-> H(N, i + 1, S)])

helpr_strat8(b, N, S, p, C) ==   \* Inject Character, a string of one character
    Inject(b, N, [k \in 0 .. 0 |-> C], p, [i \in 1 .. p |-> H(N, i, S)])

FlipBit(c, bit) ==
    IF (c \div Pow2[bit]) % 2 = 1 THEN c - Pow2[bit] ELSE c + Pow2[bit]

\* The n bits from bit_pos on.
FlipFrom(b, bit_pos, n) ==
    LET done[j \in 0 .. n] ==
          IF j = 0 THEN b
          ELSE LET bit_toflip == bit_pos + j - 1
                   byte_ind == bit_toflip \div BITS
               IN  Put(done[j - 1], byte_ind, FlipBit(done[j - 1][byte_ind], bit_toflip % BITS))
    IN  done[n]

helpr_strat9(b, N, S, p, L) ==   \* Flip L Bits, the last of them at most the last bit of the input
    LET done[i \in 0 .. p] ==
          IF i = 0 THEN b
          ELSE LET bit_pos == H(BITS * N, i, S)
               IN  FlipFrom(done[i - 1], bit_pos, Lower(L, BITS * N - bit_pos))
    IN  done[p]

\* The character at each of p places grows by d, modulo its width.
Shift(b, N, S, p, d) ==
    LET done[i \in 0 .. p] ==
          IF i = 0 THEN b
          ELSE LET k == H(N, i, S)
               IN  Put(done[i - 1], k, (done[i - 1][k] + d) % Pow2[BITS])
    IN  done[p]

helpr_strat10(b, N, S, p) == Shift(b, N, S, p, 1)                 \* Increment Bytes

helpr_strat11(b, N, S, p) == Shift(b, N, S, p, Pow2[BITS] - 1)    \* Decrement Bytes

(***************************************************************************)
(* mutate.                                                                 *)
(***************************************************************************)
\* The switch: the strategy of each step of the cycle and its literal, or the
\* length of it.
Cycle == <<
    <<7, 1>>, <<5, 1>>, <<3, 4>>, <<5, 1>>, <<8, 1>>, <<3, 7>>, <<9, 1>>, <<11, 0>>, <<2, 0>>,
    <<3, 1>>, <<5, 4>>, <<3, 8>>, <<5, 10>>, <<9, 4>>, <<5, 2>>, <<3, 2>>, <<5, 5>>, <<1, 0>>,
    <<7, 2>>, <<8, 2>>, <<3, 3>>, <<5, 2>>, <<4, 0>>, <<6, 0>>, <<5, 3>>, <<8, 3>>, <<3, 5>>,
    <<5, 6>>, <<10, 0>>, <<5, 2>>, <<7, 8>>, <<9, 8>>, <<5, 11>>, <<8, 4>>, <<3, 6>>, <<7, 4>>,
    <<9, 2>> >>

\* The locals of mutate for the input at hand.
NLocal == Length(input.str)
SLocal == input.state
KLocal == (SLocal \div UNIQUE_MUTS) + 1
pLocal == (KLocal + 1) \div 2
Strategy == Cycle[(SLocal % UNIQUE_MUTS) + 1][1]
Literal == Cycle[(SLocal % UNIQUE_MUTS) + 1][2]

\* memset and strncpy, of at most MAX_INP_LEN characters
Buffer == [k \in 0 .. MAX_INP_LEN |->
              IF k < NLocal /\ k < MAX_INP_LEN THEN input.str[k] ELSE 0]

\* What buf[MAX_INP_LEN + 1] can hold for make_input: characters up to a NUL.
HoldsString(b) ==
    /\ b \in [0 .. MAX_INP_LEN -> Characters]
    /\ \E k \in DOMAIN b : b[k] = 0

Sends(b, sent) ==
    /\ result # UNDEFINED
    /\ buf' = b
    /\ result' = sent
    /\ input' = InputStateStep(input)

\* One case label for each strategy.  What a call returns that has written outside
\* its buffer or left no NUL in it is not defined, nor what the fuzzer does then.
Mutates(strategy, mutated) ==
    /\ SLocal \in 1 .. MaxState - 1 /\ NLocal # 0
    /\ Strategy = strategy
    /\ Sends(mutated, IF HoldsString(mutated) THEN MakeInput(mutated) ELSE UNDEFINED)

FillToLength == Mutates(1, helpr_strat1(Buffer, NLocal, KLocal))
Duplicate == Mutates(2, helpr_strat2(Buffer, NLocal, KLocal))
Lengthen == Mutates(3, helpr_strat3(Buffer, NLocal, SLocal, Literal))
Truncate == Mutates(4, helpr_strat4(Buffer, NLocal, SLocal))
InjectString == Mutates(5, helpr_strat5(Buffer, NLocal, SLocal, pLocal, Text(Literal)))
InjectInteger == Mutates(6, helpr_strat6(Buffer, NLocal, SLocal, pLocal))
InjectSubstring == Mutates(7, helpr_strat7(Buffer, NLocal, SLocal, pLocal, Literal))
InjectCharacter == Mutates(8, helpr_strat8(Buffer, NLocal, SLocal, pLocal, Character(Literal)))
FlipBits == Mutates(9, helpr_strat9(Buffer, NLocal, SLocal, pLocal, Literal))
Increment == Mutates(10, helpr_strat10(Buffer, NLocal, SLocal, pLocal))
Decrement == Mutates(11, helpr_strat11(Buffer, NLocal, SLocal, pLocal))

\* The empty input is returned before the switch.
MutateEmpty ==
    /\ SLocal \in 1 .. MaxState - 1 /\ NLocal = 0
    /\ Sends(Cleared, MakeInput(<<>>))

\* fuzzer.c: a fresh input is sent as it is.
SendItself ==
    /\ SLocal = 0
    /\ Sends(Cleared, MakeInput(input.str))

\* fuzzer.c: what was sent has been queued by its result and is dequeued.
Requeue ==
    /\ result \notin {NULL, UNDEFINED}
    /\ input' = result
    /\ buf' = Cleared
    /\ result' = NULL

Mutate ==
    \/ FillToLength \/ Duplicate \/ Lengthen \/ Truncate \/ InjectString \/ InjectInteger
    \/ InjectSubstring \/ InjectCharacter \/ FlipBits \/ Increment \/ Decrement \/ MutateEmpty

AfterUndefined == result = UNDEFINED /\ UNCHANGED vars

Next == Mutate \/ SendItself \/ Requeue \/ AfterUndefined

Spec == Init /\ [][Next]_vars

(***************************************************************************)
(* Properties.                                                             *)
(***************************************************************************)
\* The input and the result are inputs, strings without NUL; and what mutate makes
\* of an input, be it longer, fits its buffer.
TypeOK ==
    /\ input \in Inputs
    /\ result \in Inputs \cup {NULL, UNDEFINED}
    /\ result \notin {NULL, UNDEFINED} /\ input.state > 1 => Length(result.str) <= MAX_INP_LEN

\* No strategy writes outside buf[MAX_INP_LEN + 1] or leaves anything but a string
\* in it, unless the input is a seed line of more than MAX_INP_LEN characters.  At
\* most the first mutation of such a line stays inside: the second, by strategy 3,
\* never does.
StaysInBuffer ==
    /\ ~HoldsString(buf) => NLocal > MAX_INP_LEN
    /\ NLocal > MAX_INP_LEN
          => \/ input.state <= 2
             \/ input.state = 3 /\ ~HoldsString(buf)

MD == INSTANCE MutationSpec

\* The string that Mutation.md gives for the input at hand.
Specified ==
    LET A == input.str
        T == Text(Literal)
    IN  IF NLocal = 0 THEN <<>>
        ELSE CASE Strategy = 1 -> MD!FillWith(A, KLocal, Character(0))
               [] Strategy = 2 -> MD!Duplicated(A, KLocal)
               [] Strategy = 3 -> MD!Lengthened(A, SLocal, Literal)
               [] Strategy = 4 -> MD!Truncated(A, SLocal)
               [] Strategy = 5 -> MD!InjectedText(A, SLocal, pLocal, T)
               [] Strategy = 6 -> MD!InjectedText(A, SLocal, pLocal, Text(1 + (HASH(SLocal) % 11)))
               [] Strategy = 7 -> MD!InjectedPart(A, SLocal, pLocal, Literal)
               [] Strategy = 8 -> MD!InjectedText(A, SLocal, pLocal, [k \in {0} |-> Character(Literal)])
               [] Strategy = 9 -> MD!Flipped(A, SLocal, pLocal, Literal)
               [] Strategy = 10 -> MD!Shifted(A, SLocal, pLocal, 1)
               [] Strategy = 11 -> MD!Shifted(A, SLocal, pLocal, Pow2[BITS] - 1)

\* Every call of mutate with an input of at most MAX_INP_LEN characters returns the
\* string of Mutation.md and changes of its argument only the mutator state, by one.
AsSpecified ==
    [][ Mutate /\ NLocal <= MAX_INP_LEN
            => /\ result'.str = Specified
               /\ result'.state = 0
               /\ input' = [input EXCEPT !.state = @ + 1] ]_vars
=============================================================================
