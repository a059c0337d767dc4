----------------------------- MODULE MCMutator ------------------------------
\* An instance of Mutator for TLC: characters of two bits, a hash with collisions, and
\* as seeds every line that fits and some that are one and two characters too long.
EXTENDS Mutator
MCHash(x) == (x * x + 5 * x + 7) % 61
Lines(n) == [0 .. n - 1 -> Characters \ {0}]
MCSeedLines ==
    UNION {Lines(n) : n \in 0 .. MAX_INP_LEN}
        \cup {Text(n) : n \in MAX_INP_LEN + 1 .. MaxSeedLen}
        \cup {[k \in 0 .. n - 1 |-> c] : n \in MAX_INP_LEN + 1 .. MaxSeedLen, c \in Characters \ {0}}
=============================================================================
