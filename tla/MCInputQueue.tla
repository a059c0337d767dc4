---------------------------- MODULE MCInputQueue ----------------------------
\* An instance of InputQueue for TLC: two of the inputs have the same string.
EXTENDS InputQueue
CONSTANTS i1, i2, i3, i4
MCInputs == {i1, i2, i3, i4}
MCStr == [i \in MCInputs |-> IF i = i4 THEN i3 ELSE i]
=============================================================================
