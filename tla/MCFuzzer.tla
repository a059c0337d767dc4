------------------------------ MODULE MCFuzzer ------------------------------
\* Instances of Fuzzer for TLC; the cfg files give the constants their values.
EXTENDS FuzzerInv
=============================================================================
