----------------------------- MODULE MCCoverage -----------------------------
\* An instance of CoverageFeedback for TLC: two buckets, and a hash under which
\* most buffers collide.  It treats all edges alike, so they may be permuted.
EXTENDS CoverageFeedback, TLC

MCBuckets == {0, 1}
MCHash == [data \in SUBSET Edges |-> IF data = Edges THEN 1 ELSE 0]
Symmetry == Permutations(Edges) \cup Permutations(Runners)
=============================================================================
