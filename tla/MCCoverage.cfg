SPECIFICATION Spec
CONSTANTS
    Edges = {e1, e2, e3}
    Buckets <- MCBuckets
    hash_ind <- MCHash
    MayFail = TRUE
    Runners = {r1, r2}
    MaxRuns = 4
INVARIANTS
    TypeOK
    HashsetSound
PROPERTIES
    ImplementsCoverageSpec
    NovelEdgesFound
SYMMETRY Symmetry
CHECK_DEADLOCK FALSE
