SPECIFICATION Spec
CONSTANTS
    Edges = {e1, e2}
    Buckets <- MCBuckets
    hash_ind <- MCHash
    MayFail = FALSE
    Runners = {r1}
    MaxRuns = 3
PROPERTIES
    DuplicatesFiltered
CHECK_DEADLOCK FALSE
