SPECIFICATION FairSpec
CONSTANTS
    i1 = i1
    i2 = i2
    i3 = i3
    i4 = i4
    Inputs <- MCInputs
    str <- MCStr
    Nodes = {n1, n2, n3}
    NULL = NULL
    MayFail = TRUE
INVARIANTS
    TypeOK
    ListsSound
    NoDuplicates
    Ownership
PROPERTIES
    NineToOne
    ImplementsQueueSpec
    NoStarvation
CHECK_DEADLOCK FALSE
