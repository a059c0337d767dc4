SPECIFICATION Spec
CONSTANTS
    MAX_INP_LEN = 6
    BITS = 2
    HASH <- MCHash
    NULL = NULL
    UNDEFINED = UNDEFINED
    SeedLines <- MCSeedLines
    MaxSeedLen = 8
    MaxState = 223
INVARIANTS
    TypeOK
    StaysInBuffer
PROPERTIES
    AsSpecified
