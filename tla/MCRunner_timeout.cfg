SPECIFICATION Spec
CONSTANTS
    Jobs = 2
    MaxTerms = 2
    Timeouts = {1}
    Faults = {"late"}
INVARIANTS
    TimeoutTruthful
CHECK_DEADLOCK FALSE
