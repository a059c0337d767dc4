SPECIFICATION FairSpec
CONSTANTS
    Jobs = 3
    MaxTerms = 1
    Timeouts = {0, 1}
    Faults = {"fork", "exec", "slow", "late", "ignore", "stop"}
INVARIANTS
    TypeOK
    NoTargetLeftBehind
    NoLostChild
    WaitpidReturns
    KillsOnlyItsTarget
    TimeoutAlmostTruthful
    CrashTruthful
PROPERTIES
    IsFuzzerRunner
    Terminates
    InputAnswered
CHECK_DEADLOCK FALSE
