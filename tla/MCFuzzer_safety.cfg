SPECIFICATION Spec
CONSTANTS
    job_count = 3
    input_count = 1
    num_seeds = 1
    UserStops = TRUE
    StaleSignals = TRUE
    MaxKills = 1
INVARIANTS
    TypeOK
    RunnerLists
    NoLostWakeup
    ResultMatchesInput
    ReadyIsIdle
    InputsLive
    Accounting
    ZombieNoticed
    IInv
PROPERTIES
    ImplementsCampaign
CHECK_DEADLOCK FALSE
