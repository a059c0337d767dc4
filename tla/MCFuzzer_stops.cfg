SPECIFICATION NoAlarmSpec
CONSTANTS
    job_count = 2
    input_count = 1
    num_seeds = 2
    UserStops = TRUE
    StaleSignals = FALSE
    MaxKills = 0
INVARIANTS
    IInv
PROPERTIES
    StopsOnSignal
    CleanupCompletes
CHECK_DEADLOCK FALSE
