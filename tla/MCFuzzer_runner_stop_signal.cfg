SPECIFICATION FairSpec
CONSTANTS
    job_count = 1
    input_count = 1
    num_seeds = 1
    UserStops = TRUE
    StaleSignals = FALSE
    MaxKills = 0
PROPERTIES
    RunnerStopsOnSignal
CHECK_DEADLOCK FALSE
