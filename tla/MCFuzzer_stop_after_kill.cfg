SPECIFICATION FairSpec
CONSTANTS
    job_count = 2
    input_count = 1
    num_seeds = 1
    UserStops = TRUE
    StaleSignals = FALSE
    MaxKills = 1
PROPERTIES
    StopsOnSignal
CHECK_DEADLOCK FALSE
