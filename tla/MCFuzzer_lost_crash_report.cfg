SPECIFICATION Spec
CONSTANTS
    job_count = 1
    input_count = 1
    num_seeds = 1
    UserStops = FALSE
    StaleSignals = FALSE
    MaxKills = 1
PROPERTIES
    CrashesReported
CHECK_DEADLOCK FALSE
