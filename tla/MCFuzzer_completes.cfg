SPECIFICATION FairSpec
CONSTANTS
    job_count = 2
    input_count = 2
    num_seeds = 1
    UserStops = FALSE
    StaleSignals = FALSE
    MaxKills = 0
INVARIANTS
    InputsCleanedUp
PROPERTIES
    Completes
    JobsComeBack
