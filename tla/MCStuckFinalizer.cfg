SPECIFICATION FairSpec
CONSTANTS
    MaxUid = 1
    MaxId = 1
    MaxFails = 0
    AutoMerge = TRUE
    MaxSha = 1
    MaxGen = 8
    StaleGen = 1
    Async = FALSE
PROPERTIES
    TerminatingGoes
CHECK_DEADLOCK FALSE
