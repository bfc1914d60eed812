SPECIFICATION FairSpec
CONSTANTS
    MaxUid = 1
    MaxId = 1
    MaxSha = 1
    MaxGen = 8
    MaxFails = 0
    Async = FALSE
    AutoMerge = TRUE
    StaleGen = 1
PROPERTIES
    OutcomeGoes
    TerminatingIsReleased
CHECK_DEADLOCK FALSE
