SPECIFICATION CTPSpec
CONSTANTS
    MaxUid = 1
    MaxId = 1
    MaxFails = 0
    AutoMerge = TRUE
    MaxSha = 2
    MaxGen = 4
    StaleGen = 4
    Async = FALSE
INVARIANTS
    GateRespected
CHECK_DEADLOCK FALSE
