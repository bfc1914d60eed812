SPECIFICATION CTPSpec
CONSTANTS
    MaxUid = 1
    MaxId = 1
    MaxFails = 0
    AutoMerge = TRUE
    MaxSha = 1
    MaxGen = 3
    StaleGen = 3
    Async = TRUE
PROPERTIES
    PendingMergeKept
CHECK_DEADLOCK FALSE
