SPECIFICATION CTPSpec
CONSTANTS
    MaxUid = 2
    MaxId = 1
    MaxSha = 1
    MaxGen = 2
    MaxFails = 1
    Async = TRUE
    AutoMerge = TRUE
    StaleGen = 2
INVARIANTS
    CTPTypeOK
    StatusTruthful
    MergedAfterAPass
    PolicyTruthful
PROPERTIES
    HandedOver
    PRSpec
CHECK_DEADLOCK FALSE
