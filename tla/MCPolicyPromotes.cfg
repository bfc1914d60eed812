SPECIFICATION QuietSpec
CONSTANTS
    MaxUid = 4
    MaxId = 3
    MaxSha = 2
    MaxGen = 12
    MaxFails = 0
    Async = FALSE
    AutoMerge = TRUE
    StaleGen = 1
PROPERTIES
    PromotionCompletes
CHECK_DEADLOCK FALSE
