SPECIFICATION PRSpec
CONSTANTS
    MaxUid = 1
    MaxId = 1
    MaxSha = 2
    MaxGen = 2
    MaxFails = 1
    Async = FALSE
INVARIANTS
    PRTypeOK
    StatusTruthful
    NotForgotten
PROPERTIES
    ReleasedOnlyWithOutcome
CHECK_DEADLOCK FALSE
