SPECIFICATION ControllerFairSpec
CONSTANTS
    N = 3
    MaxDry = 3
    MaxPushes = 3
    MaxTroubles = 1
    Strategies <- Declarations
    Explored <- MCExplored
INVARIANTS
    TypeOK
    GraphTypeOK
    VerdictExact
PROPERTIES
    Spec
    Ordered
    Decided
    EverythingIsPromoted
CHECK_DEADLOCK FALSE
