SPECIFICATION FairSpec
CONSTANTS
    N = 2
    MaxDry = 2
    MaxPushes = 2
    Threshold = 1
    MaxChains = 2
    MaxRestarts = 1
INVARIANTS
    TypeOK
    ArmedHasChain
PROPERTIES
    LaggardsAreRefreshed
    ChainsOfRemovedEnd
CHECK_DEADLOCK FALSE
