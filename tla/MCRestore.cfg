SPECIFICATION FairSpec
CONSTANTS
    Renders <- MCRenders
    Past = 2
    MaxCommits = 4
    Targets = {1, 3}
    Workers = 2
    MaxActs = 1
    MaxMoves = 1
    MaxFails = 1
    MaxLags = 1
INVARIANTS
    RestoreTypeOK
    NoEmptyRestore
    LiftedByUser
    RecordedTruthful
PROPERTIES
    AppendOnly
    HoldHonoured
    HeldOnlyByHandle
    ReleaseCompletes
CHECK_DEADLOCK FALSE
