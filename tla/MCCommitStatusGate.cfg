SPECIFICATION FairSpec
CONSTANTS
    MaxSha = 2
    MaxTime = 3
    Duration = 2
    Schedules <- MCSchedules
    Kinds = {"timed", "scheduled", "git", "polling", "monitoring"}
    Edited = {"git"}
    Lagging = {"timed", "git"}
    Failing = {"timed", "scheduled", "git", "polling"}
    MaxFails = 1
INVARIANTS
    TypeOK
    TimerSound
    PolicyAwake
PROPERTIES
    Sound
    Settles
CHECK_DEADLOCK FALSE
