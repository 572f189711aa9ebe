CONSTANTS
    Jobs = {j1}
    s1 = s1
    s2 = s2
    Sessions = {s1}
    Placements <- OwnLane
    NoJob = NoJob
    NoSession = NoSession
    NoSnap = NoSnap
    MaxCrashes = 1
    MaxVersion = 6
    MaxShields = 0
    UnclearReads = FALSE
    LeasesLapse = TRUE
    StartupFaults = FALSE
    HandlerLimits = TRUE
SPECIFICATION StubbornSpec
CHECK_DEADLOCK FALSE
PROPERTIES CancelTerminates
