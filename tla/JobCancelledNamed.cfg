CONSTANTS
    Jobs = {j1}
    s1 = s1
    s2 = s2
    Sessions = {s1}
    Placements <- OwnLane
    NoJob = NoJob
    NoSession = NoSession
    NoSnap = NoSnap
    MaxCrashes = 0
    MaxVersion = 6
    MaxShields = 2
    UnclearReads = TRUE
    LeasesLapse = TRUE
    StartupFaults = FALSE
    HandlerLimits = TRUE
SPECIFICATION Spec
CHECK_DEADLOCK FALSE
INVARIANTS CancelledRunIsNamed
