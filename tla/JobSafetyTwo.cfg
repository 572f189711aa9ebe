CONSTANTS
    Jobs = {j1,j2}
    s1 = s1
    s2 = s2
    Sessions = {s1, s2}
    Placements <- SharedLane
    NoJob = NoJob
    NoSession = NoSession
    NoSnap = NoSnap
    MaxCrashes = 0
    MaxVersion = 6
    MaxShields = 0
    UnclearReads = FALSE
    LeasesLapse = FALSE
    StartupFaults = TRUE
    HandlerLimits = FALSE
SPECIFICATION Spec
CHECK_DEADLOCK FALSE
INVARIANTS LaneExclusive
SYMMETRY JobSymmetry
