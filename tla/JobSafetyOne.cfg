CONSTANTS
    Jobs = {j1}
    s1 = s1
    s2 = s2
    Sessions = {s1}
    Placements <- OwnLane
    NoJob = NoJob
    NoSession = NoSession
    NoSnap = NoSnap
    MaxCrashes = 2
    MaxVersion = 6
    MaxShields = 2
    UnclearReads = TRUE
    LeasesLapse = TRUE
    StartupFaults = TRUE
    HandlerLimits = TRUE
SPECIFICATION Spec
CHECK_DEADLOCK FALSE
INVARIANTS IInv ExecutorOwnsSession CancelWins ShieldedNeverSignalled
PROPERTIES TerminalIsFinal
