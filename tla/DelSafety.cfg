SPECIFICATION LiveSpec
CONSTANTS
    r1 = r1
    r2 = r2
    Sessions = {r1, r2}
    Last = 1
    Targets <- ReportAndDataOperation
    ChatTurns = TRUE
    MaxFaults = 1
INVARIANTS NothingLost DoneIsComplete JobsAvoidDeletion
PROPERTIES AuditLineKept  
CHECK_DEADLOCK FALSE
