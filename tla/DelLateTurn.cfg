SPECIFICATION Spec
CONSTANTS
    r1 = r1
    r2 = r2
    Sessions = {r1, r2}
    Last = 1
    Targets <- ReportAndDataOperation
    ChatTurns = TRUE
    MaxFaults = 0
INVARIANTS SourcesStayGone
CHECK_DEADLOCK FALSE
