SPECIFICATION Spec
CONSTANTS
    None = None
    MaxRounds = 2
    NProbes = 2
    LlmCap = 4
    Protected = 1
    ToolCap = 1
    MaxEvents = 2
INVARIANTS TypeOK  BodiesStand  ReportKept EndsHaveCause
PROPERTIES DecisionStands AttemptEnds
CHECK_DEADLOCK FALSE
