CONSTANTS
    MaxTurns = 3
    Nobody = Nobody
    Environments <- BusyOrRough
SPECIFICATION LiveSpec
CHECK_DEADLOCK FALSE
INVARIANTS TypeOK AnsweredOnce AsksOnce ApprovalStartsOnce
PROPERTIES GuardedEffects SlotFreed
