CONSTANTS
    Procs = {p1, p2}
    Keys = {k1}
    Answer = a
    Alien = Alien
    NoHead = NoHead
    Nobody = Nobody
    MaxOps = 2
    MaxGens = 1
    MaxCrashes = 1
    MaxEdits = 1
SPECIFICATION LiveSpec
INVARIANTS RepliesAreCommitted FilesFollowHead EditsSurvive ApprovalFollowsCommand
PROPERTIES UpdatesAreAtomic OpenOpsEnd
