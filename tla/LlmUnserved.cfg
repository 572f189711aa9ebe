CONSTANTS
    Calls = {c1, c2}
    Amounts = {1, 2}
    Limit = 4
    Protected = 1
    MaxCrashes = 2
    Environments <- OnlyRefusing
SPECIFICATION Spec
CHECK_DEADLOCK FALSE
INVARIANTS UnservedNotBilled
SYMMETRY CallSymmetry
