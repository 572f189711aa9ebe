CONSTANTS
    Calls = {c1, c2, c3}
    Amounts = {1, 2}
    Limit = 4
    Protected = 2
    MaxCrashes = 2
    Environments <- RoughOrGentle
SPECIFICATION Spec
CHECK_DEADLOCK FALSE
INVARIANTS TypeOK SpendBounded RestartCovers FinalizationAdmitted 
SYMMETRY CallSymmetry
