CONSTANTS
    a1 = a1
    a2 = a2
    Accounts <- MCAccounts
    EmptyBlocks = FALSE
    MaxHeight = 3
    MaxCrashes = 3
SPECIFICATION Spec
INVARIANT RestartCatchesUp
CHECK_DEADLOCK FALSE
