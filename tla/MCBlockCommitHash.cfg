CONSTANTS
    a1 = a1
    a2 = a2
    Accounts <- MCAccounts
    EmptyBlocks = TRUE
    MaxHeight = 3
    MaxCrashes = 3
SPECIFICATION Spec
INVARIANT HashNamesItsVersion
CHECK_DEADLOCK FALSE
