CONSTANTS
    a1 = a1
    a2 = a2
    Accounts <- MCAccounts
    EmptyBlocks = TRUE
    MaxHeight = 3
    MaxCrashes = 3
SPECIFICATION Spec
INVARIANTS TypeOK CheckpointLoads AtWorstOneBlockBack AgreesUntilStateIsLoaded
    MemoryMatchesDisk PublishedIsDurable BlocksFollowChain
PROPERTIES StoredBlocksAreApplied
CHECK_DEADLOCK FALSE
