CONSTANTS
    v1 = v1
    v2 = v2
    v3 = v3
    Validators <- MCValidators
    Genesis <- MCGenesis
    Requests <- MCRequests
    WindowSize = 4
    MaxPower = 10
    MaxRequests = 2
    MaxHeight = 2
    MaxCrashes = 1
SPECIFICATION Spec
INVARIANT ReplayRepeatsOutcomes
CHECK_DEADLOCK FALSE
