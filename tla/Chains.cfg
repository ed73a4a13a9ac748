SPECIFICATION FairSpec
CONSTANTS
    Requests = {r, s}
    Cap = 2
    MaxChanges = 0
    SlowStart = FALSE
    MaxChains = 2
    MaxItems = 2
    MaxCrashes = 1
INVARIANTS
    StepsInOrder
    ChainsKeepApart
PROPERTIES
    StoppedChainStops
    ChainsSettle
CHECK_DEADLOCK FALSE
