SPECIFICATION FairSpec
CONSTANTS
    Requests = {r}
    Cap = 3
    MaxChanges = 2
    SlowStart = TRUE
    MaxChains = 1
    MaxItems = 3
    MaxCrashes = 0
INVARIANTS
    StepsInOrder
CHECK_DEADLOCK FALSE
