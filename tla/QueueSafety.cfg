SPECIFICATION Spec
CONSTANTS
    Tasks = {a, b}
    Knowledge = Knowledge
    Cap = 1
    KeepEnded = 2
    KeepPerKey = 1
    MaxItems = 3
    MaxCrashes = 1
INVARIANTS
    OneStepPerTask
    CapRespected
    FailedNeverRan
    AfterRanFirst
CHECK_DEADLOCK FALSE
