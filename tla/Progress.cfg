SPECIFICATION ProgressSpec
CONSTANTS
    Tasks = {A, B}
    Knowledge = Knowledge
    Cap = 2
    KeepEnded = 1
    KeepPerKey = 1
    MaxItems = 2
    MaxCrashes = 2
PROPERTIES
    KilledHolderLapses
    QueueSettles
CHECK_DEADLOCK FALSE
