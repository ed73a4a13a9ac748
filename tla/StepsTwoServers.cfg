SPECIFICATION Spec
CONSTANTS
    Own = Own
    Strangers = {other}
    NoRun = NoRun
    Dispatch = Dispatch
    MaxSteps = 2
    MaxCrashes = 0
INVARIANTS
    RunningStepHoldsLease
CHECK_DEADLOCK FALSE
