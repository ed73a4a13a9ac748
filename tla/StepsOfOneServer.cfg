SPECIFICATION FairSpec
CONSTANTS
    Own = Own
    Strangers = {}
    NoRun = NoRun
    Dispatch = Dispatch
    MaxSteps = 2
    MaxCrashes = 2
INVARIANTS
    RunningStepHoldsLease
    CommittedOnceAfterSync
PROPERTIES
    LostLeaseChangesNothing
    StepsSettle
CHECK_DEADLOCK FALSE
