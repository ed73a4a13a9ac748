SPECIFICATION Spec
CONSTANTS
    Branches = {}
    LoopLimit = 2
    RoamLimit = 1
    RetryLimit = 1
    Parallel = FALSE
    Decisions = {"approve", "request_changes"}
    Against = TRUE
    FirstPhases = {"pending"}
PROPERTIES
    HeldApprovalIsCurrent
CHECK_DEADLOCK FALSE
