CONSTANTS
    SliceSteps = 2
    TurnSteps = 3
    BudgetCap = 4
    MaxTruncations = 2
    MaxRepairs = 1
    MaxCondenserCalls = 2
    Fingerprints = {f, g}
    NoFingerprint = NoFingerprint
    NoRecord = NoRecord
    NoApproval = NoApproval
    MaxCalls = 2
    MaxJobs = 3
    MaxCrashes = 1
    ToolsMayRaise = TRUE
SPECIFICATION Spec
CHECK_DEADLOCK FALSE
INVARIANT ControlReachesItsJob
INVARIANT TurnKeepsItsBudget
PROPERTY TurnEndsForGood
PROPERTY JobsEnd
