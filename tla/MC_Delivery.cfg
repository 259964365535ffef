CONSTANTS
    Units = {u1, u2}
    Contents = {a, b, c}
    original = a
    InitialTree <- Original
    NoLocal = NoLocal
    FailingAt = {"freeze", "snapshot", "merge", "review", "approve", "checkpoint", "save", "reset", "verify_reset", "audit"}
    MaxChanges = 2
    MaxWrites = 2
    MaxForeign = 1
    MaxAccepts = 2
    MaxCrashes = 1
SYMMETRY RegionSymmetry
SPECIFICATION Spec
CHECK_DEADLOCK FALSE
INVARIANT SourceFollowsBaseline
 
INVARIANT BaselineIsCheckedOut
PROPERTY UserWorkSurvives
