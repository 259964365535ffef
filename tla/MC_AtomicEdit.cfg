CONSTANTS
    Paths = {1, 2}
    Contents = {Absent, x, y}
    Absent = Absent
    NoTx = NoTx
    NoPlan = NoPlan
    MaxEdits = 2
    MaxCrashes = 2
    MaxErrors = 1
    MaxForeign = 1
SPECIFICATION Spec
CHECK_DEADLOCK FALSE
PROPERTY EventsFollowCommits
 
PROPERTY EditReturns
