CONSTANTS
    Threads = {worker}
    Mutators = {worker}
    NoThread = NoThread
    NoFile = NoFile
    BatchSize = 2
    MaxEvents = 5
    MaxRevision = 2
    MaxCrashes = 2
SPECIFICATION Spec
CHECK_DEADLOCK FALSE
INVARIANT NoHoles
PROPERTY MetaSurvivesCrashes
