CONSTANTS
    Threads = {worker, rpc}
    Mutators = {worker}
    NoThread = NoThread
    NoFile = NoFile
    BatchSize = 2
    MaxEvents = 4
    MaxRevision = 0
    MaxCrashes = 0
SPECIFICATION Spec
CHECK_DEADLOCK FALSE
INVARIANT SeqIdentifiesEvent
