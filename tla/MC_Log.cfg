CONSTANTS
    Threads = {worker, rpc, other}
    Mutators = {}
    NoThread = NoThread
    NoFile = NoFile
    BatchSize = 2
    MaxEvents = 5
    MaxRevision = 0
    MaxCrashes = 0
    StepLimit = 3
    MaxTurns = 2
    MaxCalls = 2
    MaxLog = 9
    MaxDeaths = 1
    MaxCondensations = 1
    MaxTruncations = 2
    PageSize = 2
    Responses <- TheResponses
    Kinds <- TheKinds
    Candidates = {"e1", "e2", "m1", "m2", "h1"}
    Tier <- MCTier
    Repo <- MCRepo
    Seeds = {1, 2}
    Shuffle <- MCShuffle
    Size = 2
    MaxGenRuns = 2
    MaxImageMoves = 1
    MaxFailures = 1
    Budget = 4
    Minimum = 2
    MaxRequests = 2
    MaxBatchRuns = 2
    MaxLosses = 1
    None = None
SYMMETRY ThreadSymmetry
SPECIFICATION LogSpec
\* A session may end, and a batch may be finished.
CHECK_DEADLOCK FALSE
INVARIANT TypeOK
INVARIANT SeqIsPosition
INVARIANT AppendedWhereMeant
INVARIANT ShownAsItHappened
INVARIANT ViewsAgree
 
PROPERTY ResumedBatchIsExact
CONSTRAINT BatchAfterCleanGeneration
