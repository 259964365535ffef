CONSTANTS
    MaxHead = 1
    MaxCrashes = 2
    MaxUserSteps = 1
    MaxTurns = 2
    Preparers = {p1, p2}
    Digests = {d1, d2}
    Nothing = Nothing
    MaxFaults = 3
    Paths <- MCPaths
    Candidate <- MCCandidate
    Source <- MCSource
    Cache <- MCCache
    Tmp <- MCTmp
    GitPaths <- MCGitPaths
    HardDeny <- MCHardDeny
    Requests <- MCRequests
    InitialFs <- MCInitialFs
    Files = {"code", "secret", "quoted"}
    Quoted = {"quoted"}
    Sensitive = {"secret"}
    BaseTree <- MCBaseTree
    Effects <- MCEffects
    MaxCommands = 2
    MaxDisturbances = 1
    None = None
SPECIFICATION Spec
CHECK_DEADLOCK FALSE
INVARIANT RefusalHolds
