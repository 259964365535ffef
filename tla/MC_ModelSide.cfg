CONSTANTS
    Order <- MCOrder
    SensitiveNames <- MCSensitiveNames
    Trees <- MCTrees
    Contents <- MCContents
    MaxEntries = 5
    MaxReadLines = 2
    MaxOutput = 4
    Outputs <- MCOutputs
    MaxResults = 1
    RecordSlack = 0
    MaxRaw = 3
    Statuses <- MCStatuses
    StatusBytes = 12
    StatusEntries = 2
    Texts <- MCTexts
    Snippets <- MCSnippets
    Models <- MCModels
    Calls <- MCCalls
    None = None
    Unset = Unset
    Sizes = {1, 3}
    SummarySizes = {1, 2}
    MaxCalls = 2
    Instructions = 2
    MemoryFrame = 1
    caps <- Caps
    MAX_CONDENSER_CALLS = 4
    MAX_SOFT_CONDENSER_CALLS = 1
    MaxSources = 6
    MaxForeign = 1
SPECIFICATION Spec
 
INVARIANT PreparationIsSound
INVARIANT SummariesAreChained
PROPERTY ObservationsAreTrue
 
CHECK_DEADLOCK FALSE
