SPECIFICATION Spec
\* Calls that have returned, bodies that have ended and command lines that have run take no further step.
CHECK_DEADLOCK FALSE
CONSTANTS
    Objects = {d, l}
    Dotted = {d}
    Long = {l}
    Salts = {s1, s2}
    Serializers <- MCSerializers
    MaxKey = 2
    MaxTime = 1
    MaxAges = {0}
    NoAge = NoAge
    MaxTokens = 2
    Tasks = {t1, t2}
    Urls <- MCUrls
    Requests <- MCRequests
    Statuses = {200, 302, 307, 401}
    MaxRedirects = 1
    MaxNonces = 2
    MaxText = 5
    MaxPiece = 3
    ChunkSizes = {0, 2}
    Hosts <- MCHosts
    Addresses <- MCAddresses
    Ports = {0, 8080}
    NoProxyEntries <- MCEntries
    LabelLength = 4
    Grammars <- MCGrammars
    Words <- MCWords
    MaxWords = 3
    ParamLists <- MCParamLists
    Readings <- MCReadings
    MapEntries = {"absent", "given", "none"}
    Programs <- MCPrograms
    Closings = {"plain", "suppresses", "fails"}
    MaxContexts = 3
    MaxResources = 3
    WordLengths = {1, 2, 4}
    MaxHelpWords = 4
    Limits = {3, 6, 9}
    Bars <- MCBars
    Columns = {3, 5, 8}
    ItemWidths = {0, 2}
    MaxSteps = 4
    Pagers <- MCPagers
    MaxWrites = 2
    Edits <- MCEdits
    Saves <- MCSaves
    Resolutions = {1, 2, 4}
    Starts = {6, 7}
    MaxClock = 11
    Runners <- MCRunners
    Keys = {"K"}
    Settings = {"", "x"}
    Prompts <- MCPrompts
    MaxDepth = 2
    MaxActs = 3
SYMMETRY SymmetricValues
INVARIANT TokensAreSound
 
INVARIANT ParsingIsFaithful
INVARIANT ValuesFollowTheUser
INVARIANT ContextsAreClosedInOrder
INVARIANT TaskTargetsAreRight
INVARIANT HostIsGivenBack
