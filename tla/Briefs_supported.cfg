SPECIFICATION MCSpec
CONSTANTS
    Event <- MCEvent
    Named <- MCNamed
    MaxTotal = 3
    MaxFound = 4
    MaxLeads = 1
    Browser <- MCBrowser
    OnMedia <- MCOnMedia
    Content <- MCContent
    MaxLinks = 2
    MaxTimeline = 6
    MaxPersisted = 5
    Mentions <- MCMentions
    Words <- MCWords
    Modified <- MCModified
    Beside <- MCBeside
    MaxRelated = 1
    MaxReports = 2
    MaxBriefs = 1
    Thing <- MCThing
    MaxFrequency = 3
    MaxMembers = 3
    MaxThreads = 3
    MaxReported = 1
    MinInformative = 3
    LineGap = 2
    TimeGap = 1
    MaxThings = 4
    Inode = {i1, i2}
    Data = {d1, d2}
    Reader = {r1, r2}
    NoReader = none
    MaxStamps = 2
    MaxObserved = 3
    Statement <- MCStatement
    Node <- MCNode
    Predicate <- MCPredicate
    Ticked <- MCTicked
    Listed <- MCListed
    Starting <- MCStarting
    Relative <- MCRelative
    MaxStatements = 5
    MaxRows = 2
    MaxDepth = 3
    MaxBlocks = 5
    MaxCollections = 4
    MaxFilters = 2
    MaxSelected = 1
    Drivers <- MCDrivers
    Processes <- MCProcesses
    Documented = {"h", "x"}
    NoDigest = "none"
    PerRule = 1
CHECK_DEADLOCK FALSE
INVARIANTS
    BriefsSupported
