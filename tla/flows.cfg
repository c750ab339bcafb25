\* One book's contributions in both modes, with lookups on and off: two
\* operators, a lost answer, a failed write and a crash; a board behind an
\* event stream; scans of one folder with an override and a restart; the
\* authoring loop, the audio, ebook and spelling stages with interruptions,
\* restarts, reruns and purges taken step by step.
SPECIFICATION FlowsSpec
CONSTANTS
    Operator = {1, 2}
    Dimensions <- MCCharacters
    Confs <- MCConfs
    MaxIssues = 2
    Budgets <- MCBudgets
    HubBooks = {1, 2}
    HubRing = 1
    HubBuffer = 1
    HubQueue = 1
    HubEvents = 1
    HubTrouble = 2
    ScanFolders = {1}
    ScanCases <- MCScans
    AuMaxFix = 2
    AuAcceptFix = 1
    AuSlack = 1
    AuTexts <- MCTexts
    AuReports <- MCReports
    AuReruns = {"synthesizing", "validating", "fixing"}
    AuCases <- MCDisturb
    AsInterior = 2
    AsEdge = 3
    AsAttempts = 2
    AsCases <- MCRecordings
    EbMinChapters = 3
    EbOutlier = 5
    EbBudget = 20
    EbMinFinal = 5
    EbCases <- MCEpubs
    SpCases <- MCNames
INVARIANTS
    FlowsTypeOK
    PostedOnce
    PostedToPublished
    MergedIsTrue
    EventsReachBoard
    ScanShowsOverrides
    ShippedAudited
    RawsOfOneLayout
    SpellingKept
    
PROPERTIES
    MergedIsFinal
    PendingResumes
CHECK_DEADLOCK FALSE
