SPECIFICATION Spec
CONSTANTS
    Message <- MCMessage
    Summary <- MCSummary
    Compactions <- MCCompactions
    Configs <- MCConfigs
    TokenizerProfiles <- MCTokenizerProfiles
    Omitted = Omitted
    NoCompaction = NoCompaction
    Generic = "small"
    RESERVED_OUTPUT = 3
    KEEP_LAST_N_DEFAULT = 1
    WARNING_AT = 80
    CRITICAL_AT = 95
    MaxSaid = 4
    Requests <- MCRequests
    MaxRetries = 1
    NotGiven = NotGiven
    NoBatch = NoBatch
    MaxGenerated = 3
    Sources <- MCSources
    Phrasings <- MCPhrasings
    Catalog <- MCCatalog
    Off = Off
    Failed = Failed
    Missing = Missing
    MaxDeckRuns = 2
    Answers <- MCAnswers
    Unavailable = Unavailable
    NoQuestions = NoQuestions
    Malformed = Malformed
    None = None
    Tag = {"a", "b", "c", "sponsor"}
    Figure = {"f", "invented"}
    AXES <- MCAXES
    Known = {"f"}
    MinEntries = 3
    MaxEntries = 4
    Floor = 2
    MaxGenerations = 2
    MaxSessions = 1
    Scripts <- MCScripts
    Options <- MCOptions
    Golden = {"k"}
    Unnamed = Unnamed
    NoneYet = NoneYet
    TimingFiles <- MCTimingFiles
    Plans <- MCPlans
    PartOf <- MCPartOf
    Manifests = {TRUE, FALSE}
    Profiles = {500, Undefined}
    Screens <- MCScreens
    Drafts <- MCDrafts
    Degraded = Degraded
    Undefined = Undefined
    NoScript = NoScript
    MaxScriptRuns = 2
INVARIANTS
    BufferIsSound
    MarkedAndReadable
    
    SheetIsSound
    CaptureIsWhole
    DraftIsUsable
PROPERTIES
    LogTellsTheSession
    WritesAreExact
CHECK_DEADLOCK FALSE
