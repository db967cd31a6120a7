SPECIFICATION SpecAcquire
CONSTANTS
    Ids <- MCIds
    Models = {}
    OpusModels = {}
    Groups = {}
    Priorities = {0, 1}
    ThrottleFailover = TRUE
    OpusLevels = {TRUE, FALSE}
    Rules <- NoRules
    Modes = {"priority"}
    HealConfigs <- NoHealing
    RpmLimits = {0}
    InitialFiles <- MCInitialFiles
    NewCredentials = {}
    MaxLive = 2
    SuccessCap = 0
    AgeCap = 0
    MaxLate = 0
    MAX_FAILURES_PER_CREDENTIAL = 3
    U32_MAX = 3
    Requests <- OneRequest
    ModelOf <- MCModelOf
    GroupOf <- MCGroupOf
    Answers <- NeedsRefresh
    MaxRotations = 0
    MaxEdits = 1
    CallerReports = {}
PROPERTY
    EditSurvivesRefresh
