SPECIFICATION SpecLimited
CONSTANTS
    Ids <- MCIds
    Models = {"m"}
    OpusModels = {}
    Groups = {}
    Priorities = {0, 1}
    OpusLevels = {TRUE, FALSE}
    Rules <- MCRules
    Modes = {"priority"}
    HealConfigs <- MCHealConfigs
    RpmLimits = {0}
    InitialFiles <- MCInitialFiles
    NewCredentials = {}
    MaxLive = 2
    SuccessCap = 0
    AgeCap = 0
    MaxLate = 0
    MAX_FAILURES_PER_CREDENTIAL = 2
    U32_MAX = 3
    Requests <- MCRequests
    ModelOf <- MCModelOf
    GroupOf <- MCGroupOf
    Answers <- MCAnswers
    MaxRotations = 0
    MaxEdits = 1
    CallerReports = {}
    KindOf <- MCKindOf
    Upstream <- MCUpstream
    ThrottleFailover = TRUE
    MAX_RETRIES_PER_CREDENTIAL = 2
    MAX_TOTAL_RETRIES = 2
INVARIANTS
    TypeOKProvider
    RateLimitPreserved
PROPERTIES
    CallEnds
