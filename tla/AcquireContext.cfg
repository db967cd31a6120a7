SPECIFICATION SpecSteady
CONSTANTS
    Ids <- MCIds
    Models = {}
    OpusModels = {}
    Groups = {}
    Priorities = {0, 1}
    ThrottleFailover = TRUE
    OpusLevels = {TRUE, FALSE}
    Rules <- MCRules
    Modes = {"priority"}
    HealConfigs <- MCHealConfigs
    RpmLimits = {1}
    InitialFiles <- MCInitialFiles
    NewCredentials = {}
    MaxLive = 2
    SuccessCap = 0
    AgeCap = 0
    MaxLate = 0
    MAX_FAILURES_PER_CREDENTIAL = 2
    U32_MAX = 3
    Requests <- MCRequests
    ModelOf <- MCModelOf
    GroupOf <- MCGroupOf
    Answers <- MCAnswers
    MaxRotations = 1
    MaxEdits = 0
    CallerReports = {"rule", "success"}
INVARIANTS
    TypeOKAcquire
    RpmNeverExceeded
    NeverRefusedWhileServable
PROPERTIES
    AcquireEnds
