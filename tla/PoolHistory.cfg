SPECIFICATION SpecH
CONSTANTS
    Ids <- MCIds
    Models <- MCModels
    OpusModels = {}
    Groups = {}
    Priorities <- MCPriorities
    ThrottleFailover = FALSE
    OpusLevels = {TRUE}
    Rules <- MCRules
    Modes = {"priority"}
    HealConfigs <- MCHealConfigs
    RpmLimits = {0}
    InitialFiles <- MCInitialFiles
    NewCredentials <- MCNewCredentials
    MaxLive = 1
    SuccessCap = 0
    AgeCap = 1
    MaxLate = 1
    MAX_FAILURES_PER_CREDENTIAL = 2
    U32_MAX = 1
INVARIANTS
    TypeOK
    EnabledBelowThreshold
    StreakDurable
    IdsNeverReused
    StreakObserved
PROPERTIES
    HealBudget
    ImplementsLifecycle
