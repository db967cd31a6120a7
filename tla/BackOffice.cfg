SPECIFICATION Spec
SYMMETRY SymmetryOfHandlers
CONSTANTS
    Callers = {"a", "b"}
    Imports = {"x", "y"}
    Reissued = {"z"}
    MaxRefreshes = 2
    MaxCreds = 2
    MaxCalls = 3
    Accounts = {"p"}
    GroupNames = {"g", "h"}
    Handlers = {one, two}
    MaxPlain = 3
    MaxKeys = 2
    Urls = {"u", "v"}
    Clients = {"c"}
    Checkers = {"all", "one"}
    MaxFailed = 2
    MaxProxies = 3
    Sessions = {"s1", "s2"}
    Pollers = {"a", "b"}
    Ports = 1
    SessionIds = {"s"}
    KeyIds = {0, 1}
    Prompts = {TRUE}
    MaxMessages = 2
    MaxMetered = 2
    Capacity = 3
    ShortTtl = 1
    LongTtl = 2
    MaxTime = 2
    Modes <- ModesV
    Totals = {1, 4}
    Reports <- ReportsV
    Writers = {"r", "t"}
    MaxRecords = 3
    MaxDay = 3
    Horizon = 2
    Retentions = {1, 2}
    Tracers = {"r"}
    MaxTraced = 1
    MaxAdded = 3
    MaxHops = 2
INVARIANTS
    NewestUnderLock
    SavedWhenQuiet
    KeyIndexExact
    RevokedStaysDead
    RegistryConsistent
    JudgedByItsOwnProbes
    LoginUsedOnce
    TokensBilledOnce
    PanelsTellTheTruth
PROPERTIES
    LiveTokenKept
    NoDoubleImport
    ReadsItsOwnPrefix
CHECK_DEADLOCK FALSE
