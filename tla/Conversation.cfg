SPECIFICATION Spec
CONSTANTS
    Lowered <- MCLowered
    Shortened <- MCShortened
    Scenarios <- MCScenarios
    MAX_WEB_SEARCH_ROUNDS = 2
    MAX_EMPTY_TOOL_RESULT_RETRIES = 1
INVARIANTS
    EveryCallAnswered HistoryWellFormed CallsRepeated NothingSaidIsLost ImagesSentOnce
    OnlyClientCalls CallsAsDeclared AnsweredWithinBudget
PROPERTIES
    RecordedOnce
CHECK_DEADLOCK FALSE
