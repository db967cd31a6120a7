SPECIFICATION Spec
CONSTANTS
    Scenarios <- MCScenarios
    ToolIds <- MCToolIds
    MAX_EVENTS = 5
    REPEAT_GUARD_TRIP_THRESHOLD = 2
    MAX_INVOKE_HOLD = 3
    MAX_ERRORS = 2
    MAX_BUFFER = 5
    CLAIMED = 3
INVARIANT MidsentenceInvokeNotCaptured
CHECK_DEADLOCK FALSE
