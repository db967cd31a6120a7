SPECIFICATION Spec
CONSTANTS
    Accounts = {"p"}
    GroupNames = {"g", "h"}
    Handlers = {"one"}
    MaxPlain = 3
    MaxKeys = 2
INVARIANT RefusedRenameUndone
CHECK_DEADLOCK FALSE
