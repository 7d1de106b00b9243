SPECIFICATION Spec
CONSTANTS
    N = 1
    Events = {}
    Logger = FALSE
    SetName = TRUE
    SetContextSpan = FALSE
    Requests = {}
    MaxHandlers = 1
    Calls <- MCCalls
    Parts <- MCParts
    MaxFailures = 0
    MaxBoth = 1
INVARIANT
    ContinuesOnBadHeader
CHECK_DEADLOCK FALSE
