SPECIFICATION FairSpec
CONSTANTS
    N = 2
    Events = {e1}
    Logger = FALSE
    SetName = TRUE
    SetContextSpan = FALSE
    Requests = {q1}
    MaxHandlers = 2
    Calls <- MCCalls
    Parts <- MCParts
    MaxFailures = 2
    MaxBoth = 2
INVARIANTS
    LossIsTold
    FirstFoundHasAll
    EventsAgree
PROPERTY
    HandledIsRecorded
CHECK_DEADLOCK FALSE
