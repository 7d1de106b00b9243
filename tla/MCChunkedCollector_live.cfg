SPECIFICATION FairSpec
CONSTANTS
    Spans = {s1, s2}
    Sizes = {1, 2}
    MaxQueueSize = 3
    FlushTimeout = TRUE
    Manual = {}
    MaxCalls = 3
PROPERTIES
    InOrder
    QueueDrains
    StopEndsGoroutine
\* A panic of Stop, or the end of all flushing, ends the program.
CHECK_DEADLOCK FALSE
