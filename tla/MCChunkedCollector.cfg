SPECIFICATION Spec
CONSTANTS
    Spans = {s1, s2}
    Sizes = {1, 2}
    MaxQueueSize = 3
    FlushTimeout = TRUE
    Manual = {m1}
    MaxCalls = 3
SYMMETRY SpanSymmetry
INVARIANTS
    SizeAccounts
    LossIsReported
PROPERTY ImplementsAtMostOnce
\* A panic of Stop, or the end of all flushing, ends the program.
CHECK_DEADLOCK FALSE
