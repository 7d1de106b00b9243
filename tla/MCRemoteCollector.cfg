SPECIFICATION FairSpec
CONSTANTS
    MaxCalls = 4
    MaxConns = 2
INVARIANTS
    NoGaps
PROPERTIES
    ImplementsAtMostOnce
    Arrives
    HandlersEnd
\* The clients may stop sending: the calls and connections are bounded.
CHECK_DEADLOCK FALSE
