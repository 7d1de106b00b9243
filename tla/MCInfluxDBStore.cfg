SPECIFICATION FairSpec
CONSTANTS
    Traces <- MCTraces
    Spans <- MCSpans
    TraceOf <- MCTraceOf
    Parent <- MCParent
    NoSpan = NoSpan
    Recorded <- MCRecorded
    Uploads = {u1}
    UploadOf <- MCUploadOf
    PointSize <- MCPointSize
    MaxBatchSizeBytes = 2
    tracesPerPage = 1
    MaxRestarts = 1
INVARIANTS
    BatchAccounted
    TraceShownWhole
    ListedAsRead
PROPERTIES
    ImplementsAtMostOnce
    FlushedEventually
CHECK_DEADLOCK FALSE
