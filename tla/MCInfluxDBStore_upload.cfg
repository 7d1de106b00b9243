SPECIFICATION Spec
CONSTANTS
    Traces <- MCTraces
    Spans <- MCSpans
    TraceOf <- MCTraceOf
    Parent <- MCParent
    NoSpan = NoSpan
    Recorded <- MCRecorded
    Uploads = {u1, u2}
    UploadOf <- MCUploadOf
    PointSize <- MCPointSize
    MaxBatchSizeBytes = 2
    tracesPerPage = 1
    MaxRestarts = 1
INVARIANTS
    UploadsDoNotCollide
CHECK_DEADLOCK FALSE
