SPECIFICATION Spec
CONSTANTS
    Schemas <- MCSchemas
    TypeOf <- MCTypeOf
    Longer <- MCLonger
    Indices <- MCIndices
    Numbers <- MCNumbers
    Ms = 2
    MaxSlowest = 1
    SpanInputs <- MCSpanInputs
    Extras <- MCExtras
    TreeInputs <- MCTreeInputs
    SampleInputs <- MCSampleInputs
    Minutes <- MCMinutes
INVARIANTS
    DecodeUndoesEncode
    RowsReadBack
    NullEndsEvent
    ProfileAddsUp
    AggregateCountsAll
    TimelineMatchesProfile
    DashboardSound
CHECK_DEADLOCK FALSE
