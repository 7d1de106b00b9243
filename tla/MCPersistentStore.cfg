SPECIFICATION PSpec
CONSTANTS
    Traces = {t1}
    Spans = {s1, s2, s3}
    Anns = {a1}
    Zero = Zero
    Nil = Nil
    MaxAnns = 1
    MaxStarts = 3
    Marked = s1
SYMMETRY OtherSymmetry
CONSTRAINT OnlyMarkedAnnotated
INVARIANTS
    ShownOnce
    RestoredWholeStaysShown
    FreshTracesComplete
PROPERTY StartShowsLastSave
\* A server that is down may stay down.
CHECK_DEADLOCK FALSE
