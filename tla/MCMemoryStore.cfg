SPECIFICATION Spec
CONSTANTS
    Traces = {t1, t2}
    Spans = {s1, s2, s3, s4}
    Anns = {a1}
    Zero = Zero
    Nil = Nil
    MaxAnns = 1
    Second = t2
SYMMETRY SpanSymmetry
CONSTRAINT SecondIsSmall
INVARIANTS
    EachSpanAtHome
    RealRootOnTop
PROPERTIES
    SettledSpansStay
    ImplementsTraceStore
