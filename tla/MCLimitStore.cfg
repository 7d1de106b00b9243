SPECIFICATION Spec
CONSTANTS
    IDs <- MCIDs
    Max = 3
INVARIANTS
    WithinCapacity
    NothingLeaks
    RingMatchesSet
PROPERTIES
    EvictsInOrder
