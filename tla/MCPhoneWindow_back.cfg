SPECIFICATION WindowSpec
CONSTANTS
    Panes = {p1, p2}
    MaxAttaches = 2
    MaxEvents = 1
INVARIANTS
    WindowTypeOK
    StillProvable
PROPERTIES
    TakenBackStays
    NarrowEnds
    MirrorsEnd
