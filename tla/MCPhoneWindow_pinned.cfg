SPECIFICATION WindowSpec
CONSTANTS
    Panes = {p1, p2}
    MaxAttaches = 1
    MaxEvents = 1
INVARIANTS
    PinnedIsProvable
