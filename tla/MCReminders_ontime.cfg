SPECIFICATION Spec
CONSTANTS
    Budget = 1
    NagEvery = 2
    NagMax = 1
    Cap = 2
    MaxRows = 2
    MaxTime = 7
INVARIANTS
    TypeOK
    FiresOnTime
    
PROPERTIES
    FiredOnce
CHECK_DEADLOCK FALSE
