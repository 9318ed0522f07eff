SPECIFICATION FairSpec
CONSTANTS
    j1 = j1
    j2 = j2
    j3 = j3
    j4 = j4
    j5 = j5
    Jobs <- MCJobs
    Limit = 2
    TestSeam = TRUE
INVARIANTS
    TypeOK
    SlotsAccounted
    NoIdleSlot
PROPERTIES
    EveryCallRuns
CHECK_DEADLOCK FALSE
