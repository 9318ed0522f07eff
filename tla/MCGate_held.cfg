SPECIFICATION FairSpec
CONSTANTS
    call = call
    Calls <- MCCalls
    Outward <- MCCalls
    Patience <- MCPatience
    MaxHold = 2
    Grace = 2
    ReadSlack = 1
    FailClosed = FALSE
    HookFailClosed = FALSE
    MaxTime = 6
INVARIANTS
    TypeOK
    QueueMatchesRows
    ProceedsOnAWord
    OneRuling
PROPERTIES
    DecisionStands
    WindowFixed
    ImplementsHeldCall
    EveryCallSettles
    EveryHoldResolves
