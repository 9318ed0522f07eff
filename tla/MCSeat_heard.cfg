SPECIFICATION SeatSpec
CONSTANTS
    Names = {bob, ann}
    Tasks = {t1}
    MaxAttempts = 2
    MaxReports = 1
    MaxMishaps = 1
INVARIANTS
    SeatTypeOK
    OneAtWork
    NeverThird
PROPERTIES
    WorkComesBack
    BlockerHeard
