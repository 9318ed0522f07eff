SPECIFICATION Spec
CONSTANTS
    r1 = r1
    r2 = r2
    Nobody = Nobody
    Readers <- MCReaders
    Ttl = 2
    MaxLoad = 1
    MaxWrites = 1
    MaxTime = 4
INVARIANTS
    ForcedReadSeesWrite
