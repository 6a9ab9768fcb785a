SPECIFICATION MCSpec
CONSTANTS
    Modules = {m1, m2}
    m1 = m1
    m2 = m2
    Contents = {1, 2}
    MaxEdits = 2
    MaxTroubles = 1
INVARIANTS
    TypeOK
    BatchesWaitForScan
PROPERTIES
    CatchesUp
    Quiesces
CHECK_DEADLOCK FALSE
