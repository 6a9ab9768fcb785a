SPECIFICATION Spec
CONSTANTS
    Requests = {r1}
    Revisions = {A, B}
    FirstRevision = A
    MaxRespawns = 2
    MaxSpawns = 4
    MaxCalls = 3
    Nobody = Nobody
    Idle = Idle
INVARIANTS
    TypeOK
    NoOrphans
    LineageBounded
    VerdictsReachParser
PROPERTIES
    StopsAreFinal
    AsksUnderPolicy
    EveryAskSettles
    ComesBack
CHECK_DEADLOCK FALSE
