SPECIFICATION Spec
CONSTANTS
    Modules = {1, 2}
    Imports <- Edge
    MaxWrites = 2
    MaxMoves = 2
    MaxOrders = 1
    MaxTroubles = 1
INVARIANTS
    TypeOK
    NothingForgotten
PROPERTIES
    EveryOrderSettles
    StaleIsParsed
    ComesToRest
CHECK_DEADLOCK FALSE
