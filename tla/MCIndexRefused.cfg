SPECIFICATION Spec
CONSTANTS
    Modules = {1, 2}
    Imports <- Edge
    MaxWrites = 3
    MaxMoves = 1
    MaxOrders = 0
    MaxTroubles = 0
INVARIANTS
    RefusalsWait
CHECK_DEADLOCK FALSE
