SPECIFICATION LoopSpec
CONSTANTS
    pump = pump
    writer = writer
    hasty = hasty
    bounded = bounded
    patient = patient
    Calls <- MCCalls
    Exclusive <- MCExclusive
    Bounded <- MCBounded
    Staged <- MCStaged
    Ahead <- MCAhead
INVARIANTS
    TypeOK
    WritesRunAlone
    HoldsCounted
    FrontIsKeptOut
    NeverWaitsSpent
PROPERTIES
    ImplementsLock
    NobodyStarves
    BoundedAnswered
