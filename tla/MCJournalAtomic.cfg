SPECIFICATION FairSpec
CONSTANTS
    Modules = {m1, m2}
    Texts = {t1, t2}
    Absent = Absent
    None = None
    MaxSaves = 0
    MaxRequests = 2
    MaxCrashes = 2
    MaxFaults = 0
    MaxTroubles = 2
PROPERTIES ImplementsAtomicSteps AlwaysAnswered
