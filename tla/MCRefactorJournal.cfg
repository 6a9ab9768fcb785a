SPECIFICATION Spec
CONSTANTS
    Modules = {m1, m2}
    Texts = {t1, t2}
    Absent = Absent
    None = None
    MaxSaves = 1
    MaxRequests = 2
    MaxCrashes = 1
    MaxFaults = 1
    MaxTroubles = 2
SYMMETRY Symmetry
INVARIANTS TypeOK WrittenIsTracked NothingElseTracked KnownIsOnDisk IntentHasItsStep
PROPERTIES  UndoRestores RevertRestores
