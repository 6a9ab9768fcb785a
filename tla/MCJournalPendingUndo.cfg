SPECIFICATION Spec
CONSTANTS
    Modules = {m1, m2}
    Texts = {t1, t2}
    Absent = Absent
    None = None
    MaxSaves = 0
    MaxRequests = 2
    MaxCrashes = 0
    MaxFaults = 1
    MaxTroubles = 2
SYMMETRY Symmetry
PROPERTIES UndoTakesTheNewest
