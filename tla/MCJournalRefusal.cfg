SPECIFICATION Spec
CONSTANTS
    Modules = {m1, m2}
    Texts = {t1, t2}
    Absent = Absent
    None = None
    MaxSaves = 2
    MaxRequests = 1
    MaxCrashes = 0
    MaxFaults = 0
    MaxTroubles = 2
SYMMETRY Symmetry
PROPERTIES RefusalKeepsSaves
CONSTRAINT PlansChange
