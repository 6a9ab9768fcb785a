SPECIFICATION Spec
CONSTANTS
  Daemons = {d1, d2}
  Deletes = {x1}
  NoOne = NoOne
  Attempts = 4
  MaxDeaths = 0
  MaxFaults = 0
CHECK_DEADLOCK FALSE
SYMMETRY Symmetry
INVARIANTS
  OneClaim
