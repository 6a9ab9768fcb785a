SPECIFICATION FairSpec
CONSTANTS
  Daemons = {d1, d2}
  Deletes = {x1}
  NoOne = NoOne
  Attempts = 3
  MaxDeaths = 2
  MaxFaults = 1
CHECK_DEADLOCK FALSE
INVARIANTS
  TypeOK
  ClaimsAreNamed
  ThiefResumes
  RequestsInOrder
PROPERTIES
  Heals
