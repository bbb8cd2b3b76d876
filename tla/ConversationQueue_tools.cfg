CONSTANTS
  MaxRuns = 2
  MaxCancels = 1
  MaxFaults = 2
  MaxRounds = 1
SPECIFICATION Spec
INVARIANTS
  TypeOK
  BarrierStaysDown
  RevocationStaysOnBranch
  NoSessionLeaks
\* A conversation nobody submits to any more comes to rest.
CHECK_DEADLOCK FALSE
