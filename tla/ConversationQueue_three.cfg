CONSTANTS
  MaxRuns = 3
  MaxCancels = 1
  MaxFaults = 0
  MaxRounds = 0
SPECIFICATION Spec
PROPERTIES
  TurnsAreChained
  AdmittedBehindBarrier
\* A conversation nobody submits to any more comes to rest.
CHECK_DEADLOCK FALSE
