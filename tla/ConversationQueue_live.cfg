CONSTANTS
  MaxRuns = 2
  MaxCancels = 1
  MaxFaults = 1
  MaxRounds = 0
SPECIFICATION FairSpec
PROPERTIES
  RunsEnd
\* A conversation nobody submits to any more comes to rest.
CHECK_DEADLOCK FALSE
