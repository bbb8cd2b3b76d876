CONSTANTS
  MaxRuns = 2
  MaxCancels = 1
  MaxFaults = 0
  MaxRounds = 0
SPECIFICATION Spec
INVARIANTS
  CompletedAnswersStay
\* A conversation nobody submits to any more comes to rest.
CHECK_DEADLOCK FALSE
