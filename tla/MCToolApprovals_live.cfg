SPECIFICATION Spec
CONSTANTS
  c1 = c1
  c2 = c2
  c3 = c3
  Calls = {c1, c2, c3}
  GatedBefore = {c1}
  GatedDuring = {}
  MaxCancels = 0
  MaxFaults = 0
  MaxCrashes = 0
INVARIANTS
  LiveCallsStayOpen
\* A run that has ended is at rest.
CHECK_DEADLOCK FALSE
