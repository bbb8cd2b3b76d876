SPECIFICATION FairSpec
CONSTANTS
  c1 = c1
  c2 = c2
  c3 = c3
  Calls = {c1, c2}
  GatedBefore = {c1}
  GatedDuring = {c2}
  MaxCancels = 2
  MaxFaults = 1
  MaxCrashes = 1
INVARIANTS
  TypeOK
  RefusedIsNotExecuted
  ApprovedBeforeExecuted
  ClosedRoundIsSettled
  PauseIsAnswerable
PROPERTIES
  FactsAreFinal
  EndedRunSettles
  BusyEnds
\* A run that has ended is at rest.
CHECK_DEADLOCK FALSE
