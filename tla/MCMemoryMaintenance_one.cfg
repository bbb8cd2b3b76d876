SPECIFICATION FairSpec
CONSTANTS
  long = long
  short = short
  NoJob = NoJob
  Conversations = {long}
  Lengths <- TwoAndOne
  Attempts = 2
  MaxEvents = 3
INVARIANTS
  ClosedStaysClosed
  NothingSkipped
  EditsAreBuiltOn
PROPERTY
  JobsEnd
CHECK_DEADLOCK FALSE
