SPECIFICATION Spec
CONSTANTS
  long = long
  short = short
  NoJob = NoJob
  Conversations = {long, short}
  Lengths <- TwoAndOne
  Attempts = 2
  MaxEvents = 2
INVARIANTS
  TypeOK
  ClearedStaysCleared
  DeletedIsGone
CHECK_DEADLOCK FALSE
