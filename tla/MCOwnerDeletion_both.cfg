SPECIFICATION FairSpec
CONSTANTS
  Space = Space
  c1 = c1
  c2 = c2
  Conversations = {c1, c2}
  Tools = {"delete", "space", "reference", "folder"}
  Hideable = {c1}
  MaxAsked = 3
  MaxFaults = 1
  MaxCrashes = 1
INVARIANTS
  TypeOK
  NothingLeftBehind
PROPERTIES
  RemovalIsOrdered
  RequestsEnd
CHECK_DEADLOCK FALSE
