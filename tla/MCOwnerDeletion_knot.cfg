SPECIFICATION FairSpec
CONSTANTS
  Space = Space
  c1 = c1
  c2 = c2
  Conversations = {c1}
  Tools = {"delete"}
  Hideable = {}
  MaxAsked = 2
  MaxFaults = 0
  MaxCrashes = 0
PROPERTY DeletionsEnd
CHECK_DEADLOCK FALSE
