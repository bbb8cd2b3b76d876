SPECIFICATION Spec
CONSTANTS
  inner = inner
  outer = outer
  asset = asset
  shelf = shelf
  page = page
  d1 = d1
  d2 = d2
  None = None
  Items <- Everything
  Folders <- Folders2
  Assets <- Assets1
  Shelves <- Shelves1
  Pages <- Pages1
  Subtree <- OneShelf
  Ids <- Ids2
  LateSaves <- Ids1
  Edited <- OnlyOuter
  MaxFaults = 2
  MaxCrashes = 1
  MaxOutside = 1
  MaxTroubles = 3
INVARIANT TypeOK
INVARIANT NothingLost
INVARIANT StagedIsJournaled
INVARIANT SettledIsClean
INVARIANT DoneMeansGone
INVARIANT JournalMatchesMetadata
PROPERTY RolledBackMeansIntact
PROPERTY RemovesAtomically
CHECK_DEADLOCK FALSE
