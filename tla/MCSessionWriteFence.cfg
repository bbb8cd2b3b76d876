SPECIFICATION Spec
CONSTANTS
  Leaves = {root, a, b}
  RootLeaf = root
  Unset = unset
  Deleted = deleted
  MaxGenerations = 3
  MaxQueue = 3
  LateWrites = {1}
SYMMETRY LeafSymmetry
\* The bound on generations may stop the model.
CHECK_DEADLOCK FALSE
INVARIANTS
  TypeOK
  SingleOwner
  FulfilledMeansRestored
PROPERTIES
  CancelledWriterIsFenced
  UnrestoredLeafBlocks
  SuccessorStartsAtRestoredLeaf
