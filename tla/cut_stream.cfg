SPECIFICATION Spec
CONSTANTS
  MaxIterations = 1
  Capacity = 1
  MaxBlocks = 1
  MaxItems = 2
INVARIANTS
  DoneMeansWhole
CHECK_DEADLOCK FALSE
