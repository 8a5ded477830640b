SPECIFICATION TaskSpec
CONSTANTS
  MaxIterations = 1
  Capacity = 1
  MaxBlocks = 1
  MaxItems = 2
PROPERTIES
  StalledTaskEnds
CHECK_DEADLOCK FALSE
