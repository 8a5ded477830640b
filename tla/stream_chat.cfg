SPECIFICATION FairSpec
CONSTANTS
  MaxIterations = 2
  Capacity = 1
  MaxBlocks = 2
  MaxItems = 2
INVARIANTS
  TypeOK
  DoneMeansStored
  EndIsTold
  ToolsAreAnnounced
PROPERTIES
  FollowsProtocol
  IsTurn
  TaskEnds
CHECK_DEADLOCK FALSE
