SPECIFICATION Spec
CONSTANTS
  a = a
  b = b
  none = none
  NoLimit <- none
  MaxMessages = 6
  MaxEdits = 1
  ToolCalls <- TwoCalls
  Batches <- AllBatches
  Configs <- AllConfigs
INVARIANTS
  SentWithinLimits
  PairsStayTogether
  NewestIsSent
CHECK_DEADLOCK FALSE
