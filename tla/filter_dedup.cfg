SPECIFICATION Spec
CONSTANTS
  a = a
  b = b
  none = none
  NoLimit <- none
  MaxMessages = 5
  MaxEdits = 0
  ToolCalls <- TwoCalls
  Batches <- OneCall
  Configs <- DedupConfigs
INVARIANTS
  ResultsHaveRequests
CHECK_DEADLOCK FALSE
