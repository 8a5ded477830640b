SPECIFICATION Spec
CONSTANTS
  c1 = c1
  c2 = c2
  t1 = t1
  Calls <- TwoCalls
  Threads <- OneThread
  MaxIterations = 2
  MaxBatch = 1
  ClockSteps <- Ticks
  MaxEdits = 0
SYMMETRY CallSymmetry
INVARIANTS
  TypeOK
  UnansweredIsExplained
  WholeTurnsInHistory
  StoredOrder
CHECK_DEADLOCK FALSE
