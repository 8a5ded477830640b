SPECIFICATION FairSpec
CONSTANTS
  c1 = c1
  c2 = c2
  t1 = t1
  Calls <- OneCall
  Threads <- OneThread
  MaxIterations = 3
  MaxBatch = 2
  ClockSteps <- TicksOrTies
  MaxEdits = 1
INVARIANTS
  RequestBeforeTools
  ToolsRunOnceInOrder
  ResultsAnswerRequests
  BudgetIsSpent
PROPERTIES
  RewindKeepsPairs
  EveryCallEnds
  CallsAreTurns
CHECK_DEADLOCK FALSE
