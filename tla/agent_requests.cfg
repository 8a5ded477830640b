SPECIFICATION Spec
CONSTANTS
  f1 = f1
  f2 = f2
  f3 = f3
  secret = secret
  label = label
  hint = hint
  u = u
  v = v
  None = None
  Blank = Blank
  OtherId = OtherId
  Garbage = Garbage
  Null = Null
  EmptyObject = EmptyObject
  NoLimit = NoLimit
  Targets <- AllTargets
  Values <- AllValues
  Tools <- AllTools
  Shapes <- AllShapes
  Texts <- SaidOrNot
  UserContents <- AskedWithFiles
  Usages = {None, 1, 2}
  MaxIterations = 2
  MaxBatch = 2
  MaxToolCalls = 2
  MaxOps = 3
  Width = 3
INVARIANTS
  TypeOK
  SettingsReachGateway
  LoopAgreesWithHistory
  RunsWhatWasOffered
  ResultsAnswerCalls
  RecordedArgumentsWereUsed
  UsageIsTotal
PROPERTIES
  RequestsGrow
CHECK_DEADLOCK FALSE
