SPECIFICATION Spec
CONSTANTS
  o1 = o1
  o2 = o2
  o3 = o3
  e1 = e1
  e2 = e2
  any = any
  run = run
  esc = esc
  Openers <- ThreeOpeners
  Editors <- TwoEditors
  Names <- TwoNames
  Prefixes <- ThreePrefixes
  AnyChar = any
  AnyRun = run
  Escape = esc
  PageSize = 1
  ClockSteps <- Ticks
  MaxDeletes = 1
  MaxBegun = 3
SYMMETRY ClientSymmetry
INVARIANTS
  TypeOK
  SplitOnlyByOverlap
  NeverBackToAnOlderThread
  ReturnedThreadExists
  EditLostOnlyToOverlappingEdit
  ListingMissesNone
CHECK_DEADLOCK FALSE
