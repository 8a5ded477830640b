SPECIFICATION Spec
CONSTANTS
  u1 = u1
  u2 = u2
  r1 = r1
  w1 = w1
  w2 = w2
  t1 = t1
  t2 = t2
  d1 = d1
  d2 = d2
  name = name
  said = said
  Uploads <- TwoUploads
  Removers <- OneRemover
  Viewers <- TwoViewers
  Threads <- TwoThreads
  Contents <- TwoContents
  Names <- OneName
  Stored <- OneMessage
  Expiry = 1
  Width = 4
  MaxClock = 2
  MaxDeletes = 1
  MaxBegun = 4
SYMMETRY ClientSymmetry
INVARIANTS
  TypeOK
  RowHasObject
  OrphanObjectIsExplained
  DuplicateOnlyByOverlap
  CachedUrlWorks
CHECK_DEADLOCK FALSE
