SPECIFICATION Spec
CONSTANTS
  w1 = w1
  w2 = w2
  r1 = r1
  r2 = r2
  d1 = d1
  c1 = c1
  c2 = c2
  NoDoc = NoDoc
  Workers <- TwoWorkers
  Requests <- TwoRequests
  Docs <- OneDoc
  Chunks <- OneChunk
  Jobs <- TwoJobs
  Operations <- AllOperations
  MaxFaults = 1
  MaxCrashes = 1
  MayOverrun = FALSE
CHECK_DEADLOCK FALSE
SYMMETRY Symmetry
INVARIANTS
  TypeOK
  StageIsHonest
  IInv
  SettledWhenAcked
  NoOrphanDocument
