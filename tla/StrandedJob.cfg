SPECIFICATION Spec
CONSTANTS
  w1 = w1
  w2 = w2
  r1 = r1
  r2 = r2
  d1 = d1
  c1 = c1
  c2 = c2
  NoDoc = NoDoc
  Workers <- TwoWorkers
  Requests <- OneRequest
  Docs <- OneDoc
  Chunks <- OneChunk
  Jobs <- OneJob
  Operations <- CreateOnly
  MaxFaults = 0
  MaxCrashes = 1
  MayOverrun = TRUE
CHECK_DEADLOCK FALSE
INVARIANTS
  NeverStranded
  
