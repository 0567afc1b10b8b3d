SPECIFICATION Spec
CONSTANTS
  a1 = a1
  a2 = a2
  a3 = a3
  k1 = k1
  k2 = k2
  NoKey = NoKey
  Empty = Empty
  Pending = Pending
  Attempts <- TwoAttempts
  Keys <- OneKey
  Cap = 1
  MaxFaults = 0
  MayOutlive = FALSE
CHECK_DEADLOCK FALSE
INVARIANTS
  CapRespected
