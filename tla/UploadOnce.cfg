SPECIFICATION FairSpec
CONSTANTS
  a1 = a1
  a2 = a2
  a3 = a3
  k1 = k1
  k2 = k2
  NoKey = NoKey
  Empty = Empty
  Pending = Pending
  Attempts <- ThreeAttempts
  Keys <- TwoKeys
  Cap = 2
  MaxFaults = 2
  MayOutlive = FALSE
CHECK_DEADLOCK FALSE
INVARIANTS
  TypeOK
  OneDocumentPerKey
  AnswersAgree
  ReplaysAreReal
PROPERTIES
  StoredStays
  KeysUnblock
