SPECIFICATION RuntimeSpec
CONSTANTS
  api = api
  worker = worker
  r1 = r1
  r2 = r2
  w1 = w1
  w2 = w2
  Null = Null
  Keys <- OneKey
  Subkeys <- TwoSubkeys
  Patches <- PatchesChecked
  Processes <- ApiAndWorker
  Requests <- TwoRequests
  CacheTtl = 2
  Highest = 2
  MaxPatches = 2
  Hits <- TwoRequests
  MaxHits = 2
  Window = 2
  MaxRedisFaults = 2
  Hooks <- TwoHooks
  Dispatchers <- TwoRequests
  MaxEdits = 3
  MaxTrouble = 2
CHECK_DEADLOCK FALSE
INVARIANTS
  RuntimeTypeOK
  AckedMeansPosted
PROPERTIES
  CachesConverge
  LonePatchKeepsRest
  LimitLifts
  EventSettles
