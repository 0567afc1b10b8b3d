SPECIFICATION KnowledgeSpec
CONSTANTS
  x1 = x1
  x2 = x2
  y1 = y1
  y2 = y2
  z1 = z1
  z2 = z2
  reader1 = reader1
  document1 = document1
  editor = editor
  viewer = viewer
  Meanings <- MeaningsChecked
  Negates <- NegatesChecked
  Passes <- TwoX
  MaxClaims = 3
  MaxAnswer = 2
  MaxTime = 3
  MaxOpenReviews = 2
  MaxCorrelateClaims = 2
  Evidence <- TwoX
  Topics <- TwoY
  Writers <- TwoZ
  MaxVersion = 4
  MinClaims = 1
  Concepts <- TwoX
  Labels <- TwoY
  Documents <- OneDocument
  Builds <- TwoZ
  Readers <- OneReader
  MaxNodeId = 6
  MaxClaimRows = 2
  Codes <- TwoCodes
  Texts <- TwoTexts
  Unlabelled = ""
  Releases <- ReleasesChecked
  Importers <- OneImporter
  Embedders <- TwoX
  Slugs <- OneSlug
  EmbedBatch = 1
  MaxSync = 2
  MaxCatalogue = 1
  MaxOntologyFaults = 1
  Cards <- OneCard
  Learners <- TwoY
  Reviews <- TwoX
  MaxReviews = 3
  Students <- EditorAndViewer
  Editors <- OneEditor
  Attempts <- TwoX
  Questions <- TwoY
  Options <- TwoOptions
  MaxAttempts = 2
  Chunks <- ThreeChunks
  Matching <- TwoMatching
  Searchers <- TwoX
  TopK = 2
  Candidates = 2
  RerankPool = 3
  SearchTtl = 2
  MaxSearchFaults = 1
CHECK_DEADLOCK FALSE
SYMMETRY Symmetry
INVARIANTS
  KnowledgeTypeOK
  ReviewBacked
  MeaningKept
  HistoryComplete
  NoConceptLost
  NeighboursAreNodes
  EmbedRunIsComplete
  NothingOldMissing
