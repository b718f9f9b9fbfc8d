SPECIFICATION AnswerSpec
CONSTANTS
  c1 = c1
  c2 = c2
  c3 = c3
  c4 = c4
  r1 = r1
  r2 = r2
  r3 = r3
  a = a
  aa = aa
  b = b
  the = the
  while = while
  None = None
  Star = Star
  Chunks = {c1, c2, c3, c4}
  RecordOf <- Record
  StatusOf <- Status
  TagsOf <- Tags
  PathOf <- Path
  StableKey <- Key
  CandidateLimit = 3
  AcceptedLimit = 2
  DiversityCap = 1
  RRFConstant = 60
  FunctionWords = {the}
  Connectives = {while}
  SameStem = {{a, aa}}
  MaxSubClaims = 2
  MaxAddedFunctionWords = 1
  MaxAttempts = 2
  MaxTries = 2
  TextOf <- Text
  SourcesOf <- Source
  SuccessorsOf <- Successor
  Filters <- SomeFilters
  Scores = {0, 1, 2}
  Distances = {0, 1}
  Drafts <- SomeDrafts
  Divisions <- SomeDivisions
  Coverages <- SomeCoverages
  Oracles <- SomeOracles
  ProposedRecords <- TheProposed
  MaxFacets = 2
  MaxSentences = 2
  MaxCited = 2
INVARIANTS
  RequestsBounded
  SelectionIsFair
  OneFate
  AnswersCoverQuestion
  CitationsResolve
  OraclesTellTruth
PROPERTIES
  KeepsPromise
  QueryEnds
CHECK_DEADLOCK FALSE
