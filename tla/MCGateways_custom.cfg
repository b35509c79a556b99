SPECIFICATION Spec
CONSTANTS
  Answers <- SomeAnswers
  Calls = {1, 2}
  GateSets <- SomeGates
  MaxPieces = 3
  MaxChunk = 2
  MaxParts = 3
  MaxFrame = 2
  pa = pa
  pb = pb
  r1 = r1
  r2 = r2
  Requests = {r1}
  Providers = {pa, pb}
  NoProvider = NoProvider
  Catalogs <- AllCatalogs
  Orders <- OnlyCustomA
  Needs <- AllNeeds
  MaxRetries = 1
  Max429 = 1
  Threshold = 2
CHECK_DEADLOCK FALSE
PROPERTY CustomStaysInside
