SPECIFICATION Spec
CONSTANTS
  Actual = 5
  NumRoutes = 2
  K = 2
  Chunk = 1
  Capacity = 2
  BatchChunks = 2
  CachedTokens = {3}
  MaxScore = 2
  Rows <- MCRows
  Profiles <- AllProfiles
INVARIANTS ServedWhenUnselected
