SPECIFICATION FairSpec
CONSTANTS
  Actual = 7
  NumRoutes = 2
  K = 3
  Chunk = 2
  Capacity = 4
  BatchChunks = 3
  CachedTokens = {2, 3, 5}
  MaxScore = 3
  Rows <- MCRows
  Profiles <- WaveProfiles
INVARIANTS TypeOK UnionExact Applicable AllOrNothing ColdestScannedGo
PROPERTY Finishes
