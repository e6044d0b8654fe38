SPECIFICATION Spec
CONSTANTS
  IndexSize = 4
  HighSize = 2
  FieldSize = 8
  Chunk = 2
  K = 3
  GroupInner = 3
  Infinity = 64
  Lengths = {2, 4, 5}
  CacheTokens = {1, 3}
  Rows <- MCRows
  Products <- MCProducts
INVARIANTS ListIsTopK MissesLead ColdExact
