SPECIFICATION MCSpec
CONSTANTS
  Capacity = 5
  K = 2
  ChunkSize = 2
  BatchChunks = 1
  ExtraChunks = 1
  C = 3
  SlotField = 8
  Unbound <- FreeBindings
  Scores = {0, 1}
  Lens = {4, 5}
  FirstRows = "prefix"
INVARIANT RowNeverStale
PROPERTIES OnlyCachedEvicted CallsEnd
