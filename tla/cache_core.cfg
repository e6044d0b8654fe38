SPECIFICATION MCSpec
CONSTANTS
  Capacity = 5
  K = 2
  ChunkSize = 1
  BatchChunks = 2
  ExtraChunks = 1
  C = 3
  SlotField = 4
  Unbound <- OnlyNone
  Scores = {0, 1}
  Lens = {0, 5}
  FirstRows = "any"
INVARIANTS CachePermutation TopKIsBest PublishedMatchesRow MissPrefixExact
PROPERTIES SelectedNeverEvicted ColdGoFirst PromiseKept
