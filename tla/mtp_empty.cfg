SPECIFICATION Spec
CONSTANTS
  NumCores = 2
  BatchSize = 2
  MinBlocks = 0
  MaxBlocks = 2
  MergeBlocks = 2
INVARIANTS PublishedBeforeUnion
