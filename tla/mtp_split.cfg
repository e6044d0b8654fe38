SPECIFICATION FairSpec
CONSTANTS
  NumCores = 4
  BatchSize = 3
  MinBlocks = 0
  MaxBlocks = 4
  MergeBlocks = 2
INVARIANTS AnswersAreWhole HandledOnce WalkStaysInside
PROPERTY LaunchEnds
