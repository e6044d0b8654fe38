SPECIFICATION FairSpec
CONSTANTS
  KeyBufs = 3
  QueryBufNums = {1, 2}
  L0Bufs = 2
  MaxBlocks = 5
  FullTiles = 2
INVARIANTS OperandsMatch EventsTakenBack
PROPERTY LaunchEnds
