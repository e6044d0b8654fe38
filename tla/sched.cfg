SPECIFICATION FairSpec
CONSTANTS
  NumCores = 3
  BatchSizes = {2, 4, 6}
  MaxChunks = 3
  MaxTotal = 7
  LocalExtra = 1
  OldMeta = {1}
INVARIANTS AnswersAreWhole AnsweredOnce PartialSlotsFit RowStableWhileScored
PROPERTY LaunchEnds
