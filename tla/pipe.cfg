SPECIFICATION FairSpec
CONSTANT MaxChunks = 5
INVARIANTS Accounting ReadsItsChunk FlagsDrained
PROPERTIES QueueKept LaunchEnds
