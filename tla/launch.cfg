\* The callers may make no further call.
CHECK_DEADLOCK FALSE
SPECIFICATION Spec
CONSTANTS
  Hosts = {"h1", "h2"}
  Consumer = "queue"
  Streams = {"few", "many"}
  MaxCalls = 2
  Pool <- MCPool
  CubeCores <- MCCubeCores
  Jobs <- MCJobs
INVARIANTS
  OwnMemory
  LeaksOnlyOnThrow
  RegionsFit
PROPERTY EveryLaunchRuns
