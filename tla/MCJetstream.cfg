SPECIFICATION EngineSpec
CONSTANTS
  MaxSeq = 4
  Wanted <- MCWanted
  MaxBatch = 2
  Dicts = {"da","db"}
  Compression = TRUE
  MayStop = TRUE
  MayCancel = TRUE
  SegSize = 2
  ChunkSizes = {1, 2}
  MaxStalls = 2
  MaxPages = 3
  BeforeSeq = 3
  Modes = {"live", "both", "snapshot"}
  StartAt = {1}
  MaxFaults = 1
  MaxCrashes = 1
INVARIANTS  StopsCleanly
PROPERTIES ImplementsFeed
CHECK_DEADLOCK FALSE
