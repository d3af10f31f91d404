SPECIFICATION LiveEngineSpec
CONSTANTS
  MaxSeq = 3
  Wanted <- MCWanted
  MaxBatch = 2
  Dicts = {"da", "db"}
  Compression = TRUE
  MayStop = FALSE
  MayCancel = TRUE
  SegSize = 2
  ChunkSizes = {1, 2}
  MaxStalls = 2
  MaxPages = 3
  BeforeSeq = 3
  Modes = {"live", "both", "snapshot"}
  StartAt = {0}
  MaxFaults = 1
  MaxCrashes = 0
PROPERTIES EveryEventArrives CancelEnds
CHECK_DEADLOCK FALSE
