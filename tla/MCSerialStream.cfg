SPECIFICATION LiveSerialSpec
CONSTANTS
  r1 = r1
  MaxSeq = 4
  Wanted <- MCWanted
  Repos = {r1}
  RepoOf <- MCRepoOf
  Modes = {"plain", "jetstream", "verified", "async"}
  StartAt = {0}
  BatchSize = 2
  MaxFaults = 2
  MaxRestarts = 1
 
PROPERTIES ImplementsFeed CursorCatchesUp 
CHECK_DEADLOCK FALSE
