SPECIFICATION PartSpec
CONSTANTS
  Callers = {a, b}
  MaxGrants = 2
  MaxNumber = 2
  MaxEpoch = 2
  MaxOAuthFaults = 1
  NoSession = NoSession
  Nobody = Nobody
  DirDids = {x, y}
  Lookers = {l1, l2}
  Purgers = {p1}
  Capacity = 1
  MaxVersion = 1
  MaxPurges = 2
  NoEntry = NoEntry
  MstKeys = {1, 2, 3, 4}
  HeightOf <- MCHeight
  Vals = {1, 2}
  MaxOps = 2
  MaxRootCids = 1
  NoNode = NoNode
  Reqs = {r1, r2}
  Clients = {c}
  Limits = {1, 2, 3}
  LimitPoints <- MCPoints
  LimitDuration <- MCDuration
  FailClosed = {1}
  SweepThreshold = 2
  MaxPoints = 1
  MaxNow = 2
  MaxStoreFaults = 1
  NoWindow = NoWindow
  ResyncDids = {x, y}
  Checks = {k1, k2}
  Unit = 2
  PerTick = 1
  Burst = 3
  LimiterCapacity = 1
  MaxClock = 3
  MaxSetBacks = 1
  NoBucket = NoBucket
  Threads = {t1, t2}
  MaxTid = 3
INVARIANTS LibTypeOK SpentOnce  PurgeForgets TreeIsSound InversionIsExact AdmittedWithinLimit ResyncBudgetHolds TidsAscend
CHECK_DEADLOCK FALSE
