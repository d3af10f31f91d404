SPECIFICATION LiveStreamSpec
CONSTANTS
  k1 = k1
  k2 = k2
  Keys = {k1, k2}
  Workers = {w1, w2}
  KeyQueueCap = 1
  ResultCapacity = 1
  MaxUnits = 3
  PanicBudget = 0
  MaxSeq = 3
  KeyOf <- MCOneKey
  BatchSize = 2
  CtrlCapacity = 1
  StartCursors <- MCStartNone
  MaxConnects = 1
  MaxResubscribes = 0
  MaxNotices = 1
INVARIANTS StreamInv
PROPERTIES EveryFrameAccounted
CHECK_DEADLOCK FALSE
