SPECIFICATION StreamSpec
CONSTANTS
  k1 = k1
  k2 = k2
  Keys = {k1, k2}
  Workers = {w1, w2}
  KeyQueueCap = 1
  ResultCapacity = 2
  MaxUnits = 4
  PanicBudget = 2
  MaxSeq = 3
  KeyOf <- MCKeyOf
  BatchSize = 2
  CtrlCapacity = 1
  StartCursors <- MCStart
  MaxConnects = 2
  MaxResubscribes = 1
  MaxNotices = 0
SYMMETRY Symmetry
INVARIANTS NoSkippedEvent StreamInv
CHECK_DEADLOCK FALSE
