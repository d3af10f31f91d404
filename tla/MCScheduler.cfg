SPECIFICATION LiveSpec
CONSTANTS
  Keys = {k1, k2}
  Workers = {w1, w2}
  KeyQueueCap = 2
  ResultCapacity = 1
  MaxUnits = 4
  PanicBudget = 2
INVARIANTS  SingleOwner NoStrandedUnit UnitsAccounted
PROPERTIES RunInOrder ResultsInOrder  
CHECK_DEADLOCK FALSE
