SPECIFICATION LiveVerifierSpec
PROPERTIES ResyncSettles CallReturns
CHECK_DEADLOCK FALSE
CONSTANTS
  d1 = d1 d2 = d2 c1 = c1 c2 = c2 j1 = j1 j2 = j2 s1 = s1
  NoTask = NoTask
  Dids <- MCTwoDids
  Callers = {c1}
  Jobs = {j1, j2}
  Stripes = {s1}
  StripeOf <- MCStripeOf
  MaxRev = 1
  DataOf <- MCDataOf
  Forms = {"corrupt"}
  Kinds = {"commit"}
  MaxSeq = 2
  MaxCalls = 4
  StoreFaults = FALSE
  Policies = {"Resync"}
  Gate = FALSE
  AcceptLegacy = FALSE
  Lenient = FALSE
  AsyncWorkers = TRUE
  PendingCapacity = 1
  ChannelCapacity = 1
  Serial = FALSE
  Close = FALSE
