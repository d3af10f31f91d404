SPECIFICATION LiveVerifierSpec
PROPERTIES AccountEventDelivered
CHECK_DEADLOCK FALSE
CONSTANTS
  d1 = d1 d2 = d2 c1 = c1 c2 = c2 j1 = j1 j2 = j2 s1 = s1
  NoTask = NoTask
  Dids <- MCOneDid
  Callers = {c1}
  Jobs = {j1, j2}
  Stripes = {s1}
  StripeOf <- MCStripeOf
  MaxRev = 3
  DataOf <- MCDataOf
  Forms = {"good", "corrupt"}
  Kinds = {"commit", "account"}
  MaxSeq = 2
  MaxCalls = 3
  StoreFaults = TRUE
  Policies = {"Resync"}
  Gate = FALSE
  AcceptLegacy = FALSE
  Lenient = FALSE
  AsyncWorkers = TRUE
  PendingCapacity = 1
  ChannelCapacity = 1
  Serial = TRUE
  Close = FALSE
