SPECIFICATION VerifierSpec
SYMMETRY Symmetry
INVARIANTS VerifierTypeOK LockInv AdoptedReachesConsumer
PROPERTIES BufferNeverForgotten
CHECK_DEADLOCK FALSE
CONSTANTS
  d1 = d1 d2 = d2 c1 = c1 c2 = c2 j1 = j1 j2 = j2 s1 = s1
  NoTask = NoTask
  Dids <- MCOneDid
  Callers = {c1, c2}
  Jobs = {j1, j2}
  Stripes = {s1}
  StripeOf <- MCStripeOf
  MaxRev = 3
  DataOf <- MCDataOf
  Forms = {"good", "corrupt", "forged"}
  Kinds = {"commit", "sync", "account"}
  MaxSeq = 2
  MaxCalls = 3
  StoreFaults = FALSE
  Policies = {"Resync"}
  Gate = TRUE
  AcceptLegacy = FALSE
  Lenient = FALSE
  AsyncWorkers = TRUE
  PendingCapacity = 1
  ChannelCapacity = 1
  Serial = FALSE
  Close = FALSE
