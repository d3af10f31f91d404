SPECIFICATION VerifierSpec
SYMMETRY Symmetry
INVARIANTS ChainAuthentic PendingHasOneJob
PROPERTIES ChainNeverRegresses GateHolds
CHECK_DEADLOCK FALSE
CONSTANTS
  d1 = d1 d2 = d2 c1 = c1 c2 = c2 j1 = j1 j2 = j2 s1 = s1
  NoTask = NoTask
  Dids <- MCOneDid
  Callers = {c1, c2}
  Jobs = {j1, j2}
  Stripes = {s1}
  StripeOf <- MCStripeOf
  MaxRev = 2
  DataOf <- MCDataPlain
  Forms = {"good", "legacy", "partial", "mismatch", "corrupt", "forged"}
  Kinds = {"commit", "sync", "account"}
  MaxSeq = 1
  MaxCalls = 3
  StoreFaults = TRUE
  Policies = {"Resync", "Error"}
  Gate = TRUE
  AcceptLegacy = TRUE
  Lenient = TRUE
  AsyncWorkers = TRUE
  PendingCapacity = 1
  ChannelCapacity = 1
  Serial = FALSE
  Close = TRUE
