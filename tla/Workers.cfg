SPECIFICATION MCSpec
CONSTANTS
  s1 = s1
  s2 = s2
  p1 = p1
  p2 = p2
  old = old
  Nothing = Nothing
  Jobs = {s1, s2, p1, p2, old}
  Rule <- MCRule
  Series <- MCSeries
  Quantity <- MCQuantity
  RequestedAt <- MCRequestedAt
  CodeWorkers = {"w1", "w2"}
  Prefixes = {"0614141", "07141410"}
  LastMonth = 2
  ChunkSize = 1
  MaxCodes = 3
  Capacity <- MCCapacity
  e1 = e1
  e2 = e2
  h1 = h1
  x1 = x1
  None = None
  Events = {e1, e2}
  Silent = {e2}
  Hooks = {h1}
  Exports = {x1}
  Endpoints = {"erp"}
  EndpointOf <- MCEndpointOf
  CreatedAt <- MCCreatedAt
  Deployments = {{"epcis"}, {"webhooks"}, {"storage"}}
  OutboxWorkers = {"o1", "o2"}
  HookWorkers = {"w1", "w2"}
  ExportWorkers = {"x1", "x2"}
  People = {"ann", "bob"}
  MaxAttempts = 2
  MaxReplays = 1
  MaxCrashes = 1
INVARIANTS
  SsccSound
  CodesSound
  DoneWasReceived
  OneHolderWithinLeases
PROPERTIES
  JobsEndUnlessStuck
  SettledStaysSettled
  EveryRowSettles
\* Every job may have ended, and every row may be settled for good.
CHECK_DEADLOCK FALSE
