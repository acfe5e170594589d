SPECIFICATION FairSpec
CONSTANTS
  n1 = n1
  n2 = n2
  p1 = p1
  p2 = p2
  p3 = p3
  Node = {n1, n2}
  Proc = {p1, p2, p3}
  NodeOf <- MCNodeOf
  Relockers = {p1}
  MaxFaults = 1
  MaxCrashes = 1
  TTL = 4
  RefreshInterval = 1
  MaxDelay = 2
INVARIANTS MutualExclusion HolderHasKey
PROPERTIES AbstractSpec OrphanExpires WaiterLeaves
