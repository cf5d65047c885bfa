SPECIFICATION Spec
CONSTANTS
  Dags = {d1}
  Jobs = {"a", "b"}
  DagOf <- OneDag
  Edges <- ChainEdges
  MaxAttempts <- RetryFirst
  Priority <- SamePriority
  IdRank <- Alphabetical
  BaseRetry = 1
  MaxRetry = 2
  Tokens = {1, 2, 3}
  Owners = {w1, w2}
  Null = Null
  Sessions = {s1, s2}
  LeaseLengths = {1}
  MaxTime = 2
SYMMETRY SessionOwnerSymmetry
INVARIANTS
  LeaseIffLeased
  WithinBudget
  Fenced
  AuditTrail
  CancelledAtRest
  SoleParentReleases
PROPERTIES
  ImplementsLifecycle
