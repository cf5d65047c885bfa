SPECIFICATION Spec
CONSTANTS
  Dags = {d1}
  Jobs = {"a", "b"}
  DagOf <- OneDag
  Edges <- ChainEdges
  MaxAttempts <- OneAttempt
  Priority <- SamePriority
  IdRank <- Alphabetical
  BaseRetry = 1
  MaxRetry = 2
  Tokens = {1, 2, 3}
  Owners = {w1}
  Null = Null
  Sessions = {s1, s2}
  LeaseLengths = {1}
  MaxTime = 1
SYMMETRY SessionSymmetry
INVARIANTS
  TerminalRecorded
