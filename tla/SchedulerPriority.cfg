SPECIFICATION Spec
CONSTANTS
  Dags = {d1, d2}
  Jobs = {"a", "e"}
  DagOf <- TwoDags
  Edges <- NoEdges
  MaxAttempts <- OneAttempt
  Priority <- LaterIsUrgent
  IdRank <- Alphabetical
  BaseRetry = 10
  MaxRetry = 15
  Tokens <- SequenceTokens
  Owners = {w1}
  Null = Null
  MaxDags = 2
  MaxReadyJobs = 2
  LeaseLengths = {5}
  Hash <- Spread
  MaxSequence = 2
  Times = {0, 5, 11}
PROPERTIES
  ClaimsHighestPriority
