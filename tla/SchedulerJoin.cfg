SPECIFICATION Spec
CONSTANTS
  Dags = {d1, d2}
  Jobs = {"a", "b", "c", "e"}
  DagOf <- TwoDags
  Edges <- JoinEdges
  MaxAttempts <- RetryFirst
  Priority <- LaterIsUrgent
  IdRank <- Alphabetical
  BaseRetry = 10
  MaxRetry = 15
  Tokens <- SequenceTokens
  Owners = {w1}
  Null = Null
  MaxDags = 2
  MaxReadyJobs = 2
  LeaseLengths = {5}
  Hash <- Spread
  MaxSequence = 5
  Times = {0, 5, 11}
INVARIANTS
  TypeOK
  ReadyExact
  HeapBounded
  RemainingExact
  NoStrandedChild
  Fenced
  SchedInv
PROPERTIES
  ImplementsLifecycle
  ClaimsOldest
