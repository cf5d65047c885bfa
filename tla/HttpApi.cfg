SPECIFICATION ApiFairSpec
CONSTANTS
  Dags = {d1, d2}
  Jobs = {"a", "b", "e", "f"}
  DagOf <- ApiDags
  Edges <- ApiEdges
  MaxAttempts <- OneAttempt
  Priority <- SamePriority
  IdRank <- Alphabetical
  BaseRetry = 1
  MaxRetry = 2
  Tokens = {1, 2}
  Owners = {w1}
  Null = Null
  Sessions = {s1, s2}
  LeaseLengths = {1}
  MaxTime = 1
INVARIANTS
  SubmitAtomic
  AnswersTrue
PROPERTIES
  EveryCallReturns
