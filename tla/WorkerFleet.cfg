SPECIFICATION FleetFairSpec
CONSTANTS
  Dags = {d1, d2}
  Jobs = {"a", "b", "c"}
  DagOf <- FleetDags
  Edges <- FleetEdges
  MaxAttempts <- FleetAttempts
  Priority <- SamePriority
  IdRank <- Alphabetical
  BaseRetry = 1
  MaxRetry = 2
  Tokens = {1, 2, 3, 4, 5}
  Owners = {w1, w2}
  Null = Null
  MaxPayloadBytes = 64
  MaxDelay = 5
  KindOf <- FleetKinds
  PayloadOf <- FleetPayloads
  Workers = {w1, w2}
  LeaseTicks = 2
INVARIANTS
  TypeOK
  NoNeedlessRetry
  OverlongNeverSucceeds
  FleetInv
PROPERTIES
  EveryJobEnds
