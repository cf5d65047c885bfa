SPECIFICATION Spec
CONSTANTS
  Ids = {1, 2, 3, 4, 5, 9}
  ValidIds = {1, 2, 3, 4, 5}
  MaxPayloadBytes = 4096
  MaxDelay = 5000
  MaxJobs = 4
  MaxDependencies = 12
  Specs <- AllRequests
CHECK_DEADLOCK FALSE
INVARIANTS
  TypeOK
  IndegreeExact
  VerdictCorrect
  OrderTopological
  OrderStable
  AdmittedRuns
  DagInv
