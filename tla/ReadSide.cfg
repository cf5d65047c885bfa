SPECIFICATION Spec
CONSTANTS
  Ids = {1, 2, 3}
  Limit = 1
  DashboardLimit = 2
  Refreshes = {f1, f2}
  Purgeable = {1, 2}
  Null = Null
SYMMETRY RefreshSymmetry
INVARIANTS
  WalkComplete
  SettledWhenIdle
  ShownIsNamed
  NoEmptyDag
