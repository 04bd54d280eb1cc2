SPECIFICATION Spec
CONSTANTS
  Machine = {m1, m2}
  Key = {k1, k2}
  Id = {i1, i2, i3}
  NoId = NoId
  NoKey = NoKey
  MaxInstalls = 1
  Grace = 1
  LastDay = 3
  MaxLosses = 1
SYMMETRY Symmetry
INVARIANTS
  RunsOnRecentApproval
  SeatsHold
CHECK_DEADLOCK FALSE
