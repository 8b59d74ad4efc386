SPECIFICATION Spec
CONSTANTS
  t1 = t1
  none = none
  Phenomenon = {t1}
  Value = {3, 4, 5}
  Missing = none
  MaxTime = 2
  Row <- MCRow
  Query = {q1, q2}
  Request <- MCRequest
  NoRequest = noRequest
  NoCase = noCase
  BatchSize = 2
  ListLimit = 2
  RemoteLimit = 2
  TableSize = 1
  MaxUses = 2
SYMMETRY MCSymmetry
CHECK_DEADLOCK FALSE
INVARIANTS
  RecentObservationsAreShown
