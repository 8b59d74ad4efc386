SPECIFICATION Spec
CONSTANTS
  d1 = d1
  a1 = a1
  a2 = a2
  p1 = p1
  c1 = c1
  c2 = c2
  None = None
  Handler = {h1, h2}
  Digest = {d1}
  Actor = {a1, a2}
  Position = {p1}
  Content = {c1, c2}
  Request <- MCRequest
  MaxRequests = 3
INVARIANTS
  TypeOK
  OneSourceOfTruth
  RowsHaveObjects
  SuccessIsAudited
  AuditIsTruthful
  AnswersAreTrue
  SequenceIsHonoured
CHECK_DEADLOCK FALSE
