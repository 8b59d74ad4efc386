SPECIFICATION FairSpec
CONSTANTS
  Process = {p1, p2}
  Thread = {t1, t2, t3}
  Reader = {r1}
  p1 = p1
  p2 = p2
  t1 = t1
  t2 = t2
  t3 = t3
  id1 = id1
  id2 = id2
  c1 = c1
  c2 = c2
  early = early
  late = late
  None = None
  Null = Null
  Garbage = Garbage
  NotANumber = {c2}
  ProcessOf <- MCProcessOf
  Observation <- MCObservation
  Batch <- MCBatch
  Existing <- MCExisting
  MaxCalls = 2
  MaxFaults = 2
  MaxReads = 1
INVARIANTS
  TypeOK
  LockDiscipline
  UniqueIds
  AcceptedIsStored
  RejectedLeavesNothing
  ReaderSeesSnapshot
PROPERTIES
  AppendOnly
  ImplementsObservationLedger
  EveryRequestEnds
CHECK_DEADLOCK FALSE
