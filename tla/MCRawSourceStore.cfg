SPECIFICATION Spec
CONSTANTS
  Worker = {w1, w2, w3}
  Payload = {p1, p2}
  NoPayload = NoPayload
  MaxFaults = 2
SYMMETRY CallerSymmetry
INVARIANTS
  TypeOK
  NoTornRecord
  PublisherReceiptIsDurable
  NoOrphanWithoutFault
PROPERTIES
  WriteOnce
  ImplementsSourceArchive
