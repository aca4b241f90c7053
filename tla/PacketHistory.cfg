CONSTANTS
  p1 = p1
  p2 = p2
  p3 = p3
  Packet = {p1, p2, p3}
  Byte = {0, 1, 2, 3}
  OurByte = 1
  MaxHop = 1
  RingSize = 2
  OpaqueSize = 1
  MaxRelayers = 2
  NoRecord = NoRecord
  OurRole = "Client"
SPECIFICATION Spec
INVARIANTS
  TypeOK
  RingShape
  NoDuplicateRecords
PROPERTIES
  ImplementsSeenWindow
