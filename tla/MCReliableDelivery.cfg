CONSTANTS
  toNear = toNear
  toFar = toFar
  sealed = sealed
  near = near
  far = far
  s1 = s1
  s2 = s2
  Packet <- MCPacket
  Byte = {0, 2}
  OurByte = 2
  MaxHop = 1
  RingSize = 1
  OpaqueSize = 1
  MaxRelayers = 1
  NoRecord = NoRecord
  Slot = {s1, s2}
  Free = Free
  Retries = 2
  Timeout = 1
  Dest <- MCDest
  Peer = {near, far}
  PeerByte <- MCPeerByte
  Unreadable = {sealed}
  MaxRx = 2
SPECIFICATION Spec
INVARIANTS
  TypeOK
  OneResult
  FailureAfterAllAttempts
  SuccessMeansAccepted
PROPERTIES
  EventuallyResolved
CHECK_DEADLOCK FALSE
