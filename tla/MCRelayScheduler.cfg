CONSTANTS
  flood = flood
  directed = directed
  private = private
  s1 = s1
  s2 = s2
  Packet <- MCPacket
  Byte = {0, 1, 2}
  OurByte = 1
  MaxHop = 2
  RingSize = 3
  OpaqueSize = 1
  MaxRelayers = 1
  NoRecord = NoRecord
  Slot = {s1, s2}
  Free = Free
  MaxDelay = 1
  Roles = {"Client", "ClientMute", "Router"}
  Dest <- MCDest
  NextHop <- MCNextHop
  HopStart <- MCHopStart
  Heard <- MCHeard
  Private = {private}
SPECIFICATION Spec
INVARIANTS
  TypeOK
  HopBudget
  RelayedOnce
PROPERTIES
  QueueDrains
  RouterAlwaysRelays
