CONSTANTS
  m1 = m1
  m2 = m2
  m3 = m3
  m4 = m4
  Msg = {m1, m2, m3, m4}
  Size = 2
  Invalid = Invalid
  Erased = Erased
  Garbled = Garbled
  OverwriteSlot <- Replaced
  OverwriteHeader <- Replaced
  RewritesSector = TRUE
SPECIFICATION Spec
SYMMETRY Frames
INVARIANTS
  TypeOK
  RingSound
  ReplayedOnce
PROPERTIES
  ImplementsMessageQueue
