CONSTANTS
  MeshInSize = 2
  BleTxSize = 3
  Exchange = 2
  MaxUpdates = 1
  MaxRequests = 2
  MaxConn = 2
  Nothing = Nothing
SPECIFICATION Spec
INVARIANTS
  NoMutualWait
