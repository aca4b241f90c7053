SPECIFICATION Spec
CONSTANTS
  LoraTxSize = 5
  MeshInSize = 3
  CadMaxRetries = 5
INVARIANT TypeOK
INVARIANT OffMeansOff
PROPERTY MeshMoves
PROPERTY ListensAgain
