SPECIFICATION Spec
CONSTANTS
  Peer = {p, q}
  Us = us
  MaxNodes = 2
  MaxPersisted = 1
  MaxChanges = 3
  Cuts = {1}
PROPERTY ForgottenStaysForgotten
