CONSTANTS
  a = a
  b = b
  d = d
  Node = {a, b}
  Dm = {d}
  From <- MCFrom
  To <- MCTo
  MaxKey = 2
SPECIFICATION Spec
INVARIANTS
  TypeOK
  TakenOnce
  TextsSealed
PROPERTY KeysConverge
