CONSTANTS
  e1 = e1
  e2 = e2
  e3 = e3
  g1 = g1
  g2 = g2
  r1 = r1
  r2 = r2
  None = None
  Entities = {e1, e2}
  Groups = {g1}
  Pairs <- OnePair
  MaxHistory = 1
  Requests = {r1}
SPECIFICATION Spec
INVARIANTS
  TypeOK
  NoHandmadeCircle
PROPERTIES
  SyncKeepsHandwork
  UndoIsExact
