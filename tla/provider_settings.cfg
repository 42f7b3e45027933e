CONSTANTS
  p1 = p1
  p2 = p2
  blank = blank
  filled = filled
  user = user
  pass = pass
  v = v
  None = None
  Clear = Clear
  Providers = {p1, p2}
  Template = p1
  Configs = {blank, filled}
  Blank = blank
  Fields = {user, pass}
  Values = {v}
  Accepted <- MCAccepted
  Edited = {p1, p2}
  Payloads <- MCPayloads
  Requests = {r1, r2}
  MaxRestarts = 1
SPECIFICATION Spec
SYMMETRY Symmetric
INVARIANTS
  TypeOK
PROPERTIES
  OnlyAnOverlapSavesUntested
CHECK_DEADLOCK FALSE
