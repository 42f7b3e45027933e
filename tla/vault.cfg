CONSTANTS
  Keys = {home, other}
  home = home
  other = other
  Home = home
  Providers = {p1}
  None = None
  MaxBackups = 2
  Requests = {r1, r2}
  MaxRestarts = 1
SPECIFICATION Spec
SYMMETRY Symmetric
INVARIANTS
  TypeOK
PROPERTIES
  RestoreKeepsTheSeal
  OnlyARestoreBreaksTheSeal
CHECK_DEADLOCK FALSE
