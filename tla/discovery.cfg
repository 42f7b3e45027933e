CONSTANTS
  e1 = e1
  e2 = e2
  e3 = e3
  i1 = i1
  i2 = i2
  m1 = m1
  m2 = m2
  None = None
  Silent = Silent
  Entities = {e1, e2}
  Ips = {i1}
  Macs = {m1}
  UsersAct = {"idle", "next", "match", "write", "conflict", "record", "absent"}
  LanMoves = {"idle"}
  MaxMerges = 1
  MaxRestarts = 1
SPECIFICATION Spec
SYMMETRY IdSymmetry
INVARIANTS
  TypeOK
  ConflictReportedOnce
PROPERTIES
  OnlyAdoptionLosesIdentity

