CONSTANTS
  e1 = e1
  e2 = e2
  e3 = e3
  i1 = i1
  i2 = i2
  m1 = m1
  m2 = m2
  None = None
  Silent = Silent
  Entities = {e1, e2, e3}
  Ips = {i1, i2}
  Macs = {m1}
  UsersAct = {}
  LanMoves = {"idle", "next", "match", "write", "conflict", "record", "absent"}
  MaxMerges = 0
  MaxRestarts = 0
SPECIFICATION FairSpec
PROPERTIES
  StatusIsWhatTheScanSaw
  AbsentGoesDownUnlessClash
