CONSTANTS
  d1 = d1
  e1 = e1
  e2 = e2
  c1 = c1
  c2 = c2
  c3 = c3
  r1 = r1
  r2 = r2
  None = None
  Devices = {d1}
  Panels = {}
  MaxPort = 2
  Entities = {e1, e2}
  Discovered = {e2}
  CableIds = {c1, c2, c3}
  Requests = {r1, r2}
SPECIFICATION Spec
SYMMETRY CableSymmetry
INVARIANT PortExclusive
