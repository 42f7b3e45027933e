CONSTANTS
  s1 = s1
  s2 = s2
  f1 = f1
  r1 = r1
  f2 = f2
  r2 = r2
  sw1 = sw1
  sw2 = sw2
  panel1 = panel1
  panel2 = panel2
  e1 = e1
  e2 = e2
  None = None
  Ports = {s1, s2, f1, r1, f2, r2}
  Peer <- PanelPeer
  Devices = {sw1, sw2, panel1, panel2}
  DeviceOf <- PortDevice
  Fronts = {s1, s2, f1, f2}
  Chosen = {sw1}
  Entities = {e1, e2}
  Discovered = {e2}
  MaxTraceHops = 2
SPECIFICATION CatalogSpec
INVARIANTS
  CatalogTypeOK
  TraceFindsTheEnd
  OnlyUndrawnCablesBreak
