------------------------- MODULE MCTopologyCatalog -------------------------
(* Two switches with a port each and two patch panels with one number.     *)
EXTENDS TopologyCatalog

CONSTANTS s1, s2, f1, r1, f2, r2, sw1, sw2, panel1, panel2, e1, e2

PanelPeer ==
  [p \in Ports |-> CASE p = f1 -> r1 [] p = r1 -> f1
                     [] p = f2 -> r2 [] p = r2 -> f2
                     [] OTHER -> None]

PortDevice ==
  [p \in Ports |-> CASE p = s1 -> sw1 [] p = s2 -> sw2
                     [] p \in {f1, r1} -> panel1 [] OTHER -> panel2]
=============================================================================
