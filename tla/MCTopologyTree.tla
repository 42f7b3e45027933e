--------------------------- MODULE MCTopologyTree ---------------------------
(* Values of the constants of TopologyTree for TLC.                        *)
EXTENDS TopologyTree

CONSTANTS e1, e2, e3, g1, g2, r1, r2

OnePair == {<<e1, g1>>}
NoPairs == {}
=============================================================================
