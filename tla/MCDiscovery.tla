----------------------------- MODULE MCDiscovery -----------------------------
(* Values of the constants of Discovery for TLC.                           *)
EXTENDS Discovery, TLC

CONSTANTS e1, e2, e3, i1, i2, m1, m2

IdSymmetry == Permutations(Entities) \cup Permutations(Ips)
=============================================================================
