------------------------------- MODULE MCVault -------------------------------
(* Values of the constants of Vault for TLC.                               *)
EXTENDS Vault, TLC

CONSTANTS home, other

Symmetric == Permutations(Requests) \cup Permutations(Providers)
=============================================================================
