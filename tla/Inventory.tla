----------------------------- MODULE Inventory -----------------------------
(***************************************************************************)
(* What the two modules about the topology say of the inventory: table     *)
(* entities and SQL NULL.                                                  *)
(***************************************************************************)
CONSTANTS
  Entities,   \* ids of entities; the node of one has the same id
  None        \* SQL NULL

ASSUME InventoryAssumption == None \notin Entities

VARIABLE entities   \* the entities that exist
=============================================================================
