-------------------------- MODULE TopologyCatalog --------------------------
(***************************************************************************)
(* sync_topology_catalog: every GET /api/bootstrap first projects the      *)
(* inventory into the topology, in one transaction.  Entities become       *)
(* nodes, except those that only lend their status to a network device     *)
(* (its monitor); cables and uplinks become relations between nodes.  A    *)
(* relation to a node that does not exist breaks a foreign key and with it *)
(* the whole bootstrap.                                                    *)
(*                                                                         *)
(* The relations are derived from scratch by every sync, so they are an    *)
(* operator of the state and not a variable.  Handlers are atomic here and *)
(* network devices stay; PatchBay has the interleavings of the cabling.    *)
(***************************************************************************)
EXTENDS CableTrace

CONSTANTS
  Devices,     \* ids of network devices, panels included
  DeviceOf,    \* ports.physical_device_id
  Fronts,      \* ports with side = 'front'
  Chosen,      \* the devices that this instance gives monitors and uplinks
  Discovered   \* entities that a provider found

ASSUME TopologyCatalogAssumption ==
  /\ Devices \cap (Entities \cup {None}) = {}
  /\ DeviceOf \in [Ports -> Devices]
  /\ Fronts \subseteq Ports
  /\ Outlets \subseteq Fronts
  /\ Chosen \subseteq Devices
  /\ Discovered \subseteq Entities

VARIABLES
  shelved,    \* those that are ignored or archived
  uplink,     \* entities.uplink_device_id
  monitor,    \* physical_devices.monitor_entity_id
  nodes       \* the entities that have a row in topology_nodes

catalogVars == <<cables, entities, shelved, uplink, monitor, nodes>>

Monitors == {monitor[d] : d \in Devices} \ {None}

-----------------------------------------------------------------------------
(* Nodes after a sync: monitors lose theirs, and what is shelved keeps one *)
(* it already had.                                                         *)
Drawable == entities \ (shelved \cup Monitors)
SyncedNodes == (nodes \ Monitors) \cup Drawable

Line(x, y, type) == [ends |-> {x, y}, type |-> type]

(* A cable strand between two device ports; a panel front is skipped.      *)
TrunkLines ==
  {Line(DeviceOf[p], DeviceOf[TraceFarPort(p)], "physical") :
     p \in {q \in Fronts \cap Outlets : /\ TraceFarPort(q) # None
                                        /\ DeviceOf[TraceFarPort(q)] # DeviceOf[q]}}

(* A front port whose trace ends at an entity, whatever device it is on.   *)
EntityLines ==
  {Line(DeviceOf[p], TraceEntity(p), "physical") :
     p \in {q \in Fronts : TraceEntity(q) # None}}

\* the monitor is left in
BugUplinkLines ==
  {Line(uplink[e], e, "portless") : e \in {x \in entities \ shelved : uplink[x] # None}}

UplinkLines ==
  {Line(uplink[e], e, "portless") : e \in {x \in Drawable : uplink[x] # None}}

HasNodes(lines) == \A l \in lines : l.ends \cap Entities \subseteq SyncedNodes

-----------------------------------------------------------------------------
CatalogInit ==
  /\ NoWires
  /\ entities = {}
  /\ shelved = {}
  /\ uplink = [e \in Entities |-> None]
  /\ monitor = [d \in Devices |-> None]
  /\ nodes = {}

(* GET /api/bootstrap; rolled back when a line cannot be inserted.         *)
SyncCatalog ==
  /\ nodes' = IF HasNodes(TrunkLines \cup EntityLines \cup UplinkLines)
                THEN SyncedNodes ELSE nodes
  /\ UNCHANGED <<cables, entities, shelved, uplink, monitor>>

(* POST /api/cables                                                        *)
Connect(a, b) ==
  /\ b \in Entities => b \in entities
  /\ Plug(a, b)
  /\ uplink' = [e \in Entities |-> IF e = b THEN None ELSE uplink[e]]
  /\ UNCHANGED <<entities, shelved, monitor, nodes>>

(* DELETE /api/cables/{id}                                                 *)
Disconnect(c) ==
  /\ Unplug(c)
  /\ UNCHANGED <<entities, shelved, uplink, monitor, nodes>>

(* PUT /api/entities/{e}/uplink                                            *)
SetUplink(e, d) ==
  /\ e \in entities
  /\ d # None => ~Cabled(e)
  /\ uplink' = [uplink EXCEPT ![e] = d]
  /\ UNCHANGED <<cables, entities, shelved, monitor, nodes>>

(* PATCH /api/physical-devices/{d}, its monitor_entity_id                  *)
AssignMonitor(d, e) ==
  /\ e \in entities \cup {None}
  /\ monitor' = [monitor EXCEPT ![d] = e]
  /\ UNCHANGED <<cables, entities, shelved, uplink, nodes>>

(* PATCH /api/entities/{e}/discovery-state                                 *)
SetDiscoveryState(e, hide) ==
  /\ e \in entities \cap Discovered
  /\ shelved' = IF hide THEN shelved \cup {e} ELSE shelved \ {e}
  /\ UNCHANGED <<cables, entities, uplink, monitor, nodes>>

(* A new entity, by hand or from a provider                                *)
AddEntity(e) ==
  /\ e \notin entities
  /\ entities' = entities \cup {e}
  /\ UNCHANGED <<cables, shelved, uplink, monitor, nodes>>

\* the node of an entity that is gone stays
BugForget(e) ==
  /\ entities' = entities \ {e}
  /\ shelved' = shelved \ {e}
  /\ uplink' = [uplink EXCEPT ![e] = None]
  /\ monitor' = [d \in Devices |-> IF monitor[d] = e THEN None ELSE monitor[d]]
  /\ nodes' = nodes

(* What DELETE FROM entities does to the rows that refer to e.             *)
Forget(e) ==
  /\ entities' = entities \ {e}
  /\ shelved' = shelved \ {e}
  /\ uplink' = [uplink EXCEPT ![e] = None]
  /\ monitor' = [d \in Devices |-> IF monitor[d] = e THEN None ELSE monitor[d]]
  /\ nodes' = nodes \ {e}

(* DELETE /api/entities/{e}                                                *)
RemoveEntity(e) ==
  /\ e \in entities \ Discovered
  /\ Forget(e)
  /\ cables' = cables \ CablesAt(e)

(* POST /api/entities/{src}/merge                                          *)
Merge(src, tgt) ==
  /\ {src, tgt} \subseteq entities
  /\ src \in Discovered
  /\ src # tgt
  /\ ~(Cabled(src) /\ Cabled(tgt))
  /\ cables' = {IF c.b = src THEN [c EXCEPT !.b = tgt] ELSE c : c \in cables}
  /\ Forget(src)

CatalogNext ==
  \/ SyncCatalog
  \/ \E a \in Ports, b \in Ports \cup Entities : Connect(a, b)
  \/ \E c \in cables : Disconnect(c)
  \/ \E e \in Entities, d \in Chosen \cup {None} : SetUplink(e, d)
  \/ \E d \in Chosen, e \in Entities \cup {None} : AssignMonitor(d, e)
  \/ \E e \in Entities, hide \in BOOLEAN : SetDiscoveryState(e, hide)
  \/ \E e \in Entities : AddEntity(e) \/ RemoveEntity(e)
  \/ \E src, tgt \in Entities : Merge(src, tgt)

CatalogSpec == CatalogInit /\ [][CatalogNext]_catalogVars

-----------------------------------------------------------------------------
(* Every variable has its type, and only entities that exist are shelved,  *)
(* cabled or drawn.                                                        *)
CatalogTypeOK ==
  /\ WiringOK
  /\ entities \subseteq Entities
  /\ shelved \subseteq entities
  /\ uplink \in [Entities -> Devices \cup {None}]
  /\ monitor \in [Devices -> Entities \cup {None}]
  /\ nodes \subseteq entities
  /\ \A c \in cables : c.b \in Entities => c.b \in entities

(* The only thing that stops the drawing is a cable to an entity that is a *)
(* monitor or was shelved before it was ever drawn; no uplink and no trunk *)
(* does, and nothing else about entities coming, going and merging.        *)
OnlyUndrawnCablesBreak ==
  /\ HasNodes(TrunkLines \cup UplinkLines)
  /\ \A l \in EntityLines :
       l.ends \cap Entities \subseteq SyncedNodes \cup Monitors \cup (shelved \ nodes)
=============================================================================
