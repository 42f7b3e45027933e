---------------------------- MODULE TopologyTree ----------------------------
(***************************************************************************)
(* What people arrange by hand in the topology: which node hangs under     *)
(* which, groups, manual relations, and the undo of all that.  The tree    *)
(* has two sources: entities.parent_id, which every bootstrap projects     *)
(* onto the nodes whose parent_source is 'auto', and the parents somebody  *)
(* picked in the editor.                                                   *)
(*                                                                         *)
(* A handler checks, captures a snapshot for undo and then writes in a     *)
(* transaction of its own; check and capture are one step here, the write  *)
(* another.  A write that breaks a foreign key or answers 404 leaves its   *)
(* snapshot behind.  Positions, labels and colours are left out.           *)
(***************************************************************************)
EXTENDS Inventory, Naturals, FiniteSets, Sequences, TLC

CONSTANTS
  Groups,       \* ids of topology groups
  Pairs,        \* the (from, to) that people try to relate by hand
  MaxHistory,   \* snapshots kept (50 in capture_topology)
  Requests      \* handler threads

Node == Entities \cup Groups

ASSUME TopologyTreeAssumption ==
  /\ Entities \cap Groups = {}
  /\ None \notin Node
  /\ Pairs \subseteq Node \X Node
  /\ MaxHistory \in Nat

VARIABLES
  parentId,   \* entities.parent_id
  monitors,   \* the entities that some network device has as its monitor
  topology,   \* topology_nodes and the manual topology_relations
  history,    \* topology_history, oldest first
  unused,     \* uuids not handed out yet
  req         \* what each handler thread still has to write

inventory == <<entities, parentId, monitors>>
vars == <<inventory, topology, history, unused, req>>

Topology ==
  [nodes: SUBSET Node, parent: [Node -> Node \cup {None}],
   manual: SUBSET Node, relations: SUBSET (Node \X Node)]

Idle == [kind |-> "idle"]
Request ==
  {Idle}
  \cup [kind: {"update"}, node: Node, parent: Node \cup {None}]
  \cup [kind: {"create_group"}, members: SUBSET Node]
  \cup [kind: {"group"}, members: SUBSET Node, group: Groups]
  \cup [kind: {"delete_group"}, group: Groups]
  \cup [kind: {"relate", "unrelate"}, pair: Node \X Node]

-----------------------------------------------------------------------------
(* A chain of parents, seen from a node: the smallest set that holds the   *)
(* node's parent and the parent of everything in it.  It may bite its own  *)
(* tail.                                                                   *)
Chain(parent, node) ==
  LET closed == {s \in SUBSET Node : \A n \in s \cup {node} : parent[n] \in s \cup {None}}
  IN  {n \in Node : \A s \in closed : n \in s}

Circular(parent, node) == node \in Chain(parent, node)

\* only direct children are refused as a parent
BugBelow(node) == {n \in topology.nodes : topology.parent[n] = node}

(* WITH RECURSIVE tree: everything under a node.                           *)
Below(node) == {n \in topology.nodes : node \in Chain(topology.parent, n)}

(* The recursive query has UNION ALL: it only ends on a tree.              *)
MayHang(node, parent) ==
  /\ ~Circular(topology.parent, node)
  /\ parent \notin Below(node)

(* DELETE FROM topology_nodes: children come loose, relations cascade.     *)
WithoutNodes(t, gone) ==
  [t EXCEPT !.nodes = @ \ gone,
            !.parent = [n \in Node |-> IF n \in gone \/ @[n] \in gone THEN None ELSE @[n]],
            !.manual = @ \ gone,
            !.relations = {r \in @ : r[1] \notin gone /\ r[2] \notin gone}]

WithParent(t, changed, parent) ==
  [t EXCEPT !.parent = [n \in Node |-> IF n \in changed THEN parent ELSE @[n]],
            !.manual = @ \cup changed]

\* the oldest snapshot that may stay is one too old
BugCaptured ==
  LET all == Append(history, topology)
  IN  IF Len(all) > MaxHistory + 1 THEN Tail(all) ELSE all

(* capture_topology: the newest MaxHistory snapshots stay.                 *)
Captured ==
  LET all == Append(history, topology)
  IN  IF Len(all) > MaxHistory THEN Tail(all) ELSE all

-----------------------------------------------------------------------------
Init ==
  /\ entities = {}
  /\ parentId = [e \in Entities |-> None]
  /\ monitors = {}
  /\ topology = [nodes |-> {}, parent |-> [n \in Node |-> None],
                 manual |-> {}, relations |-> {}]
  /\ history = << >>
  /\ unused = Node
  /\ req = [r \in Requests |-> Idle]

(* The first step of a handler that captures a snapshot.                   *)
Begin(r, q) ==
  /\ history' = Captured
  /\ req' = [req EXCEPT ![r] = q]
  /\ UNCHANGED <<inventory, topology, unused>>

(* The transaction that ends a handler.                                    *)
Write(r, kind, allowed, result) ==
  /\ req[r].kind = kind
  /\ topology' = IF allowed THEN result ELSE topology
  /\ req' = [req EXCEPT ![r] = Idle]
  /\ UNCHANGED <<inventory, history, unused>>

(* PATCH /api/topology/nodes/{node}                                        *)
BeginUpdate(r, node, parent) ==
  /\ parent # node
  /\ parent # None => parent \in topology.nodes /\ MayHang(node, parent)
  /\ Begin(r, [kind |-> "update", node |-> node, parent |-> parent])

WriteUpdate(r) ==
  LET q == req[r]
  IN  Write(r, "update",
            q.node \in topology.nodes /\ q.parent \in topology.nodes \cup {None},
            WithParent(topology, {q.node}, q.parent))

(* PATCH /api/topology/group-selection                                     *)
BeginGroup(r, members, group) ==
  /\ group \in topology.nodes
  /\ members # {} /\ members \subseteq topology.nodes \ {group}
  /\ \A n \in members : MayHang(n, group)
  /\ Begin(r, [kind |-> "group", members |-> members, group |-> group])

WriteGroup(r) ==
  LET q == req[r]
  IN  Write(r, "group", q.group \in topology.nodes,
            WithParent(topology, q.members \cap topology.nodes, q.group))

(* POST /api/topology/groups: the group is inserted in one transaction and *)
(* its members are moved in the next.  Nobody checks that they exist.      *)
BeginCreateGroup(r, members) ==
  Begin(r, [kind |-> "create_group", members |-> members])

WriteCreateGroup(r) ==
  LET q == req[r]
  IN  /\ q.kind = "create_group"
      /\ \E group \in unused \cap Groups :
           /\ topology' = [topology EXCEPT !.nodes = @ \cup {group}]
           /\ unused' = unused \ {group}
           /\ req' = [req EXCEPT ![r] =
                IF q.members = {} THEN Idle
                ELSE [kind |-> "group", members |-> q.members, group |-> group]]
      /\ UNCHANGED <<inventory, history>>

(* DELETE /api/topology/groups/{group}                                     *)
BeginDeleteGroup(r, group) ==
  /\ group \in topology.nodes
  /\ Begin(r, [kind |-> "delete_group", group |-> group])

WriteDeleteGroup(r) ==
  LET q == req[r]
  IN  Write(r, "delete_group", TRUE, WithoutNodes(topology, {q.group}))

(* POST /api/topology/relations; a duplicate, a self-relation or a missing *)
(* node is refused after the capture.                                      *)
BeginRelate(r, pair) == Begin(r, [kind |-> "relate", pair |-> pair])

WriteRelate(r) ==
  LET q == req[r]
  IN  Write(r, "relate",
            q.pair[1] # q.pair[2] /\ {q.pair[1], q.pair[2]} \subseteq topology.nodes,
            [topology EXCEPT !.relations = @ \cup {q.pair}])

(* DELETE /api/topology/relations/{relation}                               *)
BeginUnrelate(r, pair) ==
  /\ pair \in topology.relations
  /\ Begin(r, [kind |-> "unrelate", pair |-> pair])

WriteUnrelate(r) ==
  LET q == req[r]
  IN  Write(r, "unrelate", TRUE, [topology EXCEPT !.relations = @ \ {q.pair}])

(* PATCH .../position, PATCH /api/topology/positions, POST layout/reset:   *)
(* only the snapshot shows here.                                           *)
Move(r) ==
  /\ history' = Captured
  /\ UNCHANGED <<inventory, topology, unused, req>>

\* the parents of before the undo are not cleared first
BugRestored(snapshot) ==
  LET old == WithoutNodes(topology, Groups)
      known == snapshot.nodes \cap (old.nodes \cup Groups)
  IN  [nodes |-> old.nodes \cup (snapshot.nodes \cap Groups),
       parent |-> [n \in Node |-> IF n \in known /\ snapshot.parent[n] # None
                                   THEN snapshot.parent[n] ELSE old.parent[n]],
       manual |-> (old.manual \ known) \cup (snapshot.manual \cap known),
       relations |-> snapshot.relations]

(* undo_topology: groups and manual relations are replaced by those of the *)
(* snapshot, every other node that still exists gets its old place back,   *)
(* and a node that is newer than the snapshot stays as it is.              *)
Restored(snapshot) ==
  LET old == WithoutNodes(topology, Groups)
      known == snapshot.nodes \cap (old.nodes \cup Groups)
  IN  [nodes |-> old.nodes \cup (snapshot.nodes \cap Groups),
       parent |-> [n \in Node |-> IF n \in known THEN snapshot.parent[n] ELSE old.parent[n]],
       manual |-> (old.manual \ known) \cup (snapshot.manual \cap known),
       relations |-> snapshot.relations]

(* No foreign key is broken.                                               *)
Sound(t) ==
  /\ \A n \in t.nodes : t.parent[n] \in t.nodes \cup {None}
  /\ \A r \in t.relations : {r[1], r[2]} \subseteq t.nodes

Undoable == history # << >> => Sound(Restored(history[Len(history)]))

(* POST /api/topology/undo; a refused undo keeps its snapshot.             *)
Undo(r) ==
  /\ history # << >>
  /\ IF Undoable
       THEN /\ topology' = Restored(history[Len(history)])
            /\ history' = SubSeq(history, 1, Len(history) - 1)
       ELSE UNCHANGED <<topology, history>>
  /\ UNCHANGED <<inventory, unused, req>>

-----------------------------------------------------------------------------
\* the parent of every node is overwritten, picked by hand or not
BugSynced ==
  LET t == WithoutNodes(topology, monitors)
      drawn == entities \ monitors
      nodes == t.nodes \cup drawn
  IN  [t EXCEPT !.nodes = nodes,
                !.parent = [n \in Node |->
                   IF n \in drawn
                     THEN IF parentId[n] \in nodes THEN parentId[n] ELSE None
                     ELSE @[n]]]

(* sync_topology_catalog, nodes and parents.                               *)
Synced ==
  LET t == WithoutNodes(topology, monitors)
      drawn == entities \ monitors
      nodes == t.nodes \cup drawn
  IN  [t EXCEPT !.nodes = nodes,
                !.parent = [n \in Node |->
                   IF n \in drawn \ t.manual
                     THEN IF parentId[n] \in nodes THEN parentId[n] ELSE None
                     ELSE @[n]]]

(* GET /api/bootstrap                                                      *)
Sync ==
  /\ topology' = Synced
  /\ UNCHANGED <<inventory, history, unused, req>>

(* POST /api/entities                                                      *)
CreateEntity(e) ==
  /\ e \in unused
  /\ entities' = entities \cup {e}
  /\ unused' = unused \ {e}
  /\ UNCHANGED <<parentId, monitors, topology, history, req>>

(* DELETE /api/entities/{e}                                                *)
DeleteEntity(e) ==
  /\ e \in entities
  /\ entities' = entities \ {e}
  /\ parentId' = [x \in Entities |-> IF x = e \/ parentId[x] = e THEN None ELSE parentId[x]]
  /\ monitors' = monitors \ {e}
  /\ topology' = WithoutNodes(topology, {e})
  /\ UNCHANGED <<history, unused, req>>

(* The manual relations of src become relations of tgt, but for the one    *)
(* between the two; what hangs under the node of src comes loose.          *)
Merged(src, tgt) ==
  LET renamed(n) == IF n = src THEN tgt ELSE n
      moved == {<<renamed(r[1]), renamed(r[2])>> : r \in topology.relations}
  IN  [WithoutNodes(topology, {src}) EXCEPT !.relations = {r \in moved : r[1] # r[2]}]

(* In the inventory the children of src go to tgt.  If tgt itself is below *)
(* src it takes the place of src first.                                    *)
Adopted(src, tgt) ==
  LET inside == src \in Chain(parentId @@ [g \in Groups |-> None], tgt)
      above == IF parentId[src] = tgt THEN None ELSE parentId[src]
  IN  [e \in Entities |->
         IF e = src THEN None
         ELSE IF e = tgt THEN IF inside THEN above ELSE parentId[e]
         ELSE IF parentId[e] = src THEN tgt
         ELSE parentId[e]]

(* POST /api/entities/{src}/merge, of a discovery, as any entity may be.   *)
(* A relation that moves needs the node of tgt, which may never have been  *)
(* drawn: then all is rolled back.                                         *)
MergeEntity(src, tgt) ==
  /\ {src, tgt} \subseteq entities
  /\ src # tgt
  /\ IF Sound(Merged(src, tgt))
       THEN /\ entities' = entities \ {src}
            /\ parentId' = Adopted(src, tgt)
            /\ monitors' = monitors \ {src}
            /\ topology' = Merged(src, tgt)
       ELSE UNCHANGED <<inventory, topology>>
  /\ UNCHANGED <<history, unused, req>>

(* PUT /api/entities/{e}/parent                                            *)
SetEntityParent(e, p) ==
  /\ e \in entities
  /\ p \in entities \cup {None}
  /\ p # e
  /\ p # None => e \notin Chain(parentId @@ [g \in Groups |-> None], p)
  /\ parentId' = [parentId EXCEPT ![e] = p]
  /\ UNCHANGED <<entities, monitors, topology, history, unused, req>>

(* PATCH /api/physical-devices/{device}: e starts or stops being a monitor *)
SetMonitor(e) ==
  /\ e \in entities
  /\ monitors' = IF e \in monitors THEN monitors \ {e} ELSE monitors \cup {e}
  /\ UNCHANGED <<entities, parentId, topology, history, unused, req>>

(* The process stops and starts again in the middle of its handlers.       *)
Restart ==
  /\ req' = [r \in Requests |-> Idle]
  /\ UNCHANGED <<inventory, topology, history, unused>>

(* A handler thread has one request at a time.                             *)
Edit(r) ==
  /\ req[r] = Idle
  /\ \/ \E n \in Node, p \in topology.nodes \cup {None} : BeginUpdate(r, n, p)
     \/ \E members \in SUBSET topology.nodes :
          \/ BeginCreateGroup(r, members)
          \/ \E g \in Groups : BeginGroup(r, members, g)
     \/ \E g \in Groups : BeginDeleteGroup(r, g)
     \/ \E pair \in Pairs : BeginRelate(r, pair)
     \/ \E pair \in topology.relations : BeginUnrelate(r, pair)
     \/ Move(r)
     \/ Undo(r)

Finish(r) ==
  \/ WriteUpdate(r) \/ WriteGroup(r) \/ WriteCreateGroup(r)
  \/ WriteDeleteGroup(r) \/ WriteRelate(r) \/ WriteUnrelate(r)

Next ==
  \/ \E r \in Requests : Edit(r) \/ Finish(r)
  \/ \E e \in Entities : CreateEntity(e) \/ DeleteEntity(e) \/ SetMonitor(e)
  \/ \E e \in Entities, p \in Entities \cup {None} : SetEntityParent(e, p)
  \/ \E src, tgt \in Entities : MergeEntity(src, tgt)
  \/ Sync
  \/ Restart

Spec == Init /\ [][Next]_vars

-----------------------------------------------------------------------------
(* Every variable has its type, and what SQLite holds is consistent after  *)
(* every sync, edit, cascade and undo: nothing hangs under, or is related  *)
(* to, a node that is gone.                                                *)
TypeOK ==
  /\ entities \subseteq Entities
  /\ parentId \in [Entities -> Entities \cup {None}]
  /\ monitors \subseteq entities
  /\ topology \in Topology /\ Sound(topology)
  /\ history \in Seq(Topology) /\ Len(history) <= MaxHistory
  /\ unused \subseteq Node
  /\ req \in [Requests -> Request]

(* With one client at a time every circle runs over a parent that came     *)
(* from the inventory: no sequence of edits, groupings, group deletions    *)
(* and undos closes a circle of hand-picked parents.                       *)
NoHandmadeCircle ==
  \A n \in topology.manual :
    LET picked == [m \in Node |-> IF m \in topology.manual THEN topology.parent[m] ELSE None]
    IN  ~Circular(picked, n)

(* A bootstrap leaves alone what was arranged by hand, except under and    *)
(* around the node of a monitor, which it removes.                         *)
SyncKeepsHandwork ==
  [][Sync =>
       /\ \A n \in topology.manual \ monitors :
            /\ n \in topology'.manual
            /\ topology'.parent[n] = topology.parent[n] \/ topology.parent[n] \in monitors
       /\ \A r \in topology.relations \ topology'.relations : {r[1], r[2]} \cap monitors # {}
    ]_vars

(* Undo takes back the whole edit: if no entity came or went since the     *)
(* snapshot, the tree, the groups and the relations are those of then.     *)
UndoIsExact ==
  [][\A r \in Requests :
       history # history' /\ Undo(r)
         /\ history[Len(history)].nodes \cap Entities = topology.nodes \cap Entities
         => topology' = history[Len(history)]]_vars
=============================================================================
