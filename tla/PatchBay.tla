------------------------------ MODULE PatchBay ------------------------------
(***************************************************************************)
(* The patch bay of the network manager: network devices with their ports, *)
(* the entities (hosts, clients) that hang on them, the cables between     *)
(* them and the port-less uplinks.                                         *)
(*                                                                         *)
(* FastAPI runs the synchronous handlers in a thread pool, and a handler   *)
(* validates with reads of its own before it opens the transaction that    *)
(* writes.  A handler is therefore two steps here: a Check that takes the  *)
(* reads as one snapshot and keeps what the handler carries over in        *)
(* req[r], and a Commit that is one SQLite transaction.  A commit that     *)
(* breaks a constraint of the schema is rolled back and changes nothing.   *)
(* A handler whose outcome does not depend on what it read is one step.    *)
(***************************************************************************)
EXTENDS Naturals, FiniteSets

CONSTANTS
  Devices,     \* ids of network devices (rows of physical_devices)
  Panels,      \* those that are created as a patch panel
  MaxPort,     \* most ports of a device (96 in PhysicalDeviceInput)
  Entities,    \* ids of entities
  Discovered,  \* those that a provider discovered and nobody promoted
  CableIds,    \* uuids for cables
  Requests,    \* handler threads: how many requests run at the same time
  None         \* SQL NULL

ASSUME PatchBayAssumption ==
  /\ Panels \subseteq Devices
  /\ MaxPort \in Nat \ {0}
  /\ Discovered \subseteq Entities
  /\ None \notin Devices \cup CableIds

Sides == {"front", "rear"}
Port == [dev: Devices, num: 1..MaxPort, side: Sides]

\* The far end of a cable is b_port_id or b_entity_id, never both.
ASSUME EndsAssumption == Entities \cap Port = {}
Endpoint == Port \cup Entities
Cable == [id: CableIds, a: Port, b: Endpoint]

VARIABLES
  devices,   \* the devices that exist
  ports,     \* the ports that exist
  entities,  \* the entities that exist
  uplink,    \* entities.uplink_device_id
  cables,    \* the rows of table cables
  unused,    \* uuids not handed out yet (uuid4 never repeats one)
  req        \* what each handler thread has validated but not committed

bay == <<devices, ports, entities, uplink, cables, unused>>
vars == <<devices, ports, entities, uplink, cables, unused, req>>

Idle == [kind |-> "idle"]

Request ==
  {Idle}
  \cup [kind: {"create"}, a: Port, b: Endpoint, move: {None}]
  \cup [kind: {"set"}, a: Port, b: Endpoint, move: CableIds \cup {None}]
  \cup [kind: {"uplink"}, e: Entities, dev: Devices \cup {None}]
  \cup [kind: {"merge"}, src: Entities, tgt: Entities, moves: BOOLEAN]
  \cup [kind: {"resize"}, dev: Devices, seen: Nat, n: 1..MaxPort]

-----------------------------------------------------------------------------
(* Operators named Bug... are mutants: plausible mistakes in the operator  *)
(* of the same shape that follows.  No specification uses them.            *)

\* create_device_ports starts one too low
BugPortRangeFromZero(d, lo, hi) ==
  {[dev |-> d, num |-> k - 1, side |-> s] :
     k \in lo..hi, s \in IF d \in Panels THEN Sides ELSE {"front"}}

\* range(first, last) instead of range(first, last + 1)
BugPortRangeShort(d, lo, hi) ==
  {p \in Port : /\ p.dev = d
                /\ p.num \in lo..(hi - 1)
                /\ p.side = "rear" => d \in Panels}

(* The ports numbered lo..hi of a device; a panel has a front and a rear.  *)
PortRange(d, lo, hi) ==
  {p \in Port : /\ p.dev = d
                /\ p.num \in lo..hi
                /\ p.side = "rear" => d \in Panels}

PortCount(d) == Cardinality({p.num : p \in {q \in ports : q.dev = d}})

Ends(c) == {c.a, c.b}
CablesAt(x) == {c \in cables : x \in Ends(c)}
Cabled(x) == CablesAt(x) # {}

\* foreign_keys off: nothing cascades
BugSurvivingAll(C, X) == C

(* ON DELETE CASCADE: the cables of C whose two ends are among X.          *)
Surviving(C, X) == {c \in C : Ends(c) \subseteq X}

\* occupancy tested in the column the end would be written to only
BugAdmissibleSameColumn(q) ==
  /\ q.a \in ports
  /\ q.b \in ports \cup entities
  /\ q.a # q.b
  /\ q.kind = "set" \/ \A c \in cables : c.a # q.a
  /\ \A c \in cables : c.b # q.b

(* validate_cable: a lookup that finds an occupied end returns one row, so *)
(* with two cables on it either may be the one that is excused.            *)
Admissible(q) ==
  LET replacing == q.kind = "set"
      excused(c) == c.id = q.move
  IN  /\ q.a \in ports
      /\ q.b \in ports \cup entities
      /\ q.a # q.b
      /\ replacing \/ CablesAt(q.a) = {} \/ \E c \in CablesAt(q.a) : excused(c)
      /\ \/ CablesAt(q.b) = {}
         \/ \E c \in CablesAt(q.b) :
              excused(c) \/ (replacing /\ q.b \in Entities /\ c.a = q.a)

\* no unique index on b_entity_id
BugInsertableNoEntityIndex(C, a, b) ==
  /\ a \in ports
  /\ b \in ports \cup entities
  /\ a # b
  /\ \A c \in C : c.a # a /\ (b \in Port => c.b # b)

(* What SQLite enforces on INSERT INTO cables: the foreign keys, the CHECK *)
(* and one unique index per column.                                        *)
Insertable(C, a, b) ==
  /\ a \in ports
  /\ b \in ports \cup entities
  /\ a # b
  /\ \A c \in C : c.a # a /\ c.b # b

\* the new cable leaves the uplink of its entity alone
BugInsertCableKeepsUplink(C, a, b) ==
  IF Insertable(C, a, b)
    THEN /\ \E id \in unused \cap CableIds :
              /\ cables' = C \cup {[id |-> id, a |-> a, b |-> b]}
              /\ unused' = unused \ {id}
         /\ UNCHANGED uplink
    ELSE UNCHANGED <<cables, unused, uplink>>

(* _insert_cable: the rows left by the transaction so far are C.  A cable  *)
(* clears the uplink of its entity.                                        *)
InsertCable(C, a, b) ==
  IF Insertable(C, a, b)
    THEN /\ \E id \in unused \cap CableIds :
              /\ cables' = C \cup {[id |-> id, a |-> a, b |-> b]}
              /\ unused' = unused \ {id}
         /\ uplink' = [e \in Entities |-> IF e = b THEN None ELSE uplink[e]]
    ELSE UNCHANGED <<cables, unused, uplink>>

-----------------------------------------------------------------------------
Init ==
  /\ devices = {}
  /\ ports = {}
  /\ entities = {}
  /\ uplink = [e \in Entities |-> None]
  /\ cables = {}
  /\ unused = Devices \cup Entities \cup CableIds
  /\ req = [r \in Requests |-> Idle]

Free(r) == req[r] = Idle
Accept(r, q) == Free(r) /\ req' = [req EXCEPT ![r] = q] /\ UNCHANGED bay
Done(r) == req' = [req EXCEPT ![r] = Idle]

(* POST /api/cables                                                        *)
CheckCreate(r, a, b) ==
  LET q == [kind |-> "create", a |-> a, b |-> b, move |-> None]
  IN  Admissible(q) /\ Accept(r, q)

CommitCreate(r) ==
  /\ req[r].kind = "create"
  /\ InsertCable(cables, req[r].a, req[r].b)
  /\ Done(r)
  /\ UNCHANGED <<devices, ports, entities>>

(* PUT /api/ports/{a}/cable: replace the cable on port a, optionally       *)
(* taking the cable "move" away from where it is.                          *)
CheckSet(r, a, b, move) ==
  LET q == [kind |-> "set", a |-> a, b |-> b, move |-> move]
  IN  Admissible(q) /\ Accept(r, q)

\* replacing forgets the cable that names the port in its b column
BugDisplacedByColumnA(q) == {c \in cables : c.a = q.a \/ c.id = q.move}

Displaced(q) == CablesAt(q.a) \cup {c \in cables : c.id = q.move}

CommitSet(r) ==
  LET q == req[r]
      stale == q.move # None /\ \A c \in cables : c.id # q.move
  IN  /\ q.kind = "set"
      /\ IF stale
           THEN UNCHANGED <<cables, unused, uplink>>
           ELSE InsertCable(cables \ Displaced(q), q.a, q.b)
      /\ Done(r)
      /\ UNCHANGED <<devices, ports, entities>>

(* DELETE /api/cables/{id} and DELETE /api/ports/{p}/cable                 *)
DeleteCable(r, c) ==
  /\ Free(r)
  /\ c \in cables
  /\ cables' = cables \ {c}
  /\ UNCHANGED <<devices, ports, entities, uplink, unused, req>>

ClearPort(r, p) ==
  /\ Free(r)
  /\ cables' = cables \ CablesAt(p)
  /\ UNCHANGED <<devices, ports, entities, uplink, unused, req>>

(* PUT /api/entities/{e}/uplink                                            *)
CheckUplink(r, e, d) ==
  /\ e \in entities
  /\ d # None => d \in devices /\ ~Cabled(e)
  /\ Accept(r, [kind |-> "uplink", e |-> e, dev |-> d])

CommitUplink(r) ==
  LET q == req[r]
  IN  /\ q.kind = "uplink"
      /\ IF q.e \in entities /\ q.dev \in devices \cup {None}
           THEN uplink' = [uplink EXCEPT ![q.e] = q.dev]
           ELSE UNCHANGED uplink
      /\ Done(r)
      /\ UNCHANGED <<devices, ports, entities, cables, unused>>

(* POST /api/entities/{src}/merge: the cable of the discovery moves to the *)
(* target if the check saw one; deleting the discovery cascades to a cable *)
(* that arrived since.                                                     *)
CheckMerge(r, src, tgt) ==
  /\ {src, tgt} \subseteq entities
  /\ src \in Discovered
  /\ src # tgt
  /\ ~(Cabled(src) /\ Cabled(tgt))
  /\ Accept(r, [kind |-> "merge", src |-> src, tgt |-> tgt, moves |-> Cabled(src)])

\* the merge forgets UPDATE cables
BugRehomedNot(c, src, tgt) == c

Rehomed(c, src, tgt) == IF c.b = src THEN [c EXCEPT !.b = tgt] ELSE c

CommitMerge(r) ==
  LET q == req[r]
      moving == q.moves /\ Cabled(q.src)
      refused == moving /\ (q.tgt \notin entities \/ Cabled(q.tgt))
  IN  /\ q.kind = "merge"
      /\ \/ /\ ~refused
            /\ cables' = IF moving THEN {Rehomed(c, q.src, q.tgt) : c \in cables}
                                   ELSE cables \ CablesAt(q.src)
            /\ entities' = entities \ {q.src}
            /\ uplink' = [uplink EXCEPT ![q.src] = None]
         \/ \* a foreign key to a target that is gone refuses other rows too
            /\ refused \/ q.tgt \notin entities
            /\ UNCHANGED <<cables, entities, uplink>>
      /\ Done(r)
      /\ UNCHANGED <<devices, ports, unused>>

(* POST /api/entities, or a provider sync that meets a new device          *)
CreateEntity(e) ==
  /\ e \in unused
  /\ entities' = entities \cup {e}
  /\ unused' = unused \ {e}
  /\ UNCHANGED <<devices, ports, uplink, cables, req>>

(* DELETE /api/entities/{e}: only what is not imported                     *)
DeleteEntity(r, e) ==
  /\ Free(r)
  /\ e \in entities \ Discovered
  /\ entities' = entities \ {e}
  /\ cables' = cables \ CablesAt(e)
  /\ uplink' = [uplink EXCEPT ![e] = None]
  /\ UNCHANGED <<devices, ports, unused, req>>

(* POST /api/physical-devices                                              *)
CreateDevice(r, d, n) ==
  /\ Free(r)
  /\ d \in unused
  /\ devices' = devices \cup {d}
  /\ ports' = ports \cup PortRange(d, 1, n)
  /\ unused' = unused \ {d}
  /\ UNCHANGED <<entities, uplink, cables, req>>

(* PATCH /api/physical-devices/{d} with n ports: refused while a cable is  *)
(* on a port that would go.  The commit works with the count it has seen.  *)
CheckResize(r, d, n) ==
  /\ d \in devices
  /\ n < PortCount(d) =>
       \A p \in ports : p.dev = d /\ p.num > n => ~Cabled(p)
  /\ Accept(r, [kind |-> "resize", dev |-> d, seen |-> PortCount(d), n |-> n])

CommitResize(r) ==
  LET q == req[r]
      removed == {p \in ports : q.n < q.seen /\ p.dev = q.dev /\ p.num > q.n}
      added == PortRange(q.dev, q.seen + 1, q.n)
      refused == added # {} /\ (q.dev \notin devices \/ added \cap ports # {})
  IN  /\ q.kind = "resize"
      /\ ports' = IF refused THEN ports ELSE (ports \ removed) \cup added
      /\ cables' = Surviving(cables, ports' \cup entities)
      /\ Done(r)
      /\ UNCHANGED <<devices, entities, uplink, unused>>

(* DELETE /api/physical-devices/{d}: ports and cables cascade, uplinks are *)
(* set to NULL.                                                            *)
DeleteDevice(r, d) ==
  /\ Free(r)
  /\ d \in devices
  /\ devices' = devices \ {d}
  /\ ports' = {p \in ports : p.dev # d}
  /\ cables' = Surviving(cables, ports' \cup entities)
  /\ uplink' = [e \in Entities |-> IF uplink[e] = d THEN None ELSE uplink[e]]
  /\ UNCHANGED <<entities, unused, req>>

(* The process stops and starts again: requests in flight are lost, an     *)
(* open transaction is rolled back.                                        *)
Restart ==
  /\ req' = [r \in Requests |-> Idle]
  /\ UNCHANGED bay

Check(r) ==
  \/ \E a \in ports, b \in ports \cup entities :
       \/ CheckCreate(r, a, b)
       \/ \E move \in {c.id : c \in cables} \cup {None} : CheckSet(r, a, b, move)
  \/ \E e \in entities, d \in devices \cup {None} : CheckUplink(r, e, d)
  \/ \E src, tgt \in entities : CheckMerge(r, src, tgt)
  \/ \E d \in devices, n \in 1..MaxPort : CheckResize(r, d, n)

Commit(r) ==
  CommitCreate(r) \/ CommitSet(r) \/ CommitUplink(r) \/ CommitMerge(r) \/ CommitResize(r)

OneStep(r) ==
  \/ \E c \in cables : DeleteCable(r, c)
  \/ \E p \in ports : ClearPort(r, p)
  \/ \E e \in entities : DeleteEntity(r, e)
  \/ \E d \in Devices, n \in 1..MaxPort : CreateDevice(r, d, n)
  \/ \E d \in devices : DeleteDevice(r, d)

Next ==
  \/ \E r \in Requests : Check(r) \/ Commit(r) \/ OneStep(r)
  \/ \E e \in Entities : CreateEntity(e)
  \/ Restart

Spec == Init /\ [][Next]_vars

-----------------------------------------------------------------------------
(* Every variable has its type.                                            *)
TypeOK ==
  /\ devices \subseteq Devices
  /\ ports \subseteq Port
  /\ entities \subseteq Entities
  /\ uplink \in [Entities -> Devices \cup {None}]
  /\ cables \subseteq Cable
  /\ unused \subseteq Devices \cup Entities \cup CableIds
  /\ req \in [Requests -> Request]

(* No port carries two cables, whichever column of table cables names it:  *)
(* the schema's unique indexes only guard each column, validate_cable has  *)
(* to guard the pair.                                                      *)
PortExclusive ==
  \A c, d \in cables : c # d => Ends(c) \cap Ends(d) \cap Port = {}

(* An entity hangs on at most one port, through every mix of new, replaced *)
(* and moved cables and of merges that carry a cable to another entity.    *)
EntityExclusive ==
  \A c, d \in cables : c # d => Ends(c) \cap Ends(d) \cap Entities = {}

(* No cable and no uplink points at something that is gone, whatever was   *)
(* shrunk, deleted or merged while the request that made it was in flight. *)
Anchored ==
  /\ \A c \in cables : Ends(c) \subseteq ports \cup entities
  /\ \A p \in ports : p.dev \in devices
  /\ \A e \in Entities : uplink[e] # None => e \in entities /\ uplink[e] \in devices

(* An entity has a cable or an uplink, never both: two answers to where a  *)
(* thing is connected.                                                     *)
CableXorUplink == \A e \in Entities : uplink[e] # None => ~Cabled(e)

(* While no merge is in flight, no step makes an entity have both.         *)
OnlyMergeClashes ==
  [][(\A r \in Requests : req[r].kind # "merge") /\ CableXorUplink
       => CableXorUplink']_vars

(* The ports of a device are numbered 1..n without a gap, front and rear   *)
(* for a panel: growing a device by number can only work while that holds. *)
PortsContiguous ==
  \A d \in devices : \E n \in 1..MaxPort :
    {p \in ports : p.dev = d} =
      {p \in Port : p.dev = d /\ p.num <= n /\ (p.side = "rear" => d \in Panels)}

(* A merge never loses the physical port of the pair: the target has a     *)
(* cable afterwards exactly when one of the two had one before.            *)
MergeKeepsCable ==
  [][\A r \in Requests :
       LET q == req[r]
       IN  q.kind = "merge" /\ req'[r] = Idle /\ q.src \in entities \ entities'
             => ((Cabled(q.src) \/ Cabled(q.tgt)) <=> (\E c \in cables' : c.b = q.tgt))]_vars

(* The abstract specification: what is plugged into what is a matching.    *)
Matching == INSTANCE CableMatching
              WITH Points <- Endpoint, links <- {Ends(c) : c \in cables}
ImplementsMatching == Matching!Spec
=============================================================================
