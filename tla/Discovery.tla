------------------------------ MODULE Discovery ------------------------------
(***************************************************************************)
(* A network scan (provider DHCP/ARP) that keeps finding devices, and the  *)
(* people who adopt, edit, merge, remap and delete what it found.          *)
(*                                                                         *)
(* sync_one takes a scan, then stores each address it found: a read of its *)
(* record, a read of the entity, a read and a transaction per conflict, a  *)
(* transaction that writes the entity and another that writes the record   *)
(* with its observation.  The transactions of users and of the             *)
(* housekeeping fall anywhere between those steps.  A constraint that      *)
(* breaks ends the sync; the next poll starts over.                        *)
(*                                                                         *)
(* One provider, whose external id of a record is the address.  Fields of  *)
(* an entity that behave like another one (type, hostname, vendor) are     *)
(* left out, and so is the parent, which a scan does not set.              *)
(***************************************************************************)
EXTENDS Naturals, FiniteSets

CONSTANTS
  Entities,     \* ids of entities
  Ips,          \* addresses in the scanned subnet
  Macs,         \* MAC addresses
  None,         \* SQL NULL
  Silent,       \* nothing answers at an address
  UsersAct,     \* in which phases of the sync users may act
  LanMoves,     \* in which phases the network may change
  MaxMerges,    \* how many merges may be between their check and their commit
  MaxRestarts   \* how often the process may stop and start again

ASSUME DiscoveryAssumption ==
  /\ None \notin Entities \cup Ips \cup Macs
  /\ Silent \notin Macs \cup {None}
  /\ UsersAct \cup LanMoves \subseteq
       {"idle", "next", "match", "write", "conflict", "record", "absent"}
  /\ MaxMerges \in Nat
  /\ MaxRestarts \in Nat

VARIABLES
  lan,        \* what answers at an address: a MAC, None (only to ping) or Silent
  entities,   \* the entities that exist
  info,       \* their origin, name, ip_address and mac_address
  status,     \* entities.status
  record,     \* provider_records: address to entity; Silent: no record
  conflicts,  \* per possible conflict: none, open, resolved, or stored twice
  merges,     \* the merges whose check has passed
  overtaken,  \* history: the source of such a merge was promoted
  sync,       \* where the sync thread is
  restarts

requests == <<merges, overtaken>>
users == <<entities, info, record, conflicts, requests>>
vars == <<lan, entities, info, status, record, conflicts, merges, overtaken, sync, restarts>>

\* A scan always reports the name it sees; a person may choose another.
Names == {"seen", "own"}
Origins == {"manual", "discovered"}
Info == [origin: Origins, name: Names,
         ip: Ips \cup {None}, mac: Macs \cup {None}]
Nobody == [origin |-> "discovered", name |-> "seen", ip |-> None, mac |-> None]

\* A conflict is about a manual value and a different one that the scan saw.
ConflictKey ==
  [e: Entities, field: {"name"}, manual: Names \ {"seen"}, seen: {"seen"}]
    \cup {k \in [e: Entities, field: {"mac"}, manual: Macs, seen: Macs] : k.manual # k.seen}

Idle == [phase |-> "idle"]
Running == [todo: SUBSET Ips, found: [Ips -> Macs \cup {None, Silent}]]
Sync ==
  {Idle}
  \cup [phase: {"next"}, scan: Running]
  \cup [phase: {"match"}, scan: Running, ip: Ips, e: Entities \cup {None}]
  \cup [phase: {"write", "conflict"}, scan: Running, ip: Ips, e: Entities \cup {None},
        was: Origins, left: SUBSET ConflictKey]
  \cup [phase: {"record"}, scan: Running, ip: Ips, e: Entities]
  \cup [phase: {"absent"}, scan: Running, absent: SUBSET Entities]

(* An id is never used again; here, not while a request or the sync has it. *)
Held ==
  UNION {{m[1], m[2]} : m \in merges}
    \cup (IF sync.phase \in {"match", "write", "conflict", "record"} THEN {sync.e} ELSE {})
    \cup (IF sync.phase = "absent" THEN sync.absent ELSE {})
Fresh == Entities \ (entities \cup Held)

HolderOf(mac) == {e \in entities : mac # None /\ info[e].mac = mac}

-----------------------------------------------------------------------------
Init ==
  /\ lan = [x \in Ips |-> Silent]
  /\ entities = {}
  /\ info = [e \in Entities |-> Nobody]
  /\ status = [e \in Entities |-> "unknown"]
  /\ record = [x \in Ips |-> Silent]
  /\ conflicts = [k \in ConflictKey |-> "none"]
  /\ merges = {}
  /\ overtaken = FALSE
  /\ sync = Idle
  /\ restarts = 0

(* The network: a device shows up, leaves or gets another address.         *)
Network(x, m) ==
  /\ sync.phase \in LanMoves
  /\ m # lan[x]
  /\ m \in Macs => \A y \in Ips : lan[y] # m
  /\ lan' = [lan EXCEPT ![x] = m]
  /\ UNCHANGED <<users, status, sync, restarts>>

(* sync_one, _sync_dhcp_arp: the addresses that answer now, or those of    *)
(* them that were reached before the scan was cut off (SCAN_TIMEOUT): the  *)
(* subnet counts as scanned all the same.                                  *)
Scan ==
  /\ sync = Idle
  /\ \E heard \in SUBSET {x \in Ips : lan[x] # Silent} :
       sync' = [phase |-> "next",
                scan |-> [todo |-> heard,
                          found |-> [x \in Ips |-> IF x \in heard THEN lan[x] ELSE Silent]]]
  /\ UNCHANGED <<lan, users, status, restarts>>

(* _store_record: which entity the record of this address points at.       *)
ReadRecord(x) ==
  /\ sync.phase = "next"
  /\ x \in sync.scan.todo
  /\ sync' = [phase |-> "match", scan |-> [sync.scan EXCEPT !.todo = @ \ {x}], ip |-> x,
              e |-> IF record[x] \in entities THEN record[x] ELSE None]
  /\ UNCHANGED <<lan, users, status, restarts>>

(* What a scan may report of a manual entity: where it says otherwise.     *)
Differences(e, mac) ==
  {k \in ConflictKey :
     /\ k.e = e /\ info[e].origin = "manual"
     /\ \/ k.field = "name" /\ k.manual = info[e].name
        \/ k.field = "mac" /\ k.manual = info[e].mac /\ k.seen = mac}

(* Which entity an observation belongs to: the one that its record named,  *)
(* if it is still there, then the one with its MAC.                        *)
Matches(e, mac) == IF e \in entities THEN {e} ELSE HolderOf(mac)

Match ==
  /\ sync.phase = "match"
  /\ LET mac == sync.scan.found[sync.ip]
         Matched(e, was, left) ==
           [phase |-> "write", scan |-> sync.scan, ip |-> sync.ip, e |-> e, was |-> was,
            left |-> left]
     IN  IF Matches(sync.e, mac) = {}
           THEN sync' = Matched(None, "discovered", {})
           ELSE \E e \in Matches(sync.e, mac) :
                  sync' = Matched(e, info[e].origin, Differences(e, mac))
  /\ UNCHANGED <<lan, users, status, restarts>>

\* a resolved conflict is not looked for
BugKnown(k) == conflicts[k] \in {"open", "twice"}

(* _record_manual_conflicts: one that was ever reported is not repeated.   *)
Known(k) == conflicts[k] # "none"

\* The name is compared before the MAC.
First(left) == CHOOSE k \in left : \A other \in left : other.field = "name" => k.field = "name"

LookUpConflict ==
  /\ sync.phase = "write" /\ sync.left # {}
  /\ sync' = IF Known(First(sync.left))
               THEN [sync EXCEPT !.left = @ \ {First(@)}]
               ELSE [sync EXCEPT !.phase = "conflict"]
  /\ UNCHANGED <<lan, users, status, restarts>>

(* A transaction of its own for each conflict.  Its entity may be gone.    *)
InsertConflict ==
  /\ sync.phase = "conflict"
  /\ IF sync.e \in entities
       THEN /\ conflicts' = [conflicts EXCEPT ![First(sync.left)] =
                               IF @ = "none" THEN "open" ELSE "twice"]
            /\ sync' = [sync EXCEPT !.phase = "write", !.left = @ \ {First(@)}]
       ELSE sync' = Idle /\ UNCHANGED conflicts
  /\ UNCHANGED <<lan, entities, info, status, record, requests, restarts>>

Observed(was, x, mac) ==
  [was EXCEPT !.name = "seen", !.ip = x, !.mac = IF mac = None THEN @ ELSE mac]

Written(e) == [phase |-> "record", scan |-> sync.scan, ip |-> sync.ip, e |-> e]

\* the scan may write into a manual entity
BugWriteManual ==
  LET mac == sync.scan.found[sync.ip]
  IN  /\ sync.phase = "write" /\ sync.e # None /\ sync.left = {}
      /\ info' = IF sync.e \in entities /\ HolderOf(mac) \subseteq {sync.e}
                   THEN [info EXCEPT ![sync.e] = Observed(@, sync.ip, mac)] ELSE info
      /\ status' = [status EXCEPT ![sync.e] = IF sync.e \in entities THEN "up" ELSE @]
      /\ sync' = Written(sync.e)
      /\ UNCHANGED <<lan, entities, record, conflicts, requests, restarts>>

(* _store_record, an entity that was manual when it was matched: only its  *)
(* status is written, once what differs has become a conflict.             *)
WriteManual ==
  /\ sync.phase = "write" /\ sync.e # None /\ sync.was = "manual"
  /\ sync.left = {}
  /\ status' = [status EXCEPT ![sync.e] = IF sync.e \in entities THEN "up" ELSE @]
  /\ sync' = Written(sync.e)
  /\ UNCHANGED <<lan, users, restarts>>

(* One that was a discovery when it was matched: the scan overwrites its   *)
(* identity, unless another entity has that MAC.                           *)
WriteDiscovered ==
  /\ sync.phase = "write" /\ sync.e # None /\ sync.was = "discovered"
  /\ LET mac == sync.scan.found[sync.ip]
         there == sync.e \in entities
     IN  IF there /\ HolderOf(mac) \ {sync.e} # {}
           THEN sync' = Idle /\ UNCHANGED <<info, status>>
           ELSE /\ info' = IF there THEN [info EXCEPT ![sync.e] = Observed(@, sync.ip, mac)]
                                    ELSE info
                /\ status' = [status EXCEPT ![sync.e] = IF there THEN "up" ELSE @]
                /\ sync' = Written(sync.e)
  /\ UNCHANGED <<lan, entities, record, conflicts, requests, restarts>>

(* One that matched nothing: a new discovery.                              *)
WriteNew ==
  /\ sync.phase = "write" /\ sync.e = None
  /\ LET mac == sync.scan.found[sync.ip]
     IN  IF HolderOf(mac) # {}
           THEN sync' = Idle /\ UNCHANGED <<entities, info, status>>
           ELSE \E e \in Fresh :
                  /\ entities' = entities \cup {e}
                  /\ info' = [info EXCEPT ![e] = Observed(Nobody, sync.ip, mac)]
                  /\ status' = [status EXCEPT ![e] = "up"]
                  /\ sync' = Written(e)
  /\ UNCHANGED <<lan, record, conflicts, requests, restarts>>

\* the foreign key of the record is not enforced
BugStoreRecord ==
  /\ sync.phase = "record"
  /\ record' = [record EXCEPT ![sync.ip] = sync.e]
  /\ sync' = [phase |-> "next", scan |-> sync.scan]
  /\ UNCHANGED <<lan, entities, info, status, conflicts, requests, restarts>>

(* The provider record, of an entity that still exists.                    *)
StoreRecord ==
  /\ sync.phase = "record"
  /\ IF sync.e \in entities
       THEN /\ record' = [record EXCEPT ![sync.ip] = sync.e]
            /\ sync' = [phase |-> "next", scan |-> sync.scan]
       ELSE sync' = Idle /\ UNCHANGED record
  /\ UNCHANGED <<lan, entities, info, status, conflicts, requests, restarts>>

\* an entity is missing when an address it ever had is silent
BugAbsent(found) ==
  {e \in entities : /\ status[e] # "down"
                    /\ \E x \in Ips : record[x] = e /\ found[x] = Silent}

(* The entities the scan looked for, through a record and an address, and  *)
(* did not find.                                                           *)
Absent(found) ==
  {e \in entities : /\ status[e] # "down"
                    /\ \E x \in Ips : record[x] = e
                    /\ info[e].ip # None /\ found[info[e].ip] = Silent}

(* _mark_absent, its reads.                                                *)
MarkAbsent ==
  /\ sync.phase = "next" /\ sync.scan.todo = {}
  /\ LET absent == Absent(sync.scan.found)
     IN  sync' = IF absent = {} THEN Idle ELSE [phase |-> "absent", scan |-> sync.scan, absent |-> absent]
  /\ UNCHANGED <<lan, users, status, restarts>>

\* what is missing becomes unknown
BugWriteAbsent ==
  /\ sync.phase = "absent"
  /\ status' = IF sync.absent \subseteq entities
                 THEN [e \in Entities |-> IF e \in sync.absent THEN "unknown" ELSE status[e]]
                 ELSE status
  /\ sync' = Idle
  /\ UNCHANGED <<lan, users, restarts>>

(* _mark_absent, its transaction: an entity deleted since then cannot have *)
(* an observation, which undoes it for the others too.                     *)
WriteAbsent ==
  /\ sync.phase = "absent"
  /\ status' = IF sync.absent \subseteq entities
                 THEN [e \in Entities |-> IF e \in sync.absent THEN "down" ELSE status[e]]
                 ELSE status
  /\ sync' = Idle
  /\ UNCHANGED <<lan, users, restarts>>

-----------------------------------------------------------------------------
(* The housekeeping finds no status observation that has not expired: the  *)
(* status is forgotten, possibly before the sync stores a new observation. *)
Expire(e) ==
  /\ status[e] # "unknown"
  /\ status' = [status EXCEPT ![e] = "unknown"]
  /\ UNCHANGED <<lan, users, sync, restarts>>

UserMayAct == sync.phase \in UsersAct

(* POST /api/entities/{e}/promote                                          *)
Promote(e, name) ==
  /\ UserMayAct
  /\ e \in entities /\ info[e].origin = "discovered"
  /\ info' = [info EXCEPT ![e].origin = "manual", ![e].name = name]
  /\ overtaken' = (overtaken \/ \E m \in merges : m[1] = e)
  /\ UNCHANGED <<lan, entities, status, record, conflicts, merges, sync, restarts>>

(* PATCH /api/entities/{e}                                                 *)
UpdateEntity(e, name, ip, mac) ==
  /\ UserMayAct
  /\ e \in entities /\ info[e].origin = "manual"
  /\ HolderOf(mac) \subseteq {e}
  /\ info' = [info EXCEPT ![e] = [@ EXCEPT !.name = name, !.ip = ip, !.mac = mac]]
  /\ UNCHANGED <<lan, entities, status, record, conflicts, requests, sync, restarts>>

(* What DELETE FROM entities does to the rows that refer to e.             *)
Remove(e) ==
  /\ entities' = entities \ {e}
  /\ info' = [info EXCEPT ![e] = Nobody]
  /\ status' = [status EXCEPT ![e] = "unknown"]

(* POST /api/entities                                                      *)
CreateEntity(e, ip, mac) ==
  /\ UserMayAct
  /\ e \in Fresh
  /\ HolderOf(mac) = {}
  /\ entities' = entities \cup {e}
  /\ info' = [info EXCEPT ![e] = [origin |-> "manual", name |-> "own", ip |-> ip, mac |-> mac]]
  /\ UNCHANGED <<lan, status, record, conflicts, requests, sync, restarts>>

(* DELETE /api/entities/{e}                                                *)
DeleteEntity(e) ==
  /\ UserMayAct
  /\ e \in entities /\ info[e].origin = "manual"
  /\ Remove(e)
  /\ record' = [x \in Ips |-> IF record[x] = e THEN None ELSE record[x]]
  /\ conflicts' = [k \in ConflictKey |-> IF k.e = e THEN "none" ELSE conflicts[k]]
  /\ UNCHANGED <<lan, requests, sync, restarts>>

(* POST /api/entities/{src}/merge, its check.                              *)
ValidateMerge(src, tgt) ==
  /\ UserMayAct
  /\ Cardinality(merges) < MaxMerges
  /\ {src, tgt} \subseteq entities /\ src # tgt /\ info[src].origin = "discovered"
  /\ merges' = merges \cup {<<src, tgt>>}
  /\ UNCHANGED <<lan, entities, info, status, record, conflicts, overtaken, sync, restarts>>

HasRows(e) ==
  \/ \E x \in Ips : record[x] = e
  \/ \E k \in ConflictKey : k.e = e /\ conflicts[k] # "none"

(* Its transaction.  Rows cannot move to a target that is gone: the source *)
(* stays (without rows here, it may still have observations or children).  *)
CommitMerge(src, tgt) ==
  /\ UserMayAct
  /\ <<src, tgt>> \in merges
  /\ merges' = merges \ {<<src, tgt>>}
  /\ \/ /\ src \in entities
        /\ tgt \in entities \/ ~HasRows(src)
        /\ Remove(src)
        /\ record' = [x \in Ips |-> IF record[x] = src THEN tgt ELSE record[x]]
        /\ conflicts' = [k \in ConflictKey |->
             IF k.e = src THEN "none"
             ELSE IF k.e # tgt \/ conflicts[[k EXCEPT !.e = src]] = "none" THEN conflicts[k]
             ELSE IF conflicts[k] = "none" THEN conflicts[[k EXCEPT !.e = src]]
             ELSE "twice"]
     \/ /\ {src, tgt} \ entities # {}
        /\ UNCHANGED <<entities, info, status, record, conflicts>>
  /\ UNCHANGED <<lan, overtaken, sync, restarts>>

(* PATCH /api/provider-records/{id}/mapping                                *)
MapRecord(x, e) ==
  /\ UserMayAct
  /\ record[x] # Silent
  /\ e \in entities \cup {None}
  /\ record' = [record EXCEPT ![x] = e]
  /\ UNCHANGED <<lan, entities, info, status, conflicts, requests, sync, restarts>>

(* POST /api/conflicts/{id}/resolve                                        *)
ResolveConflict(k) ==
  /\ UserMayAct
  /\ conflicts[k] = "open"
  /\ conflicts' = [conflicts EXCEPT ![k] = "resolved"]
  /\ UNCHANGED <<lan, entities, info, status, record, requests, sync, restarts>>

Restart ==
  /\ restarts < MaxRestarts
  /\ restarts' = restarts + 1
  /\ sync' = Idle
  /\ merges' = {}
  /\ UNCHANGED <<lan, entities, info, status, record, conflicts, overtaken>>

SyncStep ==
  \/ Scan
  \/ \E x \in Ips : ReadRecord(x)
  \/ Match
  \/ LookUpConflict \/ InsertConflict
  \/ WriteManual \/ WriteDiscovered \/ WriteNew
  \/ StoreRecord
  \/ MarkAbsent \/ WriteAbsent

UserStep ==
  \/ \E e \in Entities, ip \in Ips \cup {None}, mac \in Macs \cup {None} :
       CreateEntity(e, ip, mac)
  \/ \E e \in Entities, name \in Names : Promote(e, name)
  \/ \E e \in Entities, ip \in Ips \cup {None}, mac \in Macs \cup {None} :
       UpdateEntity(e, "own", ip, mac)
  \/ \E e \in Entities : DeleteEntity(e)
  \/ \E src, tgt \in Entities : ValidateMerge(src, tgt)
  \/ \E src, tgt \in Entities : CommitMerge(src, tgt)
  \/ \E x \in Ips, e \in Entities \cup {None} : MapRecord(x, e)
  \/ \E k \in ConflictKey : ResolveConflict(k)

Next ==
  \/ SyncStep
  \/ UserStep
  \/ \E x \in Ips, m \in Macs \cup {None, Silent} : Network(x, m)
  \/ \E e \in Entities : Expire(e)
  \/ Restart

Spec == Init /\ [][Next]_vars

(* maintenance_loop polls for ever and survives every exception, so a sync *)
(* that can take a step takes it.  Nothing is assumed of the network, the  *)
(* users and the clock.                                                    *)
FairSpec == Spec /\ WF_vars(SyncStep)

-----------------------------------------------------------------------------
(* Every variable has its type, and no provider record or conflict is of   *)
(* an entity that was deleted or merged away, whatever the sync was doing. *)
TypeOK ==
  /\ lan \in [Ips -> Macs \cup {None, Silent}]
  /\ entities \subseteq Entities
  /\ info \in [Entities -> Info]
  /\ status \in [Entities -> {"unknown", "up", "down"}]
  /\ record \in [Ips -> entities \cup {None, Silent}]
  /\ conflicts \in [ConflictKey -> {"none", "open", "resolved", "twice"}]
  /\ \A k \in ConflictKey : conflicts[k] # "none" => k.e \in entities
  /\ merges \subseteq {m \in Entities \X Entities : m[1] # m[2]}
  /\ overtaken \in BOOLEAN
  /\ sync \in Sync
  /\ restarts \in 0..MaxRestarts

(* A sync never writes the identity of a manual entity, but for one that   *)
(* was adopted after the sync had matched it.  No merge, remapping or edit *)
(* opens another way around the rule.                                      *)
OnlyAdoptionLosesIdentity ==
  [][\A e \in entities :
       sync' # sync /\ info[e].origin = "manual" /\ info'[e] # info[e]
         => sync.phase = "write" /\ sync.e = e /\ sync.was = "discovered"]_vars

(* The same difference between a manual entity and a provider is reported  *)
(* once, open or resolved, however often it is observed and whatever       *)
(* happens between the lookup and the insert.  The one way around it is to *)
(* promote the source of a merge between its check and its transaction:    *)
(* the source can then get conflicts of its own, which the merge carries   *)
(* over.                                                                   *)
ConflictReportedOnce == ~overtaken => \A k \in ConflictKey : conflicts[k] # "twice"

(* When a sync ends that no user interfered with, no entity with a         *)
(* provider record is up while its address stayed silent, and none is down *)
(* whose own address answered: also when a device has moved, a status      *)
(* expired at any moment or an earlier sync was cut off.                   *)
SyncEnds ==
  /\ sync' = Idle /\ restarts' = restarts
  /\ \/ sync.phase = "absent"
     \/ sync.phase = "next" /\ sync.scan.todo = {}

StatusIsWhatTheScanSaw ==
  [][SyncEnds =>
       \A e \in {record[y] : y \in Ips} \cap entities, x \in Ips :
         info[e].ip = x =>
           /\ sync.scan.found[x] = Silent => status'[e] # "up"
           /\ sync.scan.found[x] # Silent /\ record[x] = e => status'[e] # "down"]_vars

(* Once the network is quiet, an entity that a provider record points at    *)
(* and whose address stays silent is down in the end, unless it is moved,  *)
(* unlinked or deleted first.                                              *)
Missing(e) ==
  /\ e \in entities
  /\ info[e].ip # None /\ lan[info[e].ip] = Silent
  /\ \E x \in Ips : record[x] = e

QuietNetwork == <>[][lan' = lan]_vars

AbsentGoesDown ==
  QuietNetwork =>
    \A e \in Entities : Missing(e) ~> ~Missing(e) \/ status[e] = "down"

(* A device answers at the address of an entity that cannot take its MAC,  *)
(* because another entity still has it.                                    *)
Clash ==
  \E x \in Ips :
    /\ record[x] \in entities /\ info[record[x]].origin = "discovered"
    /\ HolderOf(lan[x]) \ {record[x]} # {}

(* ... which is the one thing that can stand in the way of that (the       *)
(* instance must have an id left for a discovery).                         *)
AbsentGoesDownUnlessClash ==
  <>[](~Clash /\ entities # Entities) => AbsentGoesDown
=============================================================================
