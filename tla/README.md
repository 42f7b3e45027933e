# Verification of the network manager

TLA+ models of the program under `src/patch_manager/`, the TLC runs that check
them on small instances, and TLAPS proofs, for instances of every size, of every
safety property the passing runs check.

`PROJECT.json` lists the components, the runs, the mutants (a plausible bug for
every property, which the property's run finds), the source lines of every
definition, the findings, the hazards and the theorems.

    tlc -workers 2 -config patchbay_serial.cfg MCPatchBay.tla
    tlapm PatchBayProofs.tla
    tlapm AccountsProofs.tla            # and the other ...Proofs modules

## The system

A FastAPI application over one SQLite database, with a single-page client. It
keeps the inventory of a home or office network: switches, access points and
patch panels with their ports, the devices (*entities*) that hang on them, the
cables in between, a topology drawing, and what *providers* (a DHCP/ARP scan,
Uptime Kuma, Proxmox, Portainer, Glances, AdGuard, a proxy manager) observe.

**How it runs.** Handlers written with `def` run in a thread pool, those with
`async def` on the event loop. `maintenance_loop` polls the providers, and
`_store_record` runs through `asyncio.to_thread`. Every thread opens its own
SQLite connection (WAL, `foreign_keys=ON`). Each `database.fetch_*` is a
snapshot of its own and each `database.transaction()` is atomic. Nearly every
handler reads and validates first, writes in a transaction after, and writes
its audit line in another one. What lies between the validation and the
transaction is where most hazards are: only the constraints of the schema
(foreign keys, unique indexes, CHECK) hold inside the transaction.

### Components

| Component | State | Operations | Correct when |
|---|---|---|---|
| Patch bay (`main.py`, `db.py`) | `physical_devices`, `ports`, `cables`, `entities.uplink_device_id` | create, resize, delete a device; plug, replace, move, unplug a cable; set an uplink; merge, delete an entity | one cable per port and per entity; a cable or an uplink, never both; no cable is lost by a resize or a merge; ports are numbered without gaps |
| Cable tracing (`topology.py`) | none: a walk over `cables` and `ports.peer_port_id` | `trace_from_port`, `trace_entity`, `trace_far_port` | finds the one device at the far end, ends on rings and at the hop limit |
| Topology catalogue (`topology.py`) | `topology_nodes`, derived `topology_relations` | `sync_topology_catalog`, in every `GET /api/bootstrap` | never fails; a trunk joins the devices at its ends; panels are not drawn |
| Topology editor (`main.py`, `topology.py`) | parents, groups, manual relations, `topology_history` | node update, group, relate, move, undo | a tree; handwork survives the sync; undo restores exactly, and always can |
| Discovery (`providers.py`, `main.py`) | `entities`, `provider_records`, `observations`, `conflicts` | a sync: match, write entity, write record, mark absent; promote, edit, create, merge, remap, resolve | providers never overwrite a manual identity; the status follows the scan; a difference is reported once |
| Entity tree (`main.py`, `providers.py`) | `entities.parent_id`, `provider_records.entity_id` | set parent, merge, attach source, map, promote, delete; an adapter hangs a guest under its host at every poll | a tree, whoever writes it; what was merged or mapped is not undone by the next poll |
| Provider adapters (`providers.py`) | none | parse the answers of external APIs, store hosts first and guests after | a guest finds its host |
| Provider configuration (`main.py`, `secret_store.py`) | `providers`, `provider_secrets` | create, test, update, delete, seed | a provider that is on works with the credentials it was tested with |
| Accounts (`main.py`, `security.py`) | `users`, `sessions`, `audit_log` | setup, login, logout, create, delete | there is always an admin; nothing names an account that is gone; a removal is on record |
| Backup and restore (`db.py`, `secret_store.py`) | the database file, the key file, the key in memory, bundles | bundle, import, prune, restore, roll back | rows and key belong together, whatever fails |
| Import and export (`main.py`) | every table | `config_import`, `config_export` | an import obeys what the handlers obey |
| Status history (`db.py`) | samples per 5 minutes, totals per day | sample, total, prune | every sample counts once |
| Speedtest (`speedtest.py`) | `speedtest_runs`, a lock in the process | start, finish, recover, schedule | one test at a time; the row that says "running" runs; the schedule goes on |
| Schema and migrations | the schema version | `_migrate` | repeatable after a stop |
| Others: DNS and proxy records, app links, settings, categories, OUI lookup, wizard, CSV import, client | flat records or none | create, update, delete | no interaction beyond cascades |

**Interactions.** All components meet in the tables. The patch bay's cables feed
the traces, the traces feed the catalogue, the catalogue writes nodes under
which the editor hangs others. `entities` is written by users and by syncs; its
deletion cascades to cables, nodes, relations and conflicts, and sets parents,
monitors and records to NULL. A merge rewrites references in every one of them.
Accounts are referred to by sessions, cables and the audit log, each with a
delete rule of its own. A restore replaces the whole database under everything
that is running.

**What is hard.** Two requests, each valid alone, that pass their checks
together. A user's transaction between the transactions of a sync. A sync cut
off by an error or a restart. Two sources for one tree. Snapshots that outlive
what they refer to. An `await` between the reading of credentials and their
saving. Two files that belong together and cannot be replaced in one step.
`PROJECT.json` has each such spot with its line under `hazards`, and the
properties that watch it.

## The modules

    CableMatching  <--implements--  PatchBay  <-- PatchBayProofs
    Inventory  <--  TopologyTree
    Inventory  <--  CableTrace  <--  TopologyCatalog
    TopologyTree, TopologyCatalog  <-- TopologyProofs
    Discovery         <-- DiscoveryProofs
    EntityTree        <-- EntityTreeProofs
    Accounts          <-- AccountsProofs
    ProviderSettings  <-- ProviderSettingsProofs
    Vault             <-- VaultProofs
    Maintenance       <-- MaintenanceProofs

An arrow without a label is an `EXTENDS`. Each `MC` module gives its component's constants their values, and each `.cfg`
an instance. Operators named `Bug...` are the mutants; no specification uses
them.

**CableMatching** is the abstract specification of the patch bay: the links
between ends (ports and entities) form a matching, plugging needs two free
ends, and one plug takes at most one link from elsewhere along.

**PatchBay** is the concrete one. A handler is a `Check` action (its reads, as
one snapshot, and its early returns: a check that fails is a step that changes
nothing, so it is not a step) and a `Commit` action (its transaction: when a
constraint breaks, it changes nothing but its thread). `req[r]` is what thread
`r` carries from one to the other: the payload, and what it read and still uses
(`seen`, the port count of a resize; `moves`, the cable of a merge). A handler
whose effect does not depend on its reads (deletes, creates) is one action.
`Surviving` and the updates of `uplink` are the cascades of the schema,
`Insertable` its unique indexes, CHECK and foreign keys. `Restart` drops every
request in flight, at any point. Where a foreign key fails only if some other
table has a row to move (a merge into an entity that was just deleted), both
outcomes are allowed.

**Inventory** declares what the two halves of the topology share, the entities
that exist, so that one module can prove things about both.

**CableTrace** has the loop of `trace_from_port` as a recursive function,
`TraceWithin[hops]`, over every wiring of an instance. What it should find is
stated with `Strand`, all that hangs together with a port.
**TopologyCatalog** extends it with the uplinks, monitors, ignored and archived
entities (`shelved`), and the nodes the last sync left (`CatalogSpec`; the names
differ from those of `TopologyTree`, which has handlers of its own for the same
requests). The relations are deleted and derived anew by each sync: they
are operators of the state (`EntityLines`, `TrunkLines`, `UplinkLines`).

**TopologyTree** has the parents of nodes (picked by hand or taken from
`entities.parent_id`), groups, manual relations, the snapshots of undo and the
nodes-and-parents half of the catalogue sync. A handler is a `Begin` (checks
and the captured snapshot) and a `Write` (its transaction), as in the code,
where a failing write leaves the snapshot behind. The writers of the inventory
under it are one step each; `MergeEntity` moves the relations of the one node to
the other (`Merged`) and the children (`Adopted`).

**Discovery** has the sync of the DHCP/ARP provider: `Scan`, and for each
address `ReadRecord`, `Match` (the entity), `LookUpConflict` and
`InsertConflict` for each conflict in turn (`left`), `WriteManual`,
`WriteDiscovered` or `WriteNew`, and `StoreRecord`; then `MarkAbsent` and
`WriteAbsent`. The reads of `_mark_absent` are one step. The users' handlers
fall between them, each one step but for the merge, which is `ValidateMerge` and
`CommitMerge`. `overtaken` is a history variable: the source of a merge was
promoted between the two. `UsersAct` and `LanMoves` are the phases of the sync in which
users may act and in which the network may change, so that an instance can have
them everywhere, nowhere, or at the one point where a race is.

**EntityTree** has `entities.parent_id` and the writers of it. `Move` and
`Merge` are check and commit of `set_entity_parent` and `merge_entity`, the
latter with its repair of the tree (`Adopted`); `clean` says that nobody
changed the tree between the two. `MapRecord` is `update_provider_mapping`. A
*thing* is what an adapter reports under one external id. The id of a guest has
its node or endpoint in it (`kind:node:vmid`, `container:endpoint:id`), so the
host of a thing (`HostOf`) never changes; under another host it is another
thing. What does change is what a poll reports (`Polls`), and what a proxy host
forwards to: `Answers` are the things whose entity may come to bear that name or
address, at whatever poll. `Alike` are hosts of one name and containers of one
Docker id, by which `_store_record` guesses when a record leads nowhere. A
sync is `Begin`, and for each thing `ReadRecord`, `Match` (and `MatchTwin`, the
entity of another container record), `WriteEntity` and `WriteRecord`:
`_store_record` without what `Discovery` has of it. `face` is the thing whose
name an entity bears. Not in it are the hosts that a person binds to a device
in the configuration of Glances (`bind_entity_id`) and the rename with which
`attach_source` begins.

**Accounts** has a request in up to four steps: `Authenticate` (or `Login`,
`Setup`), the handler's check, its transaction, its audit row. `Removable`,
`SessionsOf` and `AuditDelete` are the three delete rules of the foreign keys to
`users`. `Expire`, `CleanSessions` and `Restart` happen between any two steps.

**ProviderSettings** has the providers of one type. An update is `StartUpdate`
(up to its `await`), `TestAnswers`, `SaveConfig` and `SaveSecrets`, two
transactions. `LoopFree` is the event loop: one coroutine at a time between two
awaits, while removals and creations run in threads. `Effective` is how the
handler works out what to test, `Stored` how the store works out what to save.

**Vault** reduces the database to the key each row of `provider_secrets` is
encrypted with. A bundle is packed in three steps: the copy of the database
(`CopyDatabase`), the archive with the key, under its final name (`PackKey`),
and its validation (`CheckBundle`). Between the last two anybody can restore or
prune it, and a stop leaves it (`left`); `backups` are those that have been
validated, by their maker or by an import. A restore is the safety bundle,
`ValidateRestore`, `SwapDatabase`, `SwapKey` and `Reload`, or
`UndoDatabase` and `UndoKey` when a step raises. A connection whose file was
replaced writes to nowhere (`live`).

**Maintenance** is the loop (`pc`), the task of a speedtest and the clock. A
round is `CheckSlot`, `RecordSamples`, `PruneHistory`, `Forget`, `ScheduleRun`;
`RoundFails` cuts it short, `Stop` the process, and `Restore` puts `db` back to a
backup while both go on. `echo` and `spoilt` are history variables that no
action reads. `Backups` are copies of the database from before the first slot:
they hold no sample after it, and their totals agreed when they were made
(`BackupsAssumption`); without that no run of the program could promise more of
them than what it put in.

### Abstractions

* The check of a handler is one snapshot although the code reads several times;
  so is a walk up the tree in `EntityTree`, and there the search for a proxy's
  target together with the read of its record. The reads of a sync are steps of
  their own. In `TopologyCatalog`, and for the users in `Discovery` but for
  the merge, a whole handler is one step: the gap between check and commit of
  those handlers is in `PatchBay` and `TopologyTree`. In `Maintenance`
  the awaited read of the speedtest settings and the start of the test are one.
* Ids are uuids: used once in every module with `unused`, reused
  after deletion in `TopologyCatalog`, and in `Discovery` once no request and no
  sync holds the old one (`Fresh`).
* Names, labels, colours, notes, positions, audit lines, types and hostnames
  are left out; refusals that depend only on them (`categories.can_attach`)
  appear as a request that is not made. A rename, such as the one with which
  `attach_source` begins, is left out with the names. An entity's name has two values: what
  the scan reports and what a person chose.
* `Discovered` in `PatchBay` and `TopologyCatalog` is fixed: promotion is in
  `Discovery`, and a promoted entity behaves like one made by hand.
* In `Accounts` the roles are fixed because no handler changes one; passwords,
  hashing and the throttling of logins are a login that succeeds.
* In `Vault` SQLite's WAL file beside a replaced database is left out, in
  `Maintenance` the backup at night and the metrics of a sample.
* Network devices come and go only in `PatchBay`; in `TopologyCatalog` they are
  fixed, and their monitors and cabling vary.

## The runs

Bounds are named constants. All instances are exhausted; none is cut off by a
state constraint. States are distinct ones, after symmetry.

| Run | Instance | States | What it shows |
|---|---|---|---|
| `patchbay_serial` | a panel with up to 2 numbers (4 ports), 2 entities (one discovered), 3 cable ids, 1 request | 55k | with one request at a time the cabling is a matching and implements `CableMatching`; a resize neither loses a cable nor leaves a gap; a merge keeps the one cable of the pair; only a merge makes an entity have both a cable and an uplink |
| `patchbay_concurrent` | a switch of 2 ports, 2 entities, 3 cable ids, 2 requests | 206k | with requests interleaved the schema alone still keeps one cable per entity and no dangling reference |
| `topology_catalog` | 2 switches with a port each, 2 one-number panels, 2 entities, limit of 2 hops; monitors and uplinks on one switch | 147k | every trace finds the end of its strand, up to exactly the limit, and none on a ring; what can break the drawing |
| `topology_tree` | 2 entities, a group, a relation, 1 request, 1 snapshot | 740k | a sync leaves handwork alone; no dangling reference, no circle of hand-picked parents, exact undo |
| `discovery` | 2 entities, an address, a MAC, users and a restart at every point of a sync, one merge at a time between check and commit | 1.8M | references stay sound; a conflict is reported once, and the one way around that; the one way an identity is lost |
| `discovery_scan` | 3 entities, 2 addresses, a MAC, no users, a network that changes at any point, fair | 89k | a status is what the scan saw; what disappeared is down in the end |
| `entity_tree` | 3 entities; an endpoint with a container (Portainer) and a proxy host (NPM) that forwards to a name which the container and its own service bear; 2 requests, 2 of the syncs and requests at a time, 2 edits by people | 1.1M | adapters alone build a tree; no request that was not overtaken closes a circle; what was merged or mapped before a sync reads the record stays; nothing dangles |
| `accounts` | 3 accounts, 3 session tokens, 2 requests, a restart | 239k | nothing names an account that is gone; the last admin goes only when two admins remove each other; a removal is on record |
| `provider_settings` | 2 providers of a type, a configuration and two credential fields of which the remote side wants both, 4 payloads, 2 requests, a restart | 1.2M | a provider that is on works with what is stored, unless updates overlapped; no credentials outlive their provider |
| `vault` | this installation's key and another one, a provider, 2 backups, 2 requests, a restart | 3.2M | a bundle that was validated opens, and any other is being validated or was left by a stop; a restore left alone is all or nothing, failed or not; only a restore and a save it overtook part rows and key |
| `maintenance` | an entity, 4 slots of 2 a day, a failure, a restart and a restore of an early backup, fair | 405k | totals agree with samples; a lapsed status is sampled once; the running row is the running test; a due test starts |

A violation run checks a property that the repository states, and TLC finds a
counterexample; see `findings`:

| Run | Property | The behaviour |
|---|---|---|
| `patchbay_port_race` | `PortExclusive` | two requests validated together put a port in `a_port_id` of one cable and `b_port_id` of another |

Other behaviour the modelling turned up. Each item is the exact limit of a
property that holds, and so has no run of its own.

* *Patch bay.* Merging a cabled discovery into an entity with an uplink leaves it
  both (`OnlyMergeClashes`). A cable plugged in between the check and the commit
  of a shrink goes with its port; with one request at a time none is lost.
* *Catalogue.* A cabled entity that is made the monitor of a device, or ignored
  before it was ever drawn, has a cable but no node: every bootstrap fails on
  a foreign key until the cable goes (`OnlyUndrawnCablesBreak`). `EntityLines`
  also has a line from the front port of a panel whose trace reaches an entity,
  next to the line from the switch.
* *Editor.* A parent picked by hand and one from the inventory close a circle
  (`NoHandmadeCircle` is about the hand alone), and so do two clients. A snapshot
  that refers to a deleted entity can never be restored and stays the newest.
  A merge into an entity that was never drawn fails on a foreign key when the
  source has a relation drawn by hand; what was hung by hand under the
  source's node comes loose, while what the inventory had there moves along.
* *Discovery.* An entity promoted between the match and the write of a sync
  loses the name just chosen (`OnlyAdoptionLosesIdentity`). A discovery that is
  promoted while a merge of it waits between `main.py:1248` and `main.py:1274` gets
  conflicts of its own at the next sync, and the merge carries them to a target
  that may have the same one (`ConflictReportedOnce`). `Scan` may be cut
  off (`SCAN_TIMEOUT_SECONDS`) and its subnet counts as scanned all the same, so
  a device that was never pinged can be marked down. A known MAC appearing
  at the address of another known device fails the unique index in every sync, and
  `_mark_absent` is never reached (`AbsentGoesDownUnlessClash`).
* *Entity tree.* A place picked by hand for a discovery lasts until the next poll
  (`COALESCE`). A guest detached from its node and the node hung under it, or a
  guest merged into its own node or mapped to it, become a circle at the next
  sync; an NPM service whose name is its own `forward_host` becomes its own
  parent. A mapping made between the read of a record (`providers.py:166`) and
  the write of it (`providers.py:232`) is undone by that write, and so is a merge
  made before the read of the entity (`providers.py:177`): the sync makes a new
  discovery and points the record at it (`RecordsStay`). A merge after that
  ends the sync on a foreign key and stays.
* *Accounts.* Two admins can delete each other. An account that drew a cable which
  is still there cannot be deleted: the foreign key raises an error that no
  handler catches. The audit row of a deletion is lost when its author was
  deleted meanwhile.
* *Provider settings.* Two updates that overlap around the test call save
  credentials nobody tested. The last of a type can go in a race, and a deleted
  template comes back at the next start.
* *Vault.* A restore between the copies of the database and of the key makes a
  bundle that its validation throws away, unless the process stops first; then
  it stays in the list of backups and can never be restored. A stop between
  the two `os.replace` calls parts rows and key: the secrets do not decrypt, every bundle fails its validation, and with it every
  restore, since that begins with a bundle. A save that overlaps the swap is lost
  or encrypted with the old key; two restores that overlap part rows and key
  as well.
* *Maintenance.* The samples of a round precede the forgetting, so a stale status
  is sampled once more. A row "running" that a restore brought back, or whose
  result could not be written, says so until the next start.

**Why the bounds are enough.** A cable has two ends, and every clash of cables
is between two of them, so two ports, two entities and three cable ids (two
present, one arriving) have every way to clash; a panel's second side gives the
serial run four ports, which a replacement that moves a cable away from a third
end needs. Two requests show every race between one check and another's
commit. `topology_catalog` has strands shorter than, equal to and longer than
the hop limit (3 cables at a limit of 2) and rings over one panel and over both.
Three nodes (two entities and a group) make circles of length 2 and 3. One
snapshot makes undo meet everything that can happen between a capture and its
restore; more snapshots (50 in the code) are older ones of the same kind. In
`discovery` one merge at a time is between its check and its commit, which is
enough to be overtaken. With two addresses a device can move, swap and come back; the third entity leaves an
id for a new discovery while two are known. A conflict of MACs needs two MACs
and is left out of the instances; it differs from a conflict of names only in
its values. `MaxRestarts` of 1 cuts one sync at any step.

In `entity_tree` the three entities are what two adapters store of three things,
so merges, deletions and new discoveries all happen; circles of length 1 to 3
exist; two activities at a time are every race of a request or a sync with
another. Two edits are what its races need (a creation or promotion and what
follows it, a mapping or a merge under a sync); syncs are not bounded. A poll reports all
that an adapter has: what is missing from a poll is not touched by it, and a
poll that is broken off reports less. Three accounts are two admins who remove each other and a third who
sees it. In `provider_settings` two fields are what two updates can each supply
half of. One row and two keys are enough for a row not to fit its key, and two
requests for a restore to meet a save, a backup or another restore.
`maintenance` has samples that outlive their retention and days that outlive
theirs within four slots, a day that is half over at the first start, a
backup older than what is pruned, and three test ids: the one of the backup,
one running, one arriving. One entity is enough: nothing in the loop relates
two.

Requests, cable ids, accounts, tokens, providers and entities are symmetric
where nothing orders or names them. The fair runs use no symmetry.

**Deadlock** is checked in every run but `accounts`, `provider_settings` and
`vault`. There the uuids, tokens and backups of the instance run out, which
those of the program do not, and the model comes to rest.

**Fairness.** `FairSpec` of `Discovery` has weak fairness of `SyncStep`:
`maintenance_loop` polls until the process ends and catches every exception of a
poll, and a thread that runs a sync goes on, so a sync that can take a step
takes it. Nothing is assumed of users, the network or the housekeeping; that
the network becomes quiet is a premise of the property (`QuietNetwork`), because
a device that keeps coming back need not be seen absent.
`AbsentGoesDownUnlessClash` adds the premise that the clash of MACs does not
persist, and that an id is left, which uuids always have. `discovery_scan` has
no users, so that liveness is about the sync and not about people who stop
editing.

`Spec` of `Maintenance` has weak fairness of `Round`, the steps of the loop,
which waits for nothing without a time limit and catches what a round raises,
and of `EndRun`, since a test is killed at its limit. It has none of `Start`:
nobody promises that a stopped process comes back, and `ScheduleGoesOn` asks
nothing while it is down.

## The proofs

### Patch bay

`PatchBayProofs` proves, with no other assumption than those on the constants
named in `PatchBay` (ports, entities, ids and NULL are different things):

* `TypeCorrect`: `Spec => []TypeOK`, with one lemma for checks, commits, and
  one-step handlers each. `PortCountNat` needs that the numbers of a device's
  ports are a finite set.
* `EntityHasOneCable`: `Spec => []EntityExclusive`, for any number of requests.
  `EntityExclusive` is not inductive, a cable's `a` end being a port it says
  nothing of; `ColumnsUnique`, one cable per value of each column, is what the
  unique indexes give each insert, and since an entity only stands in column
  `b` it implies the property. The merge is the step with work in it: it
  moves a cable to an entity that must not have one.
* `PortHasOneCable`: with at most one request in flight (`OneAtATime`),
  `Spec => []PortExclusive`. It needs `SerialInv`: no two cables share an end
  at all, and the request in flight, if it is about a cable, is still admissible
  (`PendingAdmissible`). The second conjunct is what concurrency breaks; when
  only one request is in flight nothing happens between its check and its
  commit. `AdmissibleClears` shows that what a validated request displaces
  frees both of its ends.
* `PatchBayImplementsMatching`: under the same hypothesis,
  `Spec => ImplementsMatching`. Every insert is a `Plug`, every deletion, resize
  or cascade an `Unplug`, and every merge that moves a cable a `Rehome`. It rests on
  `SerialInv` and on `IdsUnique`: a request moves one cable at most because an
  id names one.

* `ReferencesHold`: `Spec => []Anchored`, for any number of requests. It is
  inductive with `TypeOK`: what foreign keys and cascades are for.
* `MergesKeepCables`, `OnlyMergesClash` and `PortsStayContiguous`, one request at
  a time. They need `PendingSeen`: what a merge, an uplink or a resize saw when
  it was validated still holds when it commits. That the ports are numbered
  without a gap needs `IdsAreNew` besides: an id that was not handed out has no
  ports left over, so a new device starts at 1.

`OneAtATime` is needed: `patchbay_port_race` refutes `PortExclusive` without it,
a cable plugged in between the check and the commit of an uplink or a merge
refutes `OnlyMergeClashes` and `MergeKeepsCable`, and two resizes that overlap
refute `PortsContiguous`.

### Accounts

`AccountsProofs` proves every property of `Accounts`, for any number of accounts,
tokens and requests, assuming only that accounts and tokens are different
things:

* `TypeCorrect`: `Spec => []TypeOK`, which has the references in it: the foreign
  key of a session refuses an account that has gone since the login, and the
  removal of an account takes its sessions and is refused by its cables.
* `RemovalsAudited`: `Spec => []RemovalsAreAudited`. Not inductive alone: that
  an unaudited removal had an admin for its author needs `ActorsAreAdmins`:
  whoever is about to remove an account had the role of admin when he
  authenticated, still has it because no handler changes a role and no uuid is
  handed out twice, and is somebody else than the one removed.
* `LastAdmin`: `Spec => LastAdminFallsOnlyToARace`, from the same invariant and
  `AdminsKept`: only a delete takes an admin away, and one whose author is
  still there leaves the author.

### Provider settings

`ProviderSettingsProofs` proves every property of `ProviderSettings`, for any
number of providers, fields and requests, assuming of the constants only what
`SettingsAssumption` says (NULL is no value, the template is a provider):

* `TypeCorrect`: `Spec => []TypeOK`. The delete rule takes the credentials with
  the row, and the foreign key refuses those that come after it.
* `SavedIsTested`: `Spec => OnlyAnOverlapSavesUntested`, from `UpdatesInOrder`:
  the event loop lets one update at a time through its two transactions; one
  that switches a provider on gets there with what was tested; between the two
  the row is the one it wrote, because an id is not handed out twice.
  `StoredIsEffective` is the fact about the two merges of credentials, the
  handler's and the store's: they agree when both start from the same row.

### Vault

`VaultProofs` proves every property of `Vault`, for any number of keys, rows,
backups, requests and restarts:

* `TypeCorrect`: `Spec => []TypeOK`, with the bundles that were validated in it.
  It is proved with `CarriedFits`, which the others need: what a restore carries
  from `ValidateRestore` to the swap opens with the key beside it, since it is
  validated there again; a bundle on its way to `CheckBundle` need not.
* `OnlyARestore`: `Spec => OnlyARestoreBreaksTheSeal`, from `CarriedFits`: what a
  bundle without a key of its own brings back fits the key it was checked with.
* `RestoreIsSound`: `Spec => RestoreKeepsTheSeal`. It needs `AloneInOrder`: while
  a restore is `clean` nothing but its own steps has changed the files, so at
  each of its stages they are where that stage left them, and what it would go
  back to is what was there.

### Entity tree

`EntityTreeProofs` proves every property of `EntityTree`, for any number of
entities, adapters, things and requests:

* `TypeCorrect`: `Spec => []TypeOK`: parents and records refer to entities that
  exist. It is inductive, since every write is guarded by the foreign key.
* `SyncsKeepRecords`: `Spec => RecordsStay`. It needs `SyncsInStep`: while the
  entity that a sync read in a record exists, that is the entity the sync has
  matched and goes on with, and an id that is gone does not come back. So a
  write that changes a record is one whose record was changed since it was read.
* `HandlersCloseNoCircle`: `Spec => OnlyAnOverlapOrASyncClosesACircle`. It needs
  `CleanInv`: what a handler saw on its walk up the tree still holds, unless it
  was overtaken. `LooserTree`, `MovedTree` and `MergedTree` are the three ways
  in which a handler changes a tree: it lets go of parents, it hangs an entity
  under one that is not below it, it merges. In the last, the target takes the
  source's place if it hung in the source's subtree, and the children follow.
* `AdaptersBuildATree`: `Spec => []AdaptersAloneBuildATree`. Hosts, guests and
  proxy hosts are three kinds of things, and `Faithful` says that they are never
  mixed up while nobody moves, merges or maps: a record points at an entity that
  bears a thing of its own kind, for a proxy host the very same thing (`Borne`);
  what hangs, hangs under what its thing may report (`Hangs`: a guest under a
  host, a proxy host under an answer); and what a sync carries from
  one of its steps to the next is still so or is about entities that are gone
  for good (`Known`). Guesses by name or Docker id stay within a kind. Only
  proxy hosts can then be on a circle, and `CirclesAreReported` turns a circle
  of entities into one of reports. The theorem covers polls that report a guest
  without its host and proxies that forward to each other, which the run leaves
  out.

### Topology editor

`TopologyProofs` proves every property of `TopologyTree`, for any number of
entities, groups, relations and snapshots, from the assumptions in
`TopologyTree`:

* `TypeCorrect`: `Spec => []TypeOK`. It needs `TypeInv`: the topology and every
  snapshot are `Tidy`, which adds to the foreign keys that what is not drawn
  has no parent and no mark of a hand, so that a node that comes back comes
  back loose.
* `HandworkSurvivesSync` and `UndoTakesItAllBack`: `Spec => SyncKeepsHandwork`
  and `Spec => UndoIsExact`, from `TypeInv` and the lemmas on the fields of
  `WithoutNodes`, `Synced` and `Restored`.
* `NoCircleByHand`: with at most one request in flight,
  `Spec => []NoHandmadeCircle`. It needs `HandInv`: the hand-picked parents are a
  tree in every snapshot too, and the request in flight still closes no circle
  when it writes, since until then the others only take parents away.
  `HungTree` and `MixedTree` say what keeps a tree one: hanging nodes under a
  node that has none of them above it, and putting part of the nodes back the
  way a snapshot had them.

### Cable traces and the catalogue

`TopologyProofs` also proves every property of `TopologyCatalog`, for any number
of ports, panels, devices and entities, every wiring, and every hop limit:

* `CatalogTypeCorrect`: `CatalogSpec => []CatalogTypeOK`. It is proved with
  `Wired`, which the traces need: there are finitely many cables, none leads
  from a port to itself, and no two share an end.
* `TracesFindTheEnd`: `CatalogSpec => []TraceFindsTheEnd`. The property compares two
  recursions over the cables, so both must first be shown to have a value.
  `Iteration` gives a function that is iterated, by induction over sets of
  numbers (`Inductive`, from the well-founded order of finite sets), and with it
  the equations of `TraceWithin` and `Grown` hold (`TraceDefined`,
  `GrownDefined`). `Strand` is then the smallest set that is closed under cables
  and panels (`StrandIsLeast`): growing ends, because only finitely much hangs
  together with a port (`FiniteSurroundings`). The rest is about a walk without
  a limit (`Walks`). From a port outside the panels it never comes back to a port
  it was at, nor over a cable from its other end, because the step before would
  have to be the same (`NoRevisit`, `NoReturn`). What it has seen is closed,
  hence the strand (`SeenIsComplete`, `StrandIsSeen`). So it does meet an end
  unless that end is loose (`EndOfStrand`), after exactly as many cables as the
  strand has (`LengthOfStrand`, a bijection between rounds and cables), and the
  trace agrees with it up to the limit (`TraceAlong`, `TraceToLast`).
  `TraceWithoutEnd` is the case of a ring and of a loose end.
* `OnlyUndrawnCablesEverBreak`: `CatalogSpec => []OnlyUndrawnCablesBreak`. The
  ports and the entities that exist are closed under cables and panels, so a
  trace ends at one of them (`TraceEndsAtACable`); the rest is by cases on what
  the sync draws.

### Discovery

`DiscoveryProofs` proves every safety property of `Discovery`, for any number of
entities and addresses:

* `TypeCorrect`: `Spec => []TypeOK`, with `Carried`: a sync stores only
  addresses that answered, and the conflicts it has still to report are those of
  the manual entity it matched.
* `OnlyAdoptionIsOverwritten`: `Spec => OnlyAdoptionLosesIdentity`.
* `ConflictsAreReportedOnce`: `Spec => []ConflictReportedOnce`. It needs
  `ManualReport`, a sync that reports conflicts is about an entity that a person
  owns, and `ManualConflicts`: unless a merge was overtaken, only what a person
  owns has conflicts and the source of a waiting merge is a discovery. So a
  merge brings no conflict along, and one that was looked for and not found is
  still not there when it is inserted. The proof covers any number of waiting
  merges, and the conflicts of MACs, which the runs leave out.
* `ScanDecidesStatus`: `Spec => StatusIsWhatTheScanSaw`, if users act only between
  syncs (`ScanAlone`), as in `discovery_scan`. `ScanInv` says what the sync has
  done so far: the addresses handled are not down, and those about to be marked
  absent are the silent ones. A user who moves an entity to another address in
  the midst of it makes that false.

### Maintenance

`MaintenanceProofs` proves every safety property of `Maintenance`, for any clock,
retention, number of slots a day, entities, failures and restores:

* `TypeCorrect`: `Spec => []TypeOK`, with the clock never before the first slot.
* `RunningIsAlwaysTheTask`: `Spec => []RunningIsTheTask`, inductive with `TypeOK`.
* `StaleStatusesAreSampledOnce`: `Spec => []StaleStatusIsSampledOnce`. `SampledOnce`
  says where the one sample may be: between the record step and the forget step
  of the same round. A round cut short, a restart and a restore pay for
  another one.
* `DaysAlwaysAgree`: `Spec => []DaysAgree`, inductive with `TypeOK`. A new sample
  is later than all the others, so it adds to its own day alone: to its total, to
  what was up, and to the changes if the sample before it had another status
  (`SampleAdds`, `RecordAgrees`). `Previous` is the last of the earlier samples;
  that there is a last one (`LastSlot`) comes from the well-founded order of
  finite sets. Time only makes fewer days whole (`LaterAgrees`). Pruning takes no
  sample of a whole day, and at most the one sample that the day's first change
  was counted against (`PruneAgrees`).

### What is only model-checked

Liveness (`AbsentGoesDownUnlessClash`, `ScheduleGoesOn`): neither fairness nor
`ENABLED` is within the prover's reach. `PortExclusive` is false of concurrent
requests, and `patchbay_port_race` shows it.

The chains of parents (`Above` in `EntityTree`, `Chain` in `TopologyTree`) are not
recursive: they are the smallest set that is closed upwards, which is what a
walk with a visited set and a recursive query compute, and which can be
reasoned about without an induction.

## Plan

Done, in order: `PatchBay` with `CableMatching` and the proofs; `CableTrace` and
`TopologyCatalog`; `TopologyTree`; `Discovery`; `Maintenance`; `Accounts`,
`ProviderSettings`, `Vault` and `EntityTree` with their proofs; the proofs about
`Discovery`, `Maintenance`, `TopologyTree` and the trees of `EntityTree`; those
about the cable traces and `TopologyCatalog`.

Next, to model:

1. Parallel trunks in `TopologyCatalog`; more than one provider, and ignored and
   archived entities, in `Discovery`; the hosts bound to a Glances endpoint in
   `EntityTree`.
2. `config_import` in `PatchBay` and `TopologyTree`: an upsert of whole tables
   past the handlers' checks. Which of the invariants survive it?
3. The handlers that only read, over separate snapshots (`port_trace`,
   `topology_payload`).

Next, to prove: whatever these models add.

## Not modelled

The parsing of external APIs in the adapters: no state, and the order and the
parents with which they store is in `EntityTree`. The migrations, SQL over old
schemas. `config_import` and `config_export`, which write and read whole tables
past the handlers' checks (see the plan). The throttling of logins, hashing and
cookies. Flat records (DNS, proxies, app links, settings, categories, dismissed
link suggestions), the OUI file, and the CSV import and wizard on top of other
handlers: no interaction of their own to check. The handlers that only read.
The client, which keeps no state the server relies on.
