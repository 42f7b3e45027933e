------------------------------ MODULE EntityTree ------------------------------
(***************************************************************************)
(* The tree of entities (entities.parent_id): what runs on what.  The      *)
(* adapters of Proxmox, Portainer and Nginx Proxy Manager hang what they   *)
(* find under its host and do so again at every poll; people hang entities *)
(* elsewhere, merge them, promote them and delete them.  A handler walks   *)
(* up the tree before its transaction, to refuse a circle; an adapter does *)
(* not.                                                                    *)
(*                                                                         *)
(* A thing is what an adapter reports under one external id: a host (a     *)
(* node, a Docker endpoint), a guest of one, or a proxy host.  An adapter  *)
(* stores them one by one, hosts before their guests, and _store_record    *)
(* reads the record, then the entity, then writes the one and the other.   *)
(* Glances, whose hosts a person binds to a device in its configuration,   *)
(* is left out.  Matching by MAC, the status and the conflicts of a scan   *)
(* are in Discovery; cables and uplinks in PatchBay.                       *)
(***************************************************************************)
EXTENDS Naturals, FiniteSets

CONSTANTS
  Entities,
  Providers,
  Things,      \* external ids
  ReportedBy,  \* the provider of each thing
  Polls,       \* what a remote side may report at a poll
  HostOf,      \* the host in the external id of a guest, None for others
  Answers,     \* for a proxy host: the things whose entity may come to bear
               \* the name or the address it forwards to, at whatever poll
  Alike,       \* hosts of the same name, containers of the same Docker id
  None,
  Requests,
  MaxBusy,     \* bound on the syncs and requests under way at the same time
  MaxEdits     \* bound on what people do

ASSUME EntityTreeAssumption ==
  /\ None \notin Entities \cup Things
  /\ ReportedBy \in [Things -> Providers]
  /\ Polls \subseteq (SUBSET Things) \ {{}}
  /\ HostOf \in [Things -> Things \cup {None}]
  /\ Answers \in [Things -> SUBSET Things]
  /\ Alike \in [Things -> SUBSET Things]
  /\ MaxBusy \in Nat /\ MaxEdits \in Nat
  /\ \A x \in Things : HostOf[x] # None =>
       /\ HostOf[HostOf[x]] = None
       /\ ReportedBy[HostOf[x]] = ReportedBy[x]
       /\ Answers[x] = {} /\ Answers[HostOf[x]] = {}
  /\ \A x \in Things : \A y \in Alike[x] :
       /\ Answers[x] = {} /\ Answers[y] = {}
       /\ HostOf[x] = None <=> HostOf[y] = None

VARIABLES
  entities,
  manual,    \* entities with origin manual
  face,      \* the thing whose name an entity bears, None when made by hand
  parent,    \* entities.parent_id
  known,     \* the things that have a row in provider_records
  record,    \* its entity_id
  unused,    \* uuids not handed out yet
  sync,      \* where each provider's sync is
  req,       \* what each handler carries to its transaction
  touched,   \* history: somebody moved, merged or mapped something
  edits      \* what people have done, for the bound

tree == <<entities, manual, face, parent, known, record, unused>>
vars == <<tree, sync, req, touched, edits>>

Idle == [kind |-> "idle"]
Move == [kind: {"move"}, e: Entities, to: Entities \cup {None}, clean: BOOLEAN]
Merge == {q \in [kind: {"merge"}, src: Entities, tgt: Entities, above: Entities \cup {None},
                 inside: BOOLEAN, clean: BOOLEAN] : q.src # q.tgt}

(* A sync keeps what is left of the report and the entities of the hosts   *)
(* it has stored; for the thing it is storing, the entity the record       *)
(* pointed at, the entity it has found, whether that is a discovery, and   *)
(* the entity to hang it under.                                            *)
Hosts == {HostOf[x] : x \in Things} \ {None}
Resting == [phase |-> "idle"]
Running == [todo: SUBSET Things, ids: [Hosts -> Entities \cup {None}]]
Storing == [run: Running, x: Things, seen: Entities \cup {None},
            e: Entities \cup {None}, free: BOOLEAN, up: Entities \cup {None}]
Sync ==
  {Resting}
  \cup [phase: {"next"}, run: Running]
  \cup [phase: {"match", "guess", "write", "record"}, storing: Storing]

(* Whoever else is between its check and its transaction has been overtaken*)
(* when the tree changes.                                                  *)
Overtaken(r) ==
  [o \in Requests |->
     IF o = r \/ req[o] = Idle THEN Idle
     ELSE [req[o] EXCEPT !.clean = @ /\ parent' = parent /\ entities' \subseteq entities]]

(* The entities above e, e itself when it is on a circle: the smallest set *)
(* that holds the parent of e and the parent of everything in it.          *)
Above(e) ==
  LET closed == {s \in SUBSET Entities : \A a \in s \cup {e} : parent[a] \in s \cup {None}}
  IN  {a \in Entities : \A s \in closed : a \in s}

-----------------------------------------------------------------------------
Init ==
  /\ entities = {} /\ manual = {}
  /\ parent = [e \in Entities |-> None]
  /\ face = [e \in Entities |-> None]
  /\ known = {}
  /\ record = [x \in Things |-> None]
  /\ unused = Entities
  /\ sync = [p \in Providers |-> Resting]
  /\ req = [r \in Requests |-> Idle]
  /\ touched = FALSE
  /\ edits = 0

Room ==
  Cardinality({p \in Providers : sync[p] # Resting})
    + Cardinality({r \in Requests : req[r] # Idle}) < MaxBusy

(* Something people do.                                                    *)
Edit == edits < MaxEdits /\ edits' = edits + 1

(* POST /api/entities                                                      *)
CreateEntity(e) ==
  /\ e \in unused /\ Edit
  /\ entities' = entities \cup {e}
  /\ manual' = manual \cup {e}
  /\ unused' = unused \ {e}
  /\ UNCHANGED <<face, parent, known, record, sync, req, touched>>

(* POST /api/entities/{e}/promote: the entity is no discovery any more.    *)
Promote(e) ==
  /\ e \in entities \ manual /\ Edit
  /\ manual' = manual \cup {e}
  /\ UNCHANGED <<entities, face, parent, known, record, unused, sync, req, touched>>

(* What the schema does when an entity goes: ON DELETE SET NULL.           *)
Without(f, e) == [k \in DOMAIN f |-> IF f[k] = e THEN None ELSE f[k]]

(* DELETE /api/entities/{e}                                                *)
DeleteEntity(e) ==
  /\ e \in manual /\ Edit
  /\ entities' = entities \ {e}
  /\ manual' = manual \ {e}
  /\ face' = [face EXCEPT ![e] = None]
  /\ parent' = [Without(parent, e) EXCEPT ![e] = None]
  /\ record' = Without(record, e)
  /\ req' = Overtaken(None)
  /\ UNCHANGED <<known, unused, sync, touched>>

(* PATCH /api/provider-records/{x}/mapping, for a record that is there; an *)
(* entity that goes between its check and the write breaks the foreign key.*)
MapRecord(x, to) ==
  /\ x \in known /\ Edit
  /\ record' = [record EXCEPT ![x] = to]
  /\ touched' = TRUE
  /\ UNCHANGED <<entities, manual, face, parent, known, unused, sync, req>>

(* The walk up from the new parent meets e.                                *)
Inside(e, to) == to # None /\ e \in Above(to)

(* PUT /api/entities/{e}/parent                                            *)
CheckMove(r, e, to) ==
  /\ req[r] = Idle /\ Room /\ Edit
  /\ e \in entities
  /\ to # None => to \in entities /\ to # e /\ ~Inside(e, to)
  /\ req' = [req EXCEPT ![r] = [kind |-> "move", e |-> e, to |-> to, clean |-> TRUE]]
  /\ UNCHANGED <<tree, sync, touched>>

\* a parent that is gone breaks the foreign key, an entity that is gone
\* matches no row: nothing changes
CommitMove(r) ==
  LET q == req[r]
      possible == q.e \in entities /\ q.to \in entities \cup {None}
  IN  /\ q.kind = "move"
      /\ parent' = IF possible THEN [parent EXCEPT ![q.e] = q.to] ELSE parent
      /\ touched' = (touched \/ possible)
      /\ UNCHANGED <<entities, manual, face, known, record, unused, sync, edits>>
      /\ req' = Overtaken(r)

(* POST /api/entities/{src}/merge, and attach-source, which ends in it.    *)
CheckMerge(r, src, tgt) ==
  /\ req[r] = Idle /\ Room /\ Edit
  /\ src \in entities \ manual /\ tgt \in entities \ {src}
  /\ LET inside == src \in Above(tgt)
     IN  req' = [req EXCEPT ![r] =
           [kind |-> "merge", src |-> src, tgt |-> tgt, inside |-> inside,
            above |-> IF inside THEN parent[src] ELSE None, clean |-> TRUE]]
  /\ UNCHANGED <<tree, sync, touched>>

\* all the children move, the target stays where it is
BugAdopted(q) ==
  [e \in Entities |-> IF parent[e] = q.src THEN q.tgt ELSE parent[e]]

(* The target leaves the subtree of the source for the source's own place, *)
(* the source's children come under the target.                            *)
Adopted(q) ==
  [e \in Entities |->
     IF e = q.tgt
       THEN IF q.inside THEN IF q.above = q.tgt THEN None ELSE q.above
            ELSE parent[e]
     ELSE IF parent[e] = q.src THEN q.tgt
     ELSE parent[e]]

(* The transaction of merge_entity.  The target may be gone: what has to   *)
(* point at it breaks a foreign key; if nothing has to, the source goes.   *)
(* So does a replacement parent that is gone.                              *)
CommitMerge(r) ==
  LET q == req[r]
      moving == \/ \E x \in Things : record[x] = q.src
                \/ \E e \in entities \ {q.tgt} : parent[e] = q.src
      refused == \/ q.tgt \notin entities /\ moving
                 \/ q.tgt \in entities /\ q.inside /\ q.above \notin entities \cup {None, q.tgt}
  IN  /\ q.kind = "merge"
      /\ IF refused THEN UNCHANGED <<tree, touched>>
         ELSE /\ entities' = entities \ {q.src}
              /\ manual' = manual \ {q.src}
              /\ face' = [face EXCEPT ![q.src] = None]
              /\ parent' = [Without(IF q.tgt \in entities THEN Adopted(q) ELSE parent, q.src)
                              EXCEPT ![q.src] = None]
              /\ record' = [x \in Things |-> IF record[x] = q.src THEN q.tgt ELSE record[x]]
              /\ touched' = TRUE
              /\ UNCHANGED <<known, unused>>
      /\ UNCHANGED <<sync, edits>>
      /\ req' = Overtaken(r)

-----------------------------------------------------------------------------
(* sync_one: what the remote side reports now, behind the provider's lock; *)
(* a guest may be reported without its host.                               *)
Begin(p, reported) ==
  /\ sync[p] = Resting
  /\ Room
  /\ \A x \in reported : ReportedBy[x] = p
  /\ sync' = [sync EXCEPT ![p] =
       [phase |-> "next",
        run |-> [todo |-> reported, ids |-> [h \in Hosts |-> None]]]]
  /\ UNCHANGED <<tree, req, touched, edits>>

(* What a thing is to hang under: its host, as this sync stored it; for a  *)
(* proxy host whatever bears what it forwards to now, a discovery or an    *)
(* entity made by hand, if there is one.                                   *)
Ups(p, x) ==
  IF HostOf[x] # None THEN {sync[p].run.ids[HostOf[x]]}
  ELSE IF Answers[x] = {} THEN {None}
  ELSE {None} \cup {e \in entities : face[e] \in Answers[x] \cup {None}}

(* _store_record reads the record of the next thing; Nginx Proxy Manager   *)
(* has looked for the target just before.                                  *)
ReadRecord(p, x) ==
  /\ sync[p].phase = "next"
  /\ x \in sync[p].run.todo /\ HostOf[x] \notin sync[p].run.todo
  /\ \E up \in Ups(p, x) :
       sync' = [sync EXCEPT ![p] =
         [phase |-> "match",
          storing |-> [run |-> [sync[p].run EXCEPT !.todo = @ \ {x}],
                       x |-> x, seen |-> record[x], e |-> None,
                       free |-> FALSE, up |-> up]]]
  /\ UNCHANGED <<tree, req, touched, edits>>

\* any discovery of that name, whatever it is
BugNamesakes(x) == IF Alike[x] = {} THEN {} ELSE entities \ manual

(* The discovered hosts that bear the name of host x; a name may change.   *)
Namesakes(x) == {e \in entities \ manual : face[e] \in Alike[x]}

(* The sync goes on with e, with the origin it has read.                   *)
Found(p, e) ==
  sync' = [sync EXCEPT ![p] =
    [phase |-> "write",
     storing |-> [sync[p].storing EXCEPT !.e = e, !.free = e \notin manual]]]

\* only a discovery is found back by its record
BugLinked(e) == e \in entities \ manual
Linked(e) == e \in entities

(* The entity of the record; when that is gone, or there was none, a host  *)
(* by its name and a container by the records that bear its Docker id.     *)
Match(p) ==
  LET q == sync[p].storing
      twins == {record[y] : y \in Alike[q.x]} \ {None}
  IN  /\ sync[p].phase = "match"
      /\ \/ Linked(q.seen) /\ Found(p, q.seen)
         \/ /\ ~Linked(q.seen) /\ HostOf[q.x] = None
            /\ \E e \in Namesakes(q.x) \cup {None} : Found(p, e)
         \/ /\ ~Linked(q.seen) /\ HostOf[q.x] # None /\ twins = {}
            /\ Found(p, None)
         \/ /\ ~Linked(q.seen) /\ HostOf[q.x] # None
            /\ \E e \in twins :
                 sync' = [sync EXCEPT ![p] =
                   [phase |-> "guess", storing |-> [q EXCEPT !.e = e]]]
      /\ UNCHANGED <<tree, req, touched, edits>>

(* The entity of that other record, which may be gone by now.              *)
MatchTwin(p) ==
  LET e == sync[p].storing.e
  IN  /\ sync[p].phase = "guess"
      /\ Found(p, IF e \in entities THEN e ELSE None)
      /\ UNCHANGED <<tree, req, touched, edits>>

(* Its first transaction: a discovery is named and hung again,             *)
(* COALESCE(?,parent_id); of what was manual only the status changes; a new*)
(* thing becomes a discovery.  A parent that is gone breaks the foreign    *)
(* key.                                                                    *)
WriteEntity(p) ==
  LET q == sync[p].storing
      stored(e) ==
        [sync EXCEPT ![p] =
          [phase |-> "record", storing |-> [q EXCEPT !.e = e, !.free = FALSE, !.up = None]]]
      renamed == q.free /\ q.e \in entities
      refused == q.up \notin entities \cup {None} /\ (q.e = None \/ renamed)
  IN  /\ sync[p].phase = "write"
      /\ \/ /\ refused
            /\ sync' = [sync EXCEPT ![p] = Resting]
            /\ UNCHANGED <<entities, face, parent, unused>>
         \/ /\ ~refused /\ q.e # None
            /\ sync' = stored(q.e)
            /\ face' = IF renamed THEN [face EXCEPT ![q.e] = q.x] ELSE face
            /\ parent' = IF renamed /\ q.up # None THEN [parent EXCEPT ![q.e] = q.up]
                         ELSE parent
            /\ UNCHANGED <<entities, unused>>
         \/ /\ ~refused /\ q.e = None
            /\ \E new \in unused :
                 /\ entities' = entities \cup {new}
                 /\ unused' = unused \ {new}
                 /\ face' = [face EXCEPT ![new] = q.x]
                 /\ parent' = [parent EXCEPT ![new] = q.up]
                 /\ sync' = stored(new)
      /\ UNCHANGED <<manual, known, record, touched, edits>>
      /\ req' = Overtaken(None)

\* the record goes in whatever became of its entity
BugStorable(e) == TRUE
Storable(e) == e \in entities

(* Its second transaction: an entity that is gone ends the sync.           *)
WriteRecord(p) ==
  LET q == sync[p].storing
      run == IF q.x \in Hosts THEN [q.run EXCEPT !.ids[q.x] = q.e] ELSE q.run
  IN  /\ sync[p].phase = "record"
      /\ IF Storable(q.e)
           THEN known' = known \cup {q.x} /\ record' = [record EXCEPT ![q.x] = q.e]
           ELSE UNCHANGED <<known, record>>
      /\ sync' = [sync EXCEPT ![p] =
           IF Storable(q.e) /\ run.todo # {} THEN [phase |-> "next", run |-> run] ELSE Resting]
      /\ UNCHANGED <<entities, manual, face, parent, unused, req, touched, edits>>

(* The remote side stops answering half-way.                               *)
BreakOff(p) ==
  /\ sync[p].phase = "next"
  /\ sync' = [sync EXCEPT ![p] = Resting]
  /\ UNCHANGED <<tree, req, touched, edits>>

(* The process stops and starts again.                                     *)
Restart ==
  /\ sync' = [p \in Providers |-> Resting]
  /\ req' = [r \in Requests |-> Idle]
  /\ UNCHANGED <<tree, touched, edits>>

Next ==
  \/ \E e \in Entities : CreateEntity(e) \/ Promote(e) \/ DeleteEntity(e)
  \/ \E x \in Things, to \in entities \cup {None} : MapRecord(x, to)
  \/ \E r \in Requests :
       \/ \E e \in entities, to \in entities \cup {None} : CheckMove(r, e, to)
       \/ \E src, tgt \in entities : CheckMerge(r, src, tgt)
       \/ CommitMove(r) \/ CommitMerge(r)
  \/ \E p \in Providers :
       \/ \E reported \in Polls : Begin(p, reported)
       \/ \E x \in Things : ReadRecord(p, x)
       \/ Match(p) \/ MatchTwin(p) \/ WriteEntity(p) \/ WriteRecord(p) \/ BreakOff(p)
  \/ Restart

Spec == Init /\ [][Next]_vars

-----------------------------------------------------------------------------
(* Every variable has its type, and no parent and no record points at an   *)
(* entity that is gone, whichever of handler and adapter was first.        *)
TypeOK ==
  /\ entities \subseteq Entities /\ manual \subseteq entities
  /\ parent \in [Entities -> entities \cup {None}]
  /\ face \in [Entities -> Things \cup {None}]
  /\ \A e \in Entities \ entities : parent[e] = None /\ face[e] = None
  /\ known \subseteq Things
  /\ \A x \in Things \ known : record[x] = None
  /\ record \in [Things -> entities \cup {None}]
  /\ unused \subseteq Entities \ entities
  /\ sync \in [Providers -> Sync]
  /\ req \in [Requests -> {Idle} \cup Move \cup Merge]
  /\ touched \in BOOLEAN
  /\ edits \in Nat

OnCircle(e) == e \in Above(e)
NoCircle == \A e \in Entities : ~OnCircle(e)

(* Every handler refuses a circle, and a merge cannot close one either,    *)
(* wherever its target hangs: only a handler that was overtaken between    *)
(* its walk up the tree and its transaction does, or an adapter that hangs *)
(* a thing back under its host.                                            *)
OnlyAnOverlapOrASyncClosesACircle ==
  [][parent' # parent /\ ~NoCircle' /\ NoCircle =>
       \/ \E r \in Requests : req[r] # Idle /\ req'[r] = Idle /\ ~req[r].clean
       \/ \E p \in Providers : sync[p].phase = "write" /\ sync'[p].phase = "record"]_vars

(* The things whose reports, over all polls, lead back to themselves: a    *)
(* proxy host that forwards to the name of its own service, or two that    *)
(* forward to each other's, not even at the same time.                     *)
Reports == [x \in Things |-> Answers[x] \cup ({HostOf[x]} \ {None})]
ReportsItself(x) ==
  \A s \in SUBSET Things : (\A y \in s \cup {x} : Reports[y] \subseteq s) => x \in s

(* Left alone, the adapters build a tree, through every interleaving,      *)
(* every sync that breaks off and every guess by name or by Docker id: a   *)
(* circle needs somebody who moved, merged or mapped something, or a       *)
(* remote side whose reports are one.                                      *)
AdaptersAloneBuildATree ==
  ~touched => \A e \in Entities : OnCircle(e) =>
                \E x \in Things : ReportsItself(x) /\ face[e] = x

(* A record leaves an entity that still exists in two ways only: somebody  *)
(* maps it, or a sync stores the thing that had read the record before     *)
(* somebody else changed it.  What was merged or mapped before a sync read *)
(* the record stays where it is.                                           *)
RecordsStay ==
  [][\A x \in Things :
       record[x] # None /\ record'[x] # record[x] /\ record[x] \in entities' =>
         \/ \E to \in entities \cup {None} : MapRecord(x, to)
         \/ \E p \in Providers :
              /\ sync[p].phase = "record" /\ sync[p].storing.x = x
              /\ sync[p].storing.seen # record[x]]_vars
=============================================================================
