--------------------------- MODULE EntityTreeProofs ---------------------------
(***************************************************************************)
(* Proofs about EntityTree, for every number of entities, providers,       *)
(* things and requests: no parent and no record dangles, no sync moves a   *)
(* record it has read as it is, no handler closes a circle unless it was   *)
(* overtaken, and the adapters alone build a tree.                         *)
(***************************************************************************)
EXTENDS EntityTree, TLAPS

Requested == {Idle} \cup Move \cup Merge

LEMMA OvertakenTyping ==
  ASSUME TypeOK, NEW r, req' = Overtaken(r)
  PROVE  (req \in [Requests -> {Idle} \cup Move \cup Merge])'
<1>1. ASSUME NEW o \in Requests, NEW c \in BOOLEAN, req[o] # Idle
      PROVE  [req[o] EXCEPT !.clean = @ /\ c] \in Requested
  <2>1. CASE req[o] \in Move
    BY <2>1 DEF Move, Requested
  <2>2. CASE req[o] \in Merge
    BY <2>2 DEF Merge, Requested
  <2> QED BY <1>1, <2>1, <2>2 DEF TypeOK
<1>2. (parent' = parent) \in BOOLEAN /\ (entities' \subseteq entities) \in BOOLEAN
  OBVIOUS
<1>3. ASSUME NEW o \in Requests
      PROVE  req'[o] \in Requested
  BY <1>1, <1>2, <1>3 DEF Overtaken, Requested
<1> QED BY <1>3 DEF Overtaken, Requested

(* The phases of a sync, and those in which it is storing a thing.         *)
Active == {"match", "guess", "write", "record"}

LEMMA SyncPhases ==
  ASSUME NEW q \in Sync
  PROVE  /\ q.phase = "next" => q.run \in Running
         /\ q.phase \in Active => q.storing \in Storing
BY DEF Sync, Resting, Active

LEMMA SyncTyping ==
  /\ Resting \in Sync
  /\ \A run \in Running : [phase |-> "next", run |-> run] \in Sync
  /\ \A c \in Active, s \in Storing : [phase |-> c, storing |-> s] \in Sync
BY DEF Sync, Active

LEMMA FoundTyping ==
  ASSUME TypeOK, NEW p \in Providers, sync[p].phase \in Active,
         NEW e \in Entities \cup {None}, Found(p, e)
  PROVE  sync' \in [Providers -> Sync]
<1> DEFINE s == [sync[p].storing EXCEPT !.e = e, !.free = e \notin manual]
<1>1. sync[p].storing \in Storing
  BY SyncPhases DEF TypeOK
<1>2. s \in Storing
  BY <1>1 DEF Storing
<1> HIDE DEF s
<1>3. [phase |-> "write", storing |-> s] \in Sync
  BY <1>2, SyncTyping DEF Active
<1> QED BY <1>3 DEF Found, TypeOK, s

LEMMA WithoutTyping ==
  ASSUME NEW K, NEW E, NEW f \in [K -> E \cup {None}], NEW e
  PROVE  Without(f, e) \in [K -> (E \ {e}) \cup {None}]
BY DEF Without

(* A merge leaves nothing that points at its source.                       *)
LEMMA AdoptedTyping ==
  ASSUME TypeOK, NEW q \in Merge, q.tgt \in entities,
         q.inside => q.above \in entities \cup {None}
  PROVE  /\ Adopted(q) \in [Entities -> entities \cup {None}]
         /\ \A e \in Entities \ entities : Adopted(q)[e] = None
BY EntityTreeAssumption DEF TypeOK, Adopted, Merge

-----------------------------------------------------------------------------
LEMMA TypeInit == Init => TypeOK
<1> SUFFICES ASSUME Init PROVE TypeOK
  OBVIOUS
<1>1. sync \in [Providers -> Sync] /\ req \in [Requests -> {Idle} \cup Move \cup Merge]
  BY SyncTyping DEF Init
<1>2. edits \in Nat /\ touched \in BOOLEAN
  BY DEF Init
<1> QED BY <1>1, <1>2 DEF Init, TypeOK

(* What the first transaction of _store_record does.                       *)
LEMMA WriteEffects ==
  ASSUME TypeOK, NEW p \in Providers, WriteEntity(p)
  PROVE  /\ parent' # parent => sync'[p].phase = "record"
         /\ LET q == sync[p].storing IN
             \/ /\ sync' = [sync EXCEPT ![p] = Resting]
                /\ UNCHANGED <<entities, face, parent, unused>>
             \/ /\ q.e # None /\ UNCHANGED <<entities, unused>>
                /\ \/ UNCHANGED <<face, parent>>
                   \/ /\ q.e \in entities /\ face' = [face EXCEPT ![q.e] = q.x]
                      /\ \/ parent' = parent
                         \/ q.up \in entities /\ parent' = [parent EXCEPT ![q.e] = q.up]
             \/ /\ q.e = None /\ q.up \in entities \cup {None}
                /\ \E new \in unused :
                     /\ entities' = entities \cup {new} /\ unused' = unused \ {new}
                     /\ face' = [face EXCEPT ![new] = q.x]
                     /\ parent' = [parent EXCEPT ![new] = q.up]
<1>1. ASSUME parent' # parent PROVE sync'[p].phase = "record"
  <2> DEFINE stored(e) == [phase |-> "record",
                           storing |-> [sync[p].storing EXCEPT !.e = e, !.free = FALSE, !.up = None]]
  <2>1. \E e : sync' = [sync EXCEPT ![p] = stored(e)]
    BY <1>1 DEF WriteEntity
  <2>2. \A e : stored(e).phase = "record"
    OBVIOUS
  <2> HIDE DEF stored
  <2> QED BY <2>1, <2>2 DEF TypeOK
<1> QED BY <1>1 DEF WriteEntity

LEMMA TypeStep == TypeOK /\ [Next]_vars => TypeOK'
<1> SUFFICES ASSUME TypeOK, [Next]_vars
             PROVE  TypeOK'
  OBVIOUS
<1>0. /\ \A r \in Requests : req[r] \in {Idle} \cup Move \cup Merge
      /\ \A p \in Providers : sync[p] \in Sync
      /\ None \notin Entities
  BY EntityTreeAssumption DEF TypeOK
<1>1. ASSUME NEW e \in Entities, CreateEntity(e) \/ Promote(e)
      PROVE  TypeOK'
  BY <1>1 DEF TypeOK, CreateEntity, Promote, Edit
<1>2. ASSUME NEW e \in Entities, DeleteEntity(e)
      PROVE  TypeOK'
  <2>1. (req \in [Requests -> {Idle} \cup Move \cup Merge])'
    BY <1>2, OvertakenTyping DEF DeleteEntity
  <2>2. /\ Without(parent, e) \in [Entities -> (entities \ {e}) \cup {None}]
        /\ Without(record, e) \in [Things -> (entities \ {e}) \cup {None}]
    BY WithoutTyping DEF TypeOK
  <2>3. /\ parent' \in [Entities -> entities' \cup {None}]
        /\ record' \in [Things -> entities' \cup {None}]
        /\ \A o \in Entities \ entities' : parent'[o] = None
        /\ \A x \in Things \ known : record'[x] = None
    BY <1>2, <2>2 DEF DeleteEntity, TypeOK, Without
  <2> QED BY <1>2, <2>1, <2>3 DEF TypeOK, DeleteEntity, Edit
<1>2a. ASSUME NEW x \in Things, NEW to \in entities \cup {None}, MapRecord(x, to)
       PROVE  TypeOK'
  BY <1>2a DEF TypeOK, MapRecord, Edit
<1>3. ASSUME NEW r \in Requests, NEW e \in entities, NEW to \in entities \cup {None},
             CheckMove(r, e, to)
      PROVE  TypeOK'
  <2>1. [kind |-> "move", e |-> e, to |-> to, clean |-> TRUE] \in Move
    BY DEF TypeOK, Move
  <2> QED BY <1>3, <2>1 DEF TypeOK, CheckMove, tree, Edit
<1>4. ASSUME NEW r \in Requests, NEW src \in entities, NEW tgt \in entities,
             CheckMerge(r, src, tgt)
      PROVE  TypeOK'
  <2> DEFINE inside == src \in Above(tgt)
             q == [kind |-> "merge", src |-> src, tgt |-> tgt, inside |-> inside,
                   above |-> IF inside THEN parent[src] ELSE None, clean |-> TRUE]
  <2>1. src # tgt /\ inside \in BOOLEAN /\ src \in Entities /\ tgt \in Entities
    BY <1>4 DEF CheckMerge, TypeOK
  <2>2. (IF inside THEN parent[src] ELSE None) \in Entities \cup {None}
    BY DEF TypeOK
  <2>3. req' = [req EXCEPT ![r] = q] /\ UNCHANGED <<tree, sync, touched>> /\ edits' \in Nat
    BY <1>4 DEF CheckMerge, Edit, TypeOK
  <2> HIDE DEF inside
  <2>4. q \in Merge
    BY <2>1, <2>2 DEF Merge
  <2> QED BY <2>3, <2>4 DEF TypeOK, tree
<1>5. ASSUME NEW r \in Requests, CommitMove(r)
      PROVE  TypeOK'
  <2>1. req[r] \in Move
    BY <1>0, <1>5 DEF CommitMove, Idle, Merge
  <2>2. (req \in [Requests -> {Idle} \cup Move \cup Merge])'
    BY <1>5, OvertakenTyping DEF CommitMove
  <2> QED BY <1>5, <2>1, <2>2 DEF TypeOK, CommitMove, Move
<1>6. ASSUME NEW r \in Requests, CommitMerge(r)
      PROVE  TypeOK'
  <2>1. req[r] \in Merge
    BY <1>0, <1>6 DEF CommitMerge, Idle, Move
  <2>2. (req \in [Requests -> {Idle} \cup Move \cup Merge])'
    BY <1>6, OvertakenTyping DEF CommitMerge
  <2>3. CASE UNCHANGED <<tree, touched>>
    BY <1>6, <2>2, <2>3 DEF TypeOK, CommitMerge, tree
  <2>4. CASE ~UNCHANGED <<tree, touched>>
    <3> DEFINE q == req[r]
               hung == IF q.tgt \in entities THEN Adopted(q) ELSE parent
    <3>1. /\ entities' = entities \ {q.src}
          /\ manual' = manual \ {q.src}
          /\ face' = [face EXCEPT ![q.src] = None] /\ known' = known
          /\ parent' = [Without(hung, q.src) EXCEPT ![q.src] = None]
          /\ record' = [x \in Things |-> IF record[x] = q.src THEN q.tgt ELSE record[x]]
          /\ touched' = TRUE /\ unused' = unused /\ sync' = sync /\ edits' = edits
      BY <1>6, <2>4 DEF CommitMerge
    <3>2. /\ q.tgt \in entities /\ q.inside => q.above \in entities \cup {None}
          /\ q.tgt \notin entities => \A x \in Things : record[x] # q.src
      BY <1>6, <2>4 DEF CommitMerge
    <3>3. /\ hung \in [Entities -> entities \cup {None}]
          /\ \A e \in Entities \ entities : hung[e] = None
      BY <2>1, <3>2, AdoptedTyping DEF TypeOK
    <3> HIDE DEF hung
    <3>4. Without(hung, q.src) \in [Entities -> (entities \ {q.src}) \cup {None}]
      BY <3>3, WithoutTyping
    <3>5. /\ parent' \in [Entities -> entities' \cup {None}]
          /\ \A e \in Entities \ entities' : parent'[e] = None
      BY <3>1, <3>3, <3>4 DEF Without
    <3>6. /\ record' \in [Things -> entities' \cup {None}]
          /\ \A x \in Things \ known : record'[x] = None
      BY <1>0, <2>1, <3>1, <3>2 DEF TypeOK, Merge
    <3> QED BY <2>2, <3>1, <3>5, <3>6 DEF TypeOK
  <2> QED BY <2>3, <2>4
<1>7. ASSUME NEW p \in Providers, NEW reported \in Polls, Begin(p, reported)
      PROVE  TypeOK'
  <2>1. [todo |-> reported, ids |-> [h \in Hosts |-> None]] \in Running
    BY EntityTreeAssumption DEF Running
  <2> QED BY <1>7, <2>1, SyncTyping DEF TypeOK, Begin, tree
<1>8. ASSUME NEW p \in Providers, NEW x \in Things, ReadRecord(p, x)
      PROVE  TypeOK'
  <2>1. PICK up \in Ups(p, x) :
          sync' = [sync EXCEPT ![p] =
            [phase |-> "match",
             storing |-> [run |-> [sync[p].run EXCEPT !.todo = @ \ {x}],
                          x |-> x, seen |-> record[x], e |-> None,
                          free |-> FALSE, up |-> up]]]
    BY <1>8 DEF ReadRecord
  <2>2. sync[p].run \in Running
    BY <1>0, <1>8, SyncPhases DEF ReadRecord
  <2>3. up \in Entities \cup {None}
    BY <2>2, EntityTreeAssumption DEF Ups, TypeOK, Running, Hosts
  <2>4. record[x] \in Entities \cup {None}
    BY DEF TypeOK
  <2> DEFINE s == [run |-> [sync[p].run EXCEPT !.todo = @ \ {x}],
                   x |-> x, seen |-> record[x], e |-> None, free |-> FALSE, up |-> up]
  <2>5. s \in Storing
    BY <2>2, <2>3, <2>4 DEF Storing, Running
  <2> HIDE DEF s
  <2>6. [phase |-> "match", storing |-> s] \in Sync
    BY <2>5, SyncTyping DEF Active
  <2>7. sync' \in [Providers -> Sync]
    BY <2>1, <2>6 DEF TypeOK, s
  <2> QED BY <1>8, <2>7 DEF TypeOK, ReadRecord, tree
<1>8a. ASSUME NEW p \in Providers, Match(p) \/ MatchTwin(p)
       PROVE  TypeOK'
  <2> DEFINE q == sync[p].storing
  <2>1. sync[p].phase \in Active /\ q \in Storing
    BY <1>0, <1>8a, SyncPhases DEF Match, MatchTwin, Active
  <2>2. CASE \E e \in Entities \cup {None} : Found(p, e)
    <3>1. sync' \in [Providers -> Sync]
      BY <2>1, <2>2, FoundTyping
    <3> QED BY <1>8a, <3>1 DEF TypeOK, Match, MatchTwin, tree
  <2>3. ASSUME NEW e \in Entities,
               sync' = [sync EXCEPT ![p] = [phase |-> "guess", storing |-> [q EXCEPT !.e = e]]]
        PROVE  TypeOK'
    <3>1. [q EXCEPT !.e = e] \in Storing
      BY <2>1 DEF Storing
    <3>2. sync' \in [Providers -> Sync]
      BY <2>3, <3>1, SyncTyping DEF Active, TypeOK
    <3> QED BY <1>8a, <3>2 DEF TypeOK, Match, MatchTwin, tree
  <2>4. CASE Match(p)
    <3>1. {record[y] : y \in Alike[q.x]} \ {None} \subseteq Entities
      BY <2>1, EntityTreeAssumption DEF TypeOK, Storing
    <3> QED BY <2>2, <2>3, <2>4, <3>1 DEF Match, Linked, Namesakes, TypeOK
  <2>5. CASE MatchTwin(p)
    BY <2>1, <2>2, <2>5 DEF MatchTwin, Storing
  <2> QED BY <1>8a, <2>4, <2>5
<1>9. ASSUME NEW p \in Providers, WriteEntity(p)
      PROVE  TypeOK'
  <2> DEFINE q == sync[p].storing
             stored(e) == [phase |-> "record",
                           storing |-> [q EXCEPT !.e = e, !.free = FALSE, !.up = None]]
  <2>1. q \in Storing /\ sync[p].phase = "write"
    BY <1>0, <1>9, SyncPhases DEF WriteEntity, Active
  <2>2. (req \in [Requests -> {Idle} \cup Move \cup Merge])'
    BY <1>9, OvertakenTyping DEF WriteEntity
  <2>3. \A e \in Entities \cup {None} : stored(e) \in Sync
    <3> SUFFICES ASSUME NEW e \in Entities \cup {None} PROVE stored(e) \in Sync
      OBVIOUS
    <3>1. [q EXCEPT !.e = e, !.free = FALSE, !.up = None] \in Storing
      BY <2>1 DEF Storing
    <3> QED BY <3>1, SyncTyping DEF Active
  <2>4. \/ sync' = [sync EXCEPT ![p] = Resting]
        \/ \E e \in Entities \cup {None} : sync' = [sync EXCEPT ![p] = stored(e)]
    BY <1>9, <2>1 DEF WriteEntity, Storing, TypeOK
  <2>5. sync' \in [Providers -> Sync]
    <3> HIDE DEF stored
    <3> QED BY <2>3, <2>4, SyncTyping DEF TypeOK
  <2>6. /\ entities' \subseteq Entities /\ entities \subseteq entities'
        /\ unused' \subseteq Entities \ entities'
        /\ parent' \in [Entities -> entities' \cup {None}]
        /\ face' \in [Entities -> Things \cup {None}]
        /\ \A o \in Entities \ entities' : parent'[o] = None /\ face'[o] = None
    <3>1. q.x \in Things
      BY <2>1 DEF Storing
    <3>2. /\ entities \subseteq Entities /\ unused \subseteq Entities \ entities
          /\ parent \in [Entities -> entities \cup {None}]
          /\ face \in [Entities -> Things \cup {None}]
          /\ \A o \in Entities \ entities : parent[o] = None /\ face[o] = None
      BY DEF TypeOK
    <3> HIDE DEF q
    <3> QED BY <1>9, <3>1, <3>2, WriteEffects DEF q
  <2> QED BY <1>9, <2>2, <2>5, <2>6 DEF TypeOK, WriteEntity
<1>10. ASSUME NEW p \in Providers, WriteRecord(p)
       PROVE  TypeOK'
  <2> DEFINE q == sync[p].storing
             run == IF q.x \in Hosts THEN [q.run EXCEPT !.ids[q.x] = q.e] ELSE q.run
  <2>1. q \in Storing
    BY <1>0, <1>10, SyncPhases DEF WriteRecord, Active
  <2>2. run \in Running /\ q.x \in Things
    BY <2>1 DEF Storing, Running
  <2>3. /\ record' \in [Things -> entities \cup {None}] /\ known' \subseteq Things
        /\ \A x \in Things \ known' : record'[x] = None
    BY <1>10, <2>2 DEF WriteRecord, Storable, TypeOK
  <2>4. sync' \in [Providers -> Sync]
    <3> HIDE DEF run
    <3>1. sync' = [sync EXCEPT ![p] = [phase |-> "next", run |-> run]]
            \/ sync' = [sync EXCEPT ![p] = Resting]
      BY <1>10 DEF WriteRecord, run
    <3> QED BY <2>2, <3>1, SyncTyping DEF TypeOK
  <2> QED BY <1>10, <2>3, <2>4 DEF TypeOK, WriteRecord
<1>11. ASSUME NEW p \in Providers, BreakOff(p)
       PROVE  TypeOK'
  BY <1>11, SyncTyping DEF TypeOK, BreakOff, tree
<1>12. CASE Restart
  BY <1>12, SyncTyping DEF TypeOK, Restart, tree
<1>13. CASE UNCHANGED vars
  BY <1>13 DEF TypeOK, vars, tree
<1> QED
  BY <1>1, <1>2, <1>2a, <1>3, <1>4, <1>5, <1>6, <1>7, <1>8, <1>8a, <1>9, <1>10, <1>11,
     <1>12, <1>13 DEF Next

(* In every behaviour parents and records point at entities that exist,    *)
(* whichever of handlers and adapters overtakes which.                     *)
THEOREM TypeCorrect == Spec => []TypeOK
BY TypeInit, TypeStep, PTL DEF Spec

-----------------------------------------------------------------------------
(* A sync that has matched a thing carries the entity its record pointed at*)
(* when it read it, unless that entity is gone; and none comes back.       *)
Stored(q) ==
  q.phase \in Active =>
    /\ q.storing.seen \notin unused
    /\ q.storing.seen \in entities => q.phase = "match" \/ q.storing.e = q.storing.seen

SyncsInStep == \A p \in Providers : Stored(sync[p])

LEMMA InStepInit == Init => SyncsInStep
BY DEF Init, SyncsInStep, Stored, Active, Resting

\* no entity comes back
Onward == unused' \subseteq unused /\ entities' \subseteq entities \cup unused

(* One sync goes on, the others stay where they are.                       *)
LEMMA InStepNext ==
  ASSUME SyncsInStep, Onward, NEW p \in Providers,
         \A o \in Providers \ {p} : sync'[o] \in {sync[o], Resting}, Stored(sync[p])'
  PROVE  SyncsInStep'
<1> SUFFICES ASSUME NEW o \in Providers \ {p} PROVE Stored(sync[o])'
  BY DEF SyncsInStep
<1> QED BY DEF SyncsInStep, Stored, Onward, Active, Resting

(* Steps outside the syncs.                                                *)
LEMMA InStepKept ==
  ASSUME SyncsInStep, Onward, \A p \in Providers : sync'[p] \in {sync[p], Resting}
  PROVE  SyncsInStep'
BY DEF SyncsInStep, Stored, Onward, Active, Resting

(* What the steps of a sync leave in it.                                   *)
LEMMA FoundFields ==
  ASSUME TypeOK, NEW p \in Providers, sync[p].phase \in Active, NEW e, Found(p, e)
  PROVE  /\ sync'[p].phase = "write" /\ sync'[p].storing.e = e
         /\ sync'[p].storing.free = (e \notin manual)
         /\ sync'[p].storing.seen = sync[p].storing.seen
         /\ sync'[p].storing.x = sync[p].storing.x /\ sync'[p].storing.up = sync[p].storing.up
         /\ sync'[p].storing.run = sync[p].storing.run
         /\ \A o \in Providers \ {p} : sync'[o] = sync[o]
<1>1. sync[p].storing \in Storing
  BY SyncPhases DEF TypeOK
<1> QED BY <1>1 DEF Found, TypeOK, Storing

LEMMA ReadFields ==
  ASSUME TypeOK, NEW p \in Providers, NEW x \in Things, ReadRecord(p, x)
  PROVE  /\ sync'[p].phase = "match" /\ sync'[p].storing.x = x
         /\ sync'[p].storing.seen = record[x] /\ sync'[p].storing.e = None
         /\ sync'[p].storing.up \in Ups(p, x)
         /\ sync'[p].storing.run.ids = sync[p].run.ids
         /\ \A o \in Providers \ {p} : sync'[o] = sync[o]
<1>1. sync[p].run \in Running
  BY SyncPhases DEF TypeOK, ReadRecord
<1> QED BY <1>1 DEF ReadRecord, TypeOK, Running

LEMMA GuessFields ==
  ASSUME TypeOK, NEW p \in Providers, sync[p].phase \in Active, NEW e,
         sync' = [sync EXCEPT ![p] =
           [phase |-> "guess", storing |-> [sync[p].storing EXCEPT !.e = e]]]
  PROVE  /\ sync'[p].phase = "guess" /\ sync'[p].storing.e = e
         /\ sync'[p].storing.seen = sync[p].storing.seen
         /\ sync'[p].storing.x = sync[p].storing.x /\ sync'[p].storing.up = sync[p].storing.up
         /\ sync'[p].storing.run = sync[p].storing.run
         /\ \A o \in Providers \ {p} : sync'[o] = sync[o]
<1>1. sync[p].storing \in Storing
  BY SyncPhases DEF TypeOK
<1> QED BY <1>1 DEF TypeOK, Storing

LEMMA WrittenFields ==
  ASSUME TypeOK, NEW p \in Providers, WriteEntity(p), sync'[p] # Resting
  PROVE  /\ sync'[p].phase = "record" /\ sync'[p].storing.up = None
         /\ sync'[p].storing.seen = sync[p].storing.seen
         /\ sync'[p].storing.x = sync[p].storing.x
         /\ sync'[p].storing.run = sync[p].storing.run
         /\ sync[p].storing.e # None => sync'[p].storing.e = sync[p].storing.e
         /\ sync[p].storing.e = None =>
              /\ sync'[p].storing.e \in unused
              /\ entities' = entities \cup {sync'[p].storing.e}
              /\ unused' = unused \ {sync'[p].storing.e}
              /\ face' = [face EXCEPT ![sync'[p].storing.e] = sync[p].storing.x]
              /\ parent' = [parent EXCEPT ![sync'[p].storing.e] = sync[p].storing.up]
<1> DEFINE q == sync[p].storing
           stored(e) == [phase |-> "record",
                         storing |-> [q EXCEPT !.e = e, !.free = FALSE, !.up = None]]
<1>1. q \in Storing /\ sync[p].phase = "write"
  BY SyncPhases DEF TypeOK, WriteEntity, Active
<1>2. \A e : /\ stored(e).phase = "record" /\ stored(e).storing.up = None
             /\ stored(e).storing.seen = q.seen /\ stored(e).storing.x = q.x
             /\ stored(e).storing.run = q.run /\ stored(e).storing.e = e
  BY <1>1 DEF Storing
<1>3. \/ q.e # None /\ sync'[p] = stored(q.e)
      \/ q.e = None /\ \E new \in unused :
           /\ sync'[p] = stored(new)
           /\ entities' = entities \cup {new} /\ unused' = unused \ {new}
           /\ face' = [face EXCEPT ![new] = q.x]
           /\ parent' = [parent EXCEPT ![new] = q.up]
  BY DEF WriteEntity, TypeOK
<1> HIDE DEF stored
<1> QED BY <1>2, <1>3

LEMMA InStepStep == TypeOK /\ SyncsInStep /\ [Next]_vars => SyncsInStep'
<1> SUFFICES ASSUME TypeOK, SyncsInStep, [Next]_vars
             PROVE  SyncsInStep'
  OBVIOUS
<1>0. /\ \A p \in Providers : sync[p] \in Sync
      /\ None \notin Entities /\ entities \cap unused = {} /\ unused \subseteq Entities
      /\ \A x \in Things : record[x] \in entities \cup {None}
  BY EntityTreeAssumption DEF TypeOK
<1>1. ASSUME NEW e \in Entities, CreateEntity(e) \/ Promote(e) \/ DeleteEntity(e)
      PROVE  SyncsInStep'
  BY <1>1, InStepKept DEF CreateEntity, Promote, DeleteEntity, Onward
<1>2. ASSUME NEW x \in Things, NEW to \in entities \cup {None}, MapRecord(x, to)
      PROVE  SyncsInStep'
  BY <1>2, InStepKept DEF MapRecord, Onward
<1>3. ASSUME NEW r \in Requests,
             \/ \E e \in entities, to \in entities \cup {None} : CheckMove(r, e, to)
             \/ \E src, tgt \in entities : CheckMerge(r, src, tgt)
             \/ CommitMove(r) \/ CommitMerge(r)
      PROVE  SyncsInStep'
  BY <1>3, InStepKept DEF CheckMove, CheckMerge, CommitMove, CommitMerge, tree, Onward
<1>4. ASSUME NEW p \in Providers, NEW reported \in Polls, Begin(p, reported)
      PROVE  SyncsInStep'
  <2>1. sync'[p].phase = "next" /\ \A o \in Providers \ {p} : sync'[o] = sync[o]
    BY <1>4 DEF Begin, TypeOK
  <2> QED BY <1>4, <2>1, InStepNext DEF Begin, tree, Stored, Active, Onward
<1>5. ASSUME NEW p \in Providers, NEW x \in Things, ReadRecord(p, x)
      PROVE  SyncsInStep'
  <2>1. /\ sync'[p].phase = "match" /\ sync'[p].storing.seen = record[x]
        /\ \A o \in Providers \ {p} : sync'[o] = sync[o]
        /\ UNCHANGED <<entities, unused>>
    BY <1>5, ReadFields DEF ReadRecord, tree
  <2>2. record[x] \notin unused
    BY <1>0
  <2> QED BY <2>1, <2>2, InStepNext DEF Stored, Onward
<1>6. ASSUME NEW p \in Providers, NEW e, Found(p, e), sync[p].phase \in Active,
             sync[p].storing.seen \in entities => e = sync[p].storing.seen,
             UNCHANGED <<entities, unused>>
      PROVE  SyncsInStep'
  BY <1>6, FoundFields, InStepNext DEF Stored, Onward, SyncsInStep
<1>7. ASSUME NEW p \in Providers, Match(p)
      PROVE  SyncsInStep'
  <2>1. sync[p].phase \in Active /\ UNCHANGED <<entities, unused>>
    BY <1>7 DEF Match, tree, Active
  <2>2. ASSUME NEW e, sync[p].storing.seen \notin entities,
               sync' = [sync EXCEPT ![p] =
                 [phase |-> "guess", storing |-> [sync[p].storing EXCEPT !.e = e]]]
        PROVE  SyncsInStep'
    BY <2>1, <2>2, GuessFields, InStepNext DEF Stored, Onward, SyncsInStep
  <2> QED BY <1>6, <1>7, <2>1, <2>2 DEF Match, Linked
<1>8. ASSUME NEW p \in Providers, MatchTwin(p)
      PROVE  SyncsInStep'
  BY <1>6, <1>8 DEF MatchTwin, tree, Active, SyncsInStep, Stored
<1>9. ASSUME NEW p \in Providers, WriteEntity(p)
      PROVE  SyncsInStep'
  <2>1. /\ Onward /\ \A o \in Providers \ {p} : sync'[o] = sync[o]
        /\ sync[p].phase = "write" /\ Stored(sync[p])
    BY <1>9 DEF WriteEntity, TypeOK, Onward, SyncsInStep
  <2>2. CASE sync'[p] = Resting
    BY <2>1, <2>2, InStepNext DEF Stored, Active, Resting
  <2>3. CASE sync'[p] # Resting /\ sync[p].storing.e # None
    BY <1>9, <2>1, <2>3, WrittenFields, InStepNext DEF Stored, Active, Onward, WriteEntity
  <2>4. CASE sync'[p] # Resting /\ sync[p].storing.e = None
    <3>1. sync[p].storing.seen \notin entities /\ sync[p].storing.seen \notin unused
      BY <1>0, <2>1, <2>4 DEF Stored, Active, TypeOK
    <3>2. Stored(sync[p])'
      BY <1>9, <2>4, <3>1, WrittenFields DEF Stored
    <3> QED BY <2>1, <3>2, InStepNext
  <2> QED BY <2>2, <2>3, <2>4
<1>10. ASSUME NEW p \in Providers, WriteRecord(p)
       PROVE  SyncsInStep'
  <2>1. /\ sync'[p].phase \in {"next", "idle"}
        /\ \A o \in Providers \ {p} : sync'[o] = sync[o]
    BY <1>10 DEF WriteRecord, TypeOK, Resting
  <2> QED BY <1>10, <2>1, InStepNext DEF Stored, Active, Onward, WriteRecord
<1>11. ASSUME NEW p \in Providers, BreakOff(p)
       PROVE  SyncsInStep'
  BY <1>11, InStepKept DEF BreakOff, tree, TypeOK, Onward
<1>12. CASE Restart
  BY <1>12, InStepKept DEF Restart, tree, Onward
<1>13. CASE UNCHANGED vars
  BY <1>13, InStepKept DEF vars, tree, Onward
<1> QED
  BY <1>1, <1>2, <1>3, <1>4, <1>5, <1>7, <1>8, <1>9, <1>10, <1>11, <1>12, <1>13 DEF Next

(* A step that takes a record off an entity that stays.                    *)
LEMMA RecordStep ==
  ASSUME TypeOK, SyncsInStep, [Next]_vars, NEW x \in Things,
         record[x] # None, record'[x] # record[x], record[x] \in entities'
  PROVE  \/ \E to \in entities \cup {None} : MapRecord(x, to)
         \/ \E p \in Providers :
              /\ sync[p].phase = "record" /\ sync[p].storing.x = x
              /\ sync[p].storing.seen # record[x]
<1>1. ASSUME NEW e \in Entities, CreateEntity(e) \/ Promote(e) \/ DeleteEntity(e)
      PROVE  FALSE
  BY <1>1 DEF CreateEntity, Promote, DeleteEntity, Without, TypeOK
<1>2. ASSUME NEW r \in Requests, CommitMerge(r)
      PROVE  FALSE
  BY <1>2 DEF CommitMerge, tree
<1>3. ASSUME NEW y \in Things, NEW to \in entities \cup {None}, MapRecord(y, to)
      PROVE  MapRecord(x, to)
  BY <1>3 DEF MapRecord, TypeOK
<1>4. ASSUME NEW p \in Providers, WriteRecord(p)
      PROVE  /\ sync[p].phase = "record" /\ sync[p].storing.x = x
             /\ sync[p].storing.seen # record[x]
  <2>1. sync[p].phase = "record" /\ Stored(sync[p])
    BY <1>4 DEF WriteRecord, SyncsInStep
  <2>2. x = sync[p].storing.x /\ record'[x] = sync[p].storing.e
    BY <1>4 DEF WriteRecord, TypeOK
  <2>3. record[x] \in entities
    BY DEF TypeOK
  <2> QED BY <2>1, <2>2, <2>3 DEF Stored, Active
<1>5. ASSUME NEW p \in Providers,
             \/ \E reported \in Polls : Begin(p, reported)
             \/ \E y \in Things : ReadRecord(p, y)
             \/ Match(p) \/ MatchTwin(p) \/ WriteEntity(p) \/ BreakOff(p)
      PROVE  FALSE
  BY <1>5 DEF Begin, ReadRecord, Match, MatchTwin, WriteEntity, BreakOff, tree
<1>6. ASSUME NEW r \in Requests,
             \/ \E e \in entities, to \in entities \cup {None} : CheckMove(r, e, to)
             \/ \E src, tgt \in entities : CheckMerge(r, src, tgt)
             \/ CommitMove(r)
      PROVE  FALSE
  BY <1>6 DEF CheckMove, CheckMerge, CommitMove, tree
<1>7. ~Restart /\ ~ UNCHANGED vars
  BY DEF Restart, vars, tree
<1> QED
  BY <1>1, <1>2, <1>3, <1>4, <1>5, <1>6, <1>7 DEF Next

(* A record leaves an entity that stays only when somebody maps it, or when*)
(* a sync stores the thing that had read the record before it changed:     *)
(* what was merged or mapped before a sync reads the record stays so.      *)
THEOREM SyncsKeepRecords == Spec => RecordsStay
<1>1. TypeOK /\ SyncsInStep /\ [Next]_vars =>
        [\A x \in Things :
           record[x] # None /\ record'[x] # record[x] /\ record[x] \in entities' =>
             \/ \E to \in entities \cup {None} : MapRecord(x, to)
             \/ \E p \in Providers :
                  /\ sync[p].phase = "record" /\ sync[p].storing.x = x
                  /\ sync[p].storing.seen # record[x]]_vars
  BY RecordStep
<1> QED
  BY <1>1, TypeInit, TypeStep, InStepInit, InStepStep, PTL DEF Spec, RecordsStay

-----------------------------------------------------------------------------
(***************************************************************************)
(* Circles.  What is over an entity in a function of parents, and the      *)
(* three ways in which the handlers change one without closing a circle.   *)
(***************************************************************************)
Parents == [Entities -> Entities \cup {None}]

Over(f, x) ==
  LET closed == {s \in SUBSET Entities : \A a \in s \cup {x} : f[a] \in s \cup {None}}
  IN  {a \in Entities : \A s \in closed : a \in s}

Tree(f) == \A n \in Entities : n \notin Over(f, n)

LEMMA AboveIsOver ==
  /\ \A e : Above(e) = Over(parent, e)
  /\ NoCircle <=> Tree(parent)
  /\ NoCircle' <=> Tree(parent')
BY DEF Above, Over, NoCircle, OnCircle, Tree

(* What is over an entity is closed upwards.                               *)
LEMMA OverClosed ==
  ASSUME NEW f \in Parents, NEW x \in Entities
  PROVE  /\ Over(f, x) \in SUBSET Entities
         /\ \A n \in Over(f, x) \cup {x} : f[n] \in Over(f, x) \cup {None}
<1> SUFFICES ASSUME NEW n \in Over(f, x) \cup {x}, f[n] # None
             PROVE  f[n] \in Over(f, x)
  BY DEF Over
<1>1. n \in Entities /\ f[n] \in Entities
  BY DEF Over, Parents
<1>2. ASSUME NEW s \in SUBSET Entities, \A m \in s \cup {x} : f[m] \in s \cup {None}
      PROVE  f[n] \in s
  BY <1>2 DEF Over
<1> QED
  BY <1>1, <1>2 DEF Over

(* It is the smallest such set.                                            *)
LEMMA OverSmallest ==
  ASSUME NEW f, NEW x, NEW s \in SUBSET Entities,
         \A n \in s \cup {x} : f[n] \in s \cup {None}
  PROVE  Over(f, x) \subseteq s
BY DEF Over

(* Who lets go of parents closes no circle.                                *)
LEMMA LooserTree ==
  ASSUME NEW f \in Parents, Tree(f), NEW g, \A n \in Entities : g[n] \in {f[n], None}
  PROVE  Tree(g)
<1> SUFFICES ASSUME NEW n \in Entities PROVE n \notin Over(g, n)
  BY DEF Tree
<1>1. \A m \in Over(f, n) \cup {n} : g[m] \in Over(f, n) \cup {None}
  BY OverClosed
<1>2. Over(g, n) \subseteq Over(f, n)
  BY <1>1, OverClosed, OverSmallest
<1> QED
  BY <1>2 DEF Tree

(* Nor does who hangs an entity under one that is not below it.            *)
LEMMA MovedTree ==
  ASSUME NEW f \in Parents, Tree(f), NEW e \in Entities, NEW to \in Entities,
         to # e, e \notin Over(f, to)
  PROVE  Tree([f EXCEPT ![e] = to])
<1> DEFINE g == [f EXCEPT ![e] = to]
           C == Over(f, to) \cup {to}
<1>0. g[e] = to /\ \A n \in Entities \ {e} : g[n] = f[n]
  BY DEF Parents
<1> HIDE DEF g
<1>1. /\ C \in SUBSET Entities /\ e \notin C /\ to \in C
      /\ \A n \in C : f[n] \in C \cup {None}
  BY OverClosed
<1> HIDE DEF C
<1>2. \A n \in C \cup {e} : g[n] \in C \cup {None}
  BY <1>0, <1>1
<1> SUFFICES ASSUME NEW n \in Entities PROVE n \notin Over(g, n)
  BY DEF Tree, g
<1>3. /\ Over(f, n) \in SUBSET Entities /\ n \notin Over(f, n)
      /\ \A m \in Over(f, n) \cup {n} : f[m] \in Over(f, n) \cup {None}
  BY OverClosed DEF Tree
<1>4. CASE n = e
  BY <1>1, <1>2, <1>4, OverSmallest
<1>5. CASE n \in C
  <2>1. Over(f, n) \subseteq C
    BY <1>1, <1>5, OverSmallest
  <2>2. \A m \in Over(f, n) \cup {n} : g[m] \in Over(f, n) \cup {None}
    BY <1>0, <1>1, <1>3, <1>5, <2>1
  <2> QED BY <1>3, <2>2, OverSmallest
<1>6. CASE n # e /\ n \notin C
  <2> DEFINE s == Over(f, n) \cup C
  <2>1. s \in SUBSET Entities /\ n \notin s
    BY <1>1, <1>3, <1>6
  <2>2. \A m \in s \cup {n} : g[m] \in s \cup {None}
    BY <1>0, <1>1, <1>2, <1>3, <1>6
  <2> HIDE DEF s
  <2> QED BY <2>1, <2>2, OverSmallest
<1> QED
  BY <1>4, <1>5, <1>6

(* Nor a merge: outside the subtree of the source the target stays where   *)
(* it is, inside it takes the source's place, and the children follow.     *)
LEMMA MergedTree ==
  ASSUME NEW f \in Parents, Tree(f), NEW src \in Entities, NEW tgt \in Entities, src # tgt,
         NEW g,
         g[src] = None,
         g[tgt] \in {IF src \in Over(f, tgt) THEN f[src] ELSE f[tgt], None},
         \A n \in Entities \ {src, tgt} : g[n] = IF f[n] = src THEN tgt ELSE f[n]
  PROVE  Tree(g)
<1> DEFINE B == IF src \in Over(f, tgt) THEN Over(f, src) ELSE Over(f, tgt)
           C == B \cup {tgt}
<1>1. \A x \in Entities :
        /\ Over(f, x) \in SUBSET Entities /\ x \notin Over(f, x)
        /\ \A m \in Over(f, x) \cup {x} : f[m] \in Over(f, x) \cup {None}
  BY OverClosed DEF Tree
<1>2. B \in SUBSET Entities /\ (\A n \in B : f[n] \in B \cup {None}) /\ g[tgt] \in B \cup {None}
  BY <1>1
<1>3. src \notin B
  BY <1>1
<1>4. tgt \notin B
  <2>1. CASE src \in Over(f, tgt)
    <3>1. tgt \in Over(f, src) => Over(f, tgt) \subseteq Over(f, src)
      BY <1>1, OverSmallest
    <3> QED BY <1>1, <2>1, <3>1
  <2> QED BY <1>1, <2>1
<1> HIDE DEF B
<1>5. \A n \in B : g[n] = f[n]
  BY <1>2, <1>3, <1>4, EntityTreeAssumption
<1>6. \A n \in C : g[n] \in B \cup {None}
  BY <1>2, <1>5
<1> SUFFICES ASSUME NEW n \in Entities PROVE n \notin Over(g, n)
  BY DEF Tree
<1>7. CASE n = src
  <2>1. {} \in SUBSET Entities /\ \A m \in {} \cup {n} : g[m] \in {} \cup {None}
    BY <1>7
  <2>2. Over(g, n) \subseteq {}
    BY <2>1, OverSmallest
  <2> QED BY <2>2
<1>8. CASE n = tgt
  BY <1>2, <1>4, <1>6, <1>8, OverSmallest
<1>9. CASE n \in B
  <2>1. Over(f, n) \subseteq B
    BY <1>2, <1>9, OverSmallest
  <2>2. \A m \in Over(f, n) \cup {n} : g[m] \in Over(f, n) \cup {None}
    BY <1>1, <1>5, <1>9, <2>1
  <2> QED BY <1>1, <2>2, OverSmallest
<1>10. CASE n \notin C \cup {src}
  <2> DEFINE s == (Over(f, n) \ {src}) \cup C
  <2>1. s \in SUBSET Entities /\ n \notin s
    BY <1>1, <1>2, <1>10
  <2>2. ASSUME NEW m \in s \cup {n} PROVE g[m] \in s \cup {None}
    <3>1. CASE m \in C
      BY <1>6, <3>1
    <3>2. CASE m \notin C
      <4>1. m \in (Over(f, n) \ {src}) \cup {n} /\ m \in Entities \ {src, tgt}
        BY <1>1, <1>10, <3>2
      <4>2. f[m] \in Over(f, n) \cup {None} /\ g[m] = IF f[m] = src THEN tgt ELSE f[m]
        BY <1>1, <4>1
      <4> QED BY <4>2
    <3> QED BY <3>1, <3>2
  <2> HIDE DEF s
  <2> QED BY <2>1, <2>2, OverSmallest
<1> QED
  BY <1>7, <1>8, <1>9, <1>10

(* What a handler saw of the tree before its transaction still holds,      *)
(* unless it was overtaken.                                                *)
StillTrue(q) ==
  /\ q.kind = "move" /\ q.clean => q.to # q.e /\ (q.to # None => q.e \notin Over(parent, q.to))
  /\ q.kind = "merge" /\ q.clean =>
       /\ q.inside <=> q.src \in Over(parent, q.tgt)
       /\ q.inside => q.above = parent[q.src]

CleanInv == \A r \in Requests : StillTrue(req[r])

LEMMA IdleIsTrue == StillTrue(Idle)
BY DEF StillTrue, Idle

(* Handlers and syncs that change the tree tell the other handlers.        *)
LEMMA CleanOvertaken ==
  ASSUME TypeOK, CleanInv, NEW r, req' = Overtaken(r)
  PROVE  CleanInv'
<1> SUFFICES ASSUME NEW o \in Requests PROVE StillTrue(req[o])'
  BY DEF CleanInv
<1> DEFINE calm == parent' = parent /\ entities' \subseteq entities
<1>1. CASE o = r \/ req[o] = Idle
  BY <1>1 DEF Overtaken, StillTrue, Idle
<1>2. CASE o # r /\ req[o] # Idle
  <2>1. req'[o] = [req[o] EXCEPT !.clean = req[o].clean /\ calm]
    BY <1>2 DEF Overtaken
  <2>2. StillTrue(req[o]) /\ (calm => parent' = parent)
    BY DEF CleanInv
  <2>3. CASE req[o] \in Move
    <3>1. /\ req'[o].kind = "move" /\ req'[o].e = req[o].e /\ req'[o].to = req[o].to
          /\ req'[o].clean => req[o].clean /\ calm
      BY <2>1, <2>3 DEF Move
    <3> HIDE DEF calm
    <3> QED BY <2>2, <2>3, <3>1 DEF StillTrue, Move
  <2>4. CASE req[o] \in Merge
    <3>1. /\ req'[o].kind = "merge" /\ req'[o].src = req[o].src /\ req'[o].tgt = req[o].tgt
          /\ req'[o].inside = req[o].inside /\ req'[o].above = req[o].above
          /\ req'[o].clean => req[o].clean /\ calm
      BY <2>1, <2>4 DEF Merge
    <3> HIDE DEF calm
    <3> QED BY <2>2, <2>4, <3>1 DEF StillTrue, Merge
  <2> QED BY <1>2, <2>3, <2>4 DEF TypeOK
<1> QED
  BY <1>1, <1>2

LEMMA CleanInit == Init => CleanInv
BY IdleIsTrue DEF Init, CleanInv

LEMMA CleanStep == TypeOK /\ CleanInv /\ [Next]_vars => CleanInv'
<1> SUFFICES ASSUME TypeOK, CleanInv, [Next]_vars
             PROVE  CleanInv'
  OBVIOUS
<1>1. CASE UNCHANGED <<parent, req>>
  BY <1>1 DEF CleanInv, StillTrue
<1>2. ASSUME NEW r, req' = Overtaken(r) PROVE CleanInv'
  BY <1>2, CleanOvertaken
<1>3. ASSUME NEW r \in Requests, NEW e \in entities, NEW to \in entities \cup {None},
             CheckMove(r, e, to)
      PROVE  CleanInv'
  <2> DEFINE q == [kind |-> "move", e |-> e, to |-> to, clean |-> TRUE]
  <2>1. parent' = parent /\ req' = [req EXCEPT ![r] = q]
    BY <1>3 DEF CheckMove, tree
  <2>2. to # e
    BY <1>3, EntityTreeAssumption DEF CheckMove, TypeOK
  <2>3. StillTrue(q)
    BY <1>3, <2>2, AboveIsOver DEF CheckMove, Inside, StillTrue
  <2> HIDE DEF q
  <2>4. \A o \in Requests : StillTrue(req'[o])
    BY <2>1, <2>3 DEF CleanInv, TypeOK
  <2> QED BY <2>1, <2>4 DEF CleanInv, StillTrue
<1>4. ASSUME NEW r \in Requests, NEW src \in entities, NEW tgt \in entities,
             CheckMerge(r, src, tgt)
      PROVE  CleanInv'
  <2> DEFINE inside == src \in Above(tgt)
             q == [kind |-> "merge", src |-> src, tgt |-> tgt, inside |-> inside,
                   above |-> IF inside THEN parent[src] ELSE None, clean |-> TRUE]
  <2>1. parent' = parent /\ req' = [req EXCEPT ![r] = q]
    BY <1>4 DEF CheckMerge, tree
  <2>2. inside <=> src \in Over(parent, tgt)
    BY AboveIsOver
  <2>3. StillTrue(q)
    <3> HIDE DEF inside
    <3> QED BY <2>2 DEF StillTrue
  <2> HIDE DEF q
  <2>4. \A o \in Requests : StillTrue(req'[o])
    BY <2>1, <2>3 DEF CleanInv, TypeOK
  <2> QED BY <2>1, <2>4 DEF CleanInv, StillTrue
<1>5. CASE Restart
  BY <1>5, IdleIsTrue DEF Restart, CleanInv, StillTrue, Idle
<1> QED
  BY <1>1, <1>2, <1>3, <1>4, <1>5
  DEF Next, vars, tree, CreateEntity, Promote, DeleteEntity, MapRecord, CommitMove,
      CommitMerge, Begin, ReadRecord, Match, MatchTwin, WriteEntity, WriteRecord, BreakOff

(* A handler that was not overtaken closes no circle.                      *)
LEMMA CommitMoveTree ==
  ASSUME TypeOK, CleanInv, NoCircle, NEW r \in Requests, CommitMove(r), req[r].clean
  PROVE  NoCircle'
<1> DEFINE q == req[r]
<1>1. q \in Move
  BY DEF CommitMove, TypeOK, Move, Merge, Idle
<1>2. parent \in Parents /\ Tree(parent)
  BY AboveIsOver DEF TypeOK, Parents
<1>3. CASE parent' = parent
  BY <1>2, <1>3, AboveIsOver
<1>4. CASE q.to = None /\ parent' = [parent EXCEPT ![q.e] = q.to]
  <2>1. \A n \in Entities : parent'[n] \in {parent[n], None}
    BY <1>1, <1>2, <1>4 DEF Move, Parents
  <2> QED BY <1>2, <2>1, LooserTree, AboveIsOver
<1>5. CASE q.to # None /\ parent' = [parent EXCEPT ![q.e] = q.to]
  <2>1. q.to # q.e /\ q.e \notin Over(parent, q.to) /\ q.e \in Entities /\ q.to \in Entities
    BY <1>1, <1>5 DEF CleanInv, StillTrue, Move
  <2> QED BY <1>2, <1>5, <2>1, MovedTree, AboveIsOver
<1> QED
  BY <1>3, <1>4, <1>5 DEF CommitMove

LEMMA CommitMergeTree ==
  ASSUME TypeOK, CleanInv, NoCircle, NEW r \in Requests, CommitMerge(r), req[r].clean
  PROVE  NoCircle'
<1> DEFINE q == req[r]
<1>1. q \in Merge
  BY DEF CommitMerge, TypeOK, Move, Merge, Idle
<1>2. parent \in Parents /\ Tree(parent) /\ None \notin Entities
  BY AboveIsOver, EntityTreeAssumption DEF TypeOK, Parents
<1>3. CASE parent' = parent
  BY <1>2, <1>3, AboveIsOver
<1>4. CASE q.tgt \notin entities /\ parent' = [Without(parent, q.src) EXCEPT ![q.src] = None]
  <2>1. \A n \in Entities : parent'[n] \in {parent[n], None}
    BY <1>1, <1>2, <1>4 DEF Merge, Parents, Without
  <2> QED BY <1>2, <2>1, LooserTree, AboveIsOver
<1>5. CASE q.tgt \in entities /\ parent' = [Without(Adopted(q), q.src) EXCEPT ![q.src] = None]
  <2>1. /\ q.src \in Entities /\ q.tgt \in Entities /\ q.src # q.tgt
        /\ q.inside <=> q.src \in Over(parent, q.tgt)
        /\ q.inside => q.above = parent[q.src]
    BY <1>1 DEF CleanInv, StillTrue, Merge
  <2>2. parent'[q.src] = None
    BY <1>5, <2>1 DEF Without, Adopted
  <2>3. parent'[q.tgt] \in
          {IF q.src \in Over(parent, q.tgt) THEN parent[q.src] ELSE parent[q.tgt], None}
    BY <1>5, <2>1 DEF Without, Adopted
  <2>4. \A n \in Entities \ {q.src, q.tgt} :
          parent'[n] = IF parent[n] = q.src THEN q.tgt ELSE parent[n]
    BY <1>5, <2>1 DEF Without, Adopted
  <2> HIDE DEF q
  <2> QED BY <1>2, <2>1, <2>2, <2>3, <2>4, MergedTree, AboveIsOver
<1> QED
  BY <1>3, <1>4, <1>5 DEF CommitMerge, tree

LEMMA CircleStep ==
  ASSUME TypeOK, CleanInv, [Next]_vars, parent' # parent, ~NoCircle', NoCircle
  PROVE  \/ \E r \in Requests : req[r] # Idle /\ req'[r] = Idle /\ ~req[r].clean
         \/ \E p \in Providers : sync[p].phase = "write" /\ sync'[p].phase = "record"
<1>1. ASSUME NEW e \in Entities, DeleteEntity(e)
      PROVE  FALSE
  <2>1. parent \in Parents /\ Tree(parent)
    BY AboveIsOver DEF TypeOK, Parents
  <2>2. \A n \in Entities : parent'[n] \in {parent[n], None}
    BY <1>1, <2>1 DEF DeleteEntity, Without, Parents
  <2> QED BY <2>1, <2>2, LooserTree, AboveIsOver
<1>2. ASSUME NEW r \in Requests, CommitMove(r) \/ CommitMerge(r)
      PROVE  req[r] # Idle /\ req'[r] = Idle /\ ~req[r].clean
  <2>1. req[r] # Idle /\ req'[r] = Idle
    BY <1>2 DEF CommitMove, CommitMerge, Overtaken, Idle
  <2>2. ~req[r].clean
    BY <1>2, CommitMoveTree, CommitMergeTree
  <2> QED BY <2>1, <2>2
<1>3. ASSUME NEW p \in Providers, WriteEntity(p)
      PROVE  sync[p].phase = "write" /\ sync'[p].phase = "record"
  <2>2. sync'[p].phase = "record"
    BY <1>3, WriteEffects
  <2> QED BY <1>3, <2>2 DEF WriteEntity
<1>4. ASSUME \/ \E e \in Entities : CreateEntity(e) \/ Promote(e)
             \/ \E x \in Things, to \in entities \cup {None} : MapRecord(x, to)
      PROVE  FALSE
  BY <1>4 DEF CreateEntity, Promote, MapRecord
<1>5. ASSUME NEW r \in Requests,
             \/ \E e \in entities, to \in entities \cup {None} : CheckMove(r, e, to)
             \/ \E src, tgt \in entities : CheckMerge(r, src, tgt)
      PROVE  FALSE
  BY <1>5 DEF CheckMove, CheckMerge, tree
<1>6. ASSUME NEW p \in Providers,
             \/ \E reported \in Polls : Begin(p, reported)
             \/ \E x \in Things : ReadRecord(p, x)
             \/ Match(p) \/ MatchTwin(p) \/ WriteRecord(p) \/ BreakOff(p)
      PROVE  FALSE
  BY <1>6 DEF Begin, ReadRecord, Match, MatchTwin, WriteRecord, BreakOff, tree
<1>7. ~Restart /\ ~ UNCHANGED vars
  BY DEF Restart, vars, tree
<1> QED
  BY <1>1, <1>2, <1>3, <1>4, <1>5, <1>6, <1>7 DEF Next

(* Where the parents are a tree, only a handler that was overtaken between *)
(* its walk and its transaction, or an adapter, closes a circle.           *)
THEOREM HandlersCloseNoCircle == Spec => OnlyAnOverlapOrASyncClosesACircle
<1>1. TypeOK /\ CleanInv /\ [Next]_vars =>
        [parent' # parent /\ ~NoCircle' /\ NoCircle =>
           \/ \E r \in Requests : req[r] # Idle /\ req'[r] = Idle /\ ~req[r].clean
           \/ \E p \in Providers : sync[p].phase = "write" /\ sync'[p].phase = "record"]_vars
  BY CircleStep
<1> QED
  BY <1>1, TypeInit, TypeStep, CleanInit, CleanStep, PTL
  DEF Spec, OnlyAnOverlapOrASyncClosesACircle

-----------------------------------------------------------------------------
(***************************************************************************)
(* The adapters alone.  While nobody moves, merges or maps anything, the   *)
(* entity of a host bears a host, that of a guest a guest and that of a    *)
(* proxy host itself; guests hang under hosts, hosts nowhere, and a proxy  *)
(* host under another only if that is what it has reported.  What a sync   *)
(* carries from one step to the next is still so, or about entities that   *)
(* are gone.                                                               *)
(***************************************************************************)
IsGuest(y) == y \in Things /\ HostOf[y] # None
IsProxy(y) == y \in Things /\ Answers[y] # {}
IsHost(y) == y \in Things /\ HostOf[y] = None /\ Answers[y] = {}

Same(y, z) == y = z \/ (IsHost(y) /\ IsHost(z)) \/ (IsGuest(y) /\ IsGuest(z))

\* what bears y may hang under what bears z
Under(y, z) ==
  \/ IsGuest(y) /\ IsHost(z)
  \/ IsProxy(y) /\ (~IsProxy(z) \/ z \in Answers[y])

LEMMA Kinds ==
  \A y : /\ IsGuest(y) => ~IsProxy(y) /\ ~IsHost(y)
         /\ IsHost(y) => ~IsProxy(y)
         /\ y \in Things => IsGuest(y) \/ IsProxy(y) \/ IsHost(y)
         /\ y \in Hosts => IsHost(y)
BY EntityTreeAssumption DEF IsGuest, IsProxy, IsHost, Hosts

LEMMA SameKind ==
  \A y, z : Same(y, z) => /\ IsHost(y) <=> IsHost(z)
                          /\ IsGuest(y) <=> IsGuest(z)
                          /\ IsProxy(y) \/ IsProxy(z) => y = z
BY Kinds DEF Same

LEMMA SameTrans == \A w, y, z : Same(w, y) /\ Same(y, z) => Same(w, z)
BY SameKind DEF Same

LEMMA UnderSame ==
  \A v, w, y, z : Under(v, w) /\ Same(y, v) /\ Same(z, w) => Under(y, z)
<1> SUFFICES ASSUME NEW v, NEW w, NEW y, NEW z, Under(v, w), Same(y, v), Same(z, w)
             PROVE  Under(y, z)
  OBVIOUS
<1>1. CASE IsGuest(v) /\ IsHost(w)
  BY <1>1, SameKind DEF Under
<1>2. CASE IsProxy(v) /\ ~IsProxy(w)
  BY <1>2, SameKind DEF Under
<1>3. CASE IsProxy(v) /\ IsProxy(w) /\ w \in Answers[v]
  BY <1>3, SameKind DEF Under
<1> QED
  BY <1>1, <1>2, <1>3 DEF Under

Borne == \A x \in Things : record[x] \in entities => Same(face[record[x]], x)

Hangs == \A e \in Entities : parent[e] # None => Under(face[e], face[parent[e]])

IdsKnown(ids) ==
  \A h \in Hosts : /\ ids[h] \notin unused
                   /\ ids[h] \in entities => IsHost(face[ids[h]])

Known(q) ==
  /\ q.phase = "next" => IdsKnown(q.run.ids)
  /\ q.phase \in Active =>
       LET s == q.storing
       IN  /\ IdsKnown(s.run.ids)
           /\ s.seen \notin unused /\ (s.seen \in entities => Same(face[s.seen], s.x))
           /\ s.e \notin unused /\ (s.e \in entities => Same(face[s.e], s.x))
           /\ s.up \notin unused /\ (s.up \in entities => Under(s.x, face[s.up]))

Faithful == Borne /\ Hangs /\ \A p \in Providers : Known(sync[p])

AloneInv == ~touched => Faithful

\* an entity keeps bearing a thing of its kind
FacesKept == \A e \in entities : e \in entities' => Same(face'[e], face[e])

LEMMA KnownKept ==
  ASSUME NEW q, Known(q), Onward, FacesKept
  PROVE  Known(q)'
<1>1. \A e : e \notin unused => e \notin unused' /\ (e \in entities' => e \in entities)
  BY DEF Onward
<1>2. ASSUME NEW ids, IdsKnown(ids) PROVE IdsKnown(ids)'
  BY <1>1, <1>2, SameKind DEF IdsKnown, FacesKept
<1>3. ASSUME NEW e, NEW x, e \notin unused, e \in entities => Same(face[e], x)
      PROVE  e \notin unused' /\ (e \in entities' => Same(face'[e], x))
  BY <1>1, <1>3, SameTrans DEF FacesKept
<1>4. ASSUME NEW e, NEW x, e \notin unused, e \in entities => Under(x, face[e])
      PROVE  e \notin unused' /\ (e \in entities' => Under(x, face'[e]))
  <2>1. Same(x, x)
    BY DEF Same
  <2> QED BY <1>1, <1>4, <2>1, UnderSame DEF FacesKept
<1> QED
  BY <1>2, <1>3, <1>4 DEF Known

(* The other syncs, when one goes on.                                      *)
LEMMA OthersKnown ==
  ASSUME Faithful, Onward, FacesKept, NEW p \in Providers, Known(sync[p])',
         \A o \in Providers \ {p} : sync'[o] = sync[o]
  PROVE  \A o \in Providers : Known(sync[o])'
<1> SUFFICES ASSUME NEW o \in Providers \ {p} PROVE Known(sync[o])'
  OBVIOUS
<1>1. PICK r : r = sync[o]
  OBVIOUS
<1>2. Known(r)'
  BY <1>1, KnownKept DEF Faithful
<1> QED BY <1>1, <1>2 DEF Known

LEMMA RestingKnown == Known(Resting) /\ Known(Resting)'
BY DEF Known, Resting, Active

(* What hangs somewhere still does so by rights, unless it was hung anew.  *)
LEMMA HangsKept ==
  ASSUME TypeOK, TypeOK', Hangs, FacesKept,
         \A e \in Entities : \/ parent'[e] \in {parent[e], None} /\ e \in entities
                             \/ parent'[e] = None
                             \/ Under(face'[e], face'[parent'[e]])
  PROVE  Hangs'
<1> SUFFICES ASSUME NEW e \in Entities, parent'[e] # None, parent'[e] = parent[e], e \in entities
             PROVE  Under(face'[e], face'[parent[e]])
  BY DEF Hangs
<1>1. parent[e] \in entities /\ parent[e] \in entities' /\ e \in entities'
  BY EntityTreeAssumption DEF TypeOK
<1> QED
  BY <1>1, UnderSame DEF Hangs, FacesKept

LEMMA AloneInit == Init => AloneInv
BY RestingKnown, EntityTreeAssumption DEF Init, AloneInv, Faithful, Borne, Hangs

(* Steps outside the syncs: parents are only let go of.                    *)
LEMMA AloneKept ==
  ASSUME TypeOK, TypeOK', Faithful, Onward,
         \A p \in Providers : sync'[p] \in {sync[p], Resting},
         \A x \in Things : record'[x] \in {record[x], None},
         \A e \in Entities : parent'[e] \in {parent[e], None},
         \A e \in entities : e \in entities' => face'[e] = face[e]
  PROVE  Faithful'
<1>0. None \notin Entities
  BY EntityTreeAssumption
<1>1. FacesKept
  BY DEF FacesKept, Same
<1>2. Hangs'
  BY <1>0, <1>1, HangsKept DEF Faithful, TypeOK
<1>3. Borne'
  BY <1>0 DEF Faithful, Borne, TypeOK
<1>4. ASSUME NEW p \in Providers PROVE Known(sync[p])'
  <2>1. PICK r : r = sync[p]
    OBVIOUS
  <2>2. Known(r)'
    BY <1>1, <2>1, KnownKept DEF Faithful
  <2> QED BY <2>1, <2>2, RestingKnown DEF Known
<1> QED
  BY <1>2, <1>3, <1>4 DEF Faithful

(* One sync goes on, and the tree stays.                                   *)
LEMMA AloneNext ==
  ASSUME TypeOK, TypeOK', Faithful, UNCHANGED tree, NEW p \in Providers,
         \A o \in Providers \ {p} : sync'[o] = sync[o], Known(sync[p])'
  PROVE  Faithful'
<1>1. Onward /\ FacesKept
  BY DEF Onward, FacesKept, Same, tree
<1>2. \A o \in Providers : Known(sync[o])'
  BY <1>1, OthersKnown
<1>3. Borne' /\ Hangs'
  BY DEF Faithful, Borne, Hangs, tree
<1> QED
  BY <1>2, <1>3 DEF Faithful

LEMMA AloneBegin ==
  ASSUME TypeOK, TypeOK', Faithful, NEW p \in Providers, NEW reported \in Polls,
         Begin(p, reported)
  PROVE  Faithful'
<1> DEFINE q == [phase |-> "next", run |-> [todo |-> reported, ids |-> [h \in Hosts |-> None]]]
<1>1. /\ sync'[p] = q /\ \A o \in Providers \ {p} : sync'[o] = sync[o]
      /\ UNCHANGED tree
  BY DEF Begin, TypeOK
<1>2. None \notin entities' \cup unused'
  BY EntityTreeAssumption DEF TypeOK
<1>3. q.phase = "next" /\ \A h \in Hosts : q.run.ids[h] = None
  OBVIOUS
<1> HIDE DEF q
<1>4. Known(sync[p])'
  BY <1>1, <1>2, <1>3 DEF Known, IdsKnown, Active
<1> QED
  BY <1>1, <1>4, AloneNext

LEMMA AloneRead ==
  ASSUME TypeOK, TypeOK', Faithful, NEW p \in Providers, NEW x \in Things, ReadRecord(p, x)
  PROVE  Faithful'
<1>0. None \notin entities \cup unused /\ entities \cap unused = {}
  BY EntityTreeAssumption DEF TypeOK
<1> DEFINE up == sync'[p].storing.up
<1>1. /\ sync'[p].phase = "match" /\ sync'[p].storing.x = x
      /\ sync'[p].storing.seen = record[x] /\ sync'[p].storing.e = None
      /\ up \in Ups(p, x) /\ sync'[p].storing.run.ids = sync[p].run.ids
      /\ \A o \in Providers \ {p} : sync'[o] = sync[o]
  BY ReadFields
<1>2. UNCHANGED tree /\ IdsKnown(sync[p].run.ids)
  BY DEF ReadRecord, Faithful, Known
<1>3. record[x] \notin unused /\ (record[x] \in entities => Same(face[record[x]], x))
  BY <1>0 DEF Faithful, Borne, TypeOK
<1>4. up \notin unused /\ (up \in entities => Under(x, face[up]))
  <2>1. CASE HostOf[x] # None
    <3>1. up = sync[p].run.ids[HostOf[x]] /\ HostOf[x] \in Hosts /\ IsGuest(x)
      BY <1>1, <2>1, EntityTreeAssumption DEF Ups, Hosts, IsGuest
    <3> QED BY <1>2, <3>1 DEF IdsKnown, Under
  <2>2. CASE HostOf[x] = None /\ Answers[x] = {}
    BY <1>0, <1>1, <2>2 DEF Ups
  <2>3. CASE HostOf[x] = None /\ Answers[x] # {}
    <3>1. up = None \/ (up \in entities /\ face[up] \in Answers[x] \cup {None})
      BY <1>1, <2>3 DEF Ups
    <3>2. IsProxy(x) /\ ~IsProxy(None)
      BY <2>3, EntityTreeAssumption DEF IsProxy
    <3> QED BY <1>0, <3>1, <3>2 DEF Under
  <2> QED BY <2>1, <2>2, <2>3
<1> HIDE DEF up
<1>5. Known(sync[p])'
  BY <1>0, <1>1, <1>2, <1>3, <1>4 DEF Known, IdsKnown, tree, up
<1> QED
  BY <1>1, <1>2, <1>5, AloneNext

(* What a sync has found bears the thing or one of its kind.               *)
LEMMA AloneFound ==
  ASSUME TypeOK, TypeOK', Faithful, UNCHANGED tree, NEW p \in Providers, NEW e,
         Found(p, e), sync[p].phase \in Active,
         e \notin unused, e \in entities => Same(face[e], sync[p].storing.x)
  PROVE  Faithful'
<1>1. /\ sync'[p].phase = "write" /\ sync'[p].storing.e = e
      /\ sync'[p].storing.seen = sync[p].storing.seen
      /\ sync'[p].storing.x = sync[p].storing.x /\ sync'[p].storing.up = sync[p].storing.up
      /\ sync'[p].storing.run = sync[p].storing.run
      /\ \A o \in Providers \ {p} : sync'[o] = sync[o]
  BY FoundFields
<1>2. Known(sync[p])
  BY DEF Faithful
<1>3. Known(sync[p])'
  BY <1>1, <1>2 DEF Known, IdsKnown, tree, Active
<1> QED
  BY <1>1, <1>3, AloneNext

LEMMA AloneMatch ==
  ASSUME TypeOK, TypeOK', Faithful, NEW p \in Providers, Match(p) \/ MatchTwin(p)
  PROVE  Faithful'
<1> DEFINE q == sync[p].storing
<1>0. None \notin entities \cup unused /\ entities \cap unused = {}
  BY EntityTreeAssumption DEF TypeOK
<1>1. sync[p].phase \in Active /\ UNCHANGED tree
  BY DEF Match, MatchTwin, Active
<1>2. q \in Storing /\ Known(sync[p])
  BY <1>1, SyncPhases DEF TypeOK, Faithful
<1>3. CASE Found(p, None)
  BY <1>0, <1>1, <1>3, AloneFound
<1>4. CASE Found(p, q.seen)
  BY <1>1, <1>2, <1>4, AloneFound DEF Known
<1>5. CASE MatchTwin(p)
  BY <1>1, <1>2, <1>3, <1>5, AloneFound DEF Known, MatchTwin
<1>6. ASSUME NEW e \in Namesakes(q.x), HostOf[q.x] = None, Found(p, e)
      PROVE  Faithful'
  <2>1. e \in entities /\ face[e] \in Alike[q.x]
    BY <1>6 DEF Namesakes
  <2>2. IsHost(face[e]) /\ IsHost(q.x)
    BY <1>2, <1>6, <2>1, EntityTreeAssumption DEF IsHost, Storing
  <2> QED BY <1>0, <1>1, <1>6, <2>1, <2>2, AloneFound DEF Same
<1>7. ASSUME NEW y \in Alike[q.x], HostOf[q.x] # None, record[y] # None,
             sync' = [sync EXCEPT ![p] =
               [phase |-> "guess", storing |-> [q EXCEPT !.e = record[y]]]]
      PROVE  Faithful'
  <2>1. y \in Things /\ IsGuest(y) /\ IsGuest(q.x)
    BY <1>2, <1>7, EntityTreeAssumption DEF IsGuest, Storing
  <2>2. record[y] \in entities /\ Same(face[record[y]], y)
    BY <1>7, <2>1 DEF TypeOK, Faithful, Borne
  <2>3. Same(face[record[y]], q.x)
    BY <2>1, <2>2, SameTrans DEF Same
  <2>4. /\ sync'[p].phase = "guess" /\ sync'[p].storing.e = record[y]
        /\ sync'[p].storing.seen = q.seen
        /\ sync'[p].storing.x = q.x /\ sync'[p].storing.up = q.up
        /\ sync'[p].storing.run = q.run
        /\ \A o \in Providers \ {p} : sync'[o] = sync[o]
    BY <1>1, <1>7, GuessFields
  <2>5. Known(sync[p])'
    BY <1>0, <1>1, <1>2, <2>2, <2>3, <2>4 DEF Known, IdsKnown, tree, Active
  <2> QED BY <1>1, <2>4, <2>5, AloneNext
<1> QED
  BY <1>3, <1>4, <1>5, <1>6, <1>7 DEF Match

LEMMA AloneWriteEntity ==
  ASSUME TypeOK, TypeOK', Faithful, NEW p \in Providers, WriteEntity(p)
  PROVE  Faithful'
<1> DEFINE q == sync[p].storing
<1>0. /\ None \notin entities \cup unused /\ entities \cap unused = {}
      /\ record' = record /\ Onward
      /\ \A o \in Providers \ {p} : sync'[o] = sync[o]
  <2>1. None \notin entities \cup unused /\ entities \cap unused = {}
    BY EntityTreeAssumption DEF TypeOK
  <2>2. Onward
    BY WriteEffects DEF Onward
  <2>3. record' = record
    BY DEF WriteEntity
  <2>4. \A o \in Providers \ {p} : sync'[o] = sync[o]
    <3> DEFINE stored(e) ==
                 [phase |-> "record",
                  storing |-> [sync[p].storing EXCEPT !.e = e, !.free = FALSE, !.up = None]]
    <3>1. sync' = [sync EXCEPT ![p] = Resting] \/ \E e : sync' = [sync EXCEPT ![p] = stored(e)]
      BY DEF WriteEntity
    <3> HIDE DEF stored
    <3> QED BY <3>1 DEF TypeOK
  <2> QED BY <2>1, <2>2, <2>3, <2>4
<1>1. q \in Storing /\ sync[p].phase = "write" /\ Known(sync[p])
  BY SyncPhases DEF TypeOK, Faithful, WriteEntity, Active
<1>2. /\ IdsKnown(q.run.ids)
      /\ q.seen \notin unused /\ (q.seen \in entities => Same(face[q.seen], q.x))
      /\ q.e \notin unused /\ (q.e \in entities => Same(face[q.e], q.x))
      /\ q.up \notin unused /\ (q.up \in entities => Under(q.x, face[q.up]))
  BY <1>1 DEF Known, Active
<1>3. FacesKept
  <2>1. \A e \in entities : face'[e] = face[e] \/ (e = q.e /\ face'[e] = q.x)
    BY <1>0, WriteEffects DEF TypeOK
  <2> QED BY <1>2, <2>1 DEF FacesKept, Same
<1>4. ASSUME q.up \in entities PROVE Under(q.x, face'[q.up])
  <2>1. Same(face'[q.up], face[q.up]) /\ Same(q.x, q.x)
    BY <1>0, <1>3, <1>4 DEF FacesKept, Same, WriteEntity
  <2> QED BY <1>2, <1>4, <2>1, UnderSame
<1>5. Hangs'
  <2>1. ASSUME NEW e \in Entities, parent'[e] # parent[e]
        PROVE  parent'[e] = None \/ Under(face'[e], face'[parent'[e]])
    <3>1. parent'[e] = q.up /\ (q.up # None => q.up \in entities /\ face'[e] = q.x)
      BY <2>1, WriteEffects DEF TypeOK
    <3> QED BY <1>4, <3>1
  <2>2. \A e \in Entities : e \in entities \/ parent[e] = None
    BY DEF TypeOK
  <2> QED BY <1>3, <2>1, <2>2, HangsKept DEF Faithful
<1>6. Borne'
  <2> SUFFICES ASSUME NEW x \in Things, record[x] \in entities'
               PROVE  Same(face'[record[x]], x)
    BY <1>0 DEF Borne
  <2>1. record[x] \in entities
    BY <1>0, EntityTreeAssumption DEF TypeOK, Onward
  <2> QED BY <1>3, <2>1, SameTrans DEF Faithful, Borne, FacesKept
<1>7. Known(sync[p])'
  <2>1. CASE sync'[p] = Resting
    BY <2>1, RestingKnown DEF Known
  <2>2. CASE sync'[p] # Resting
    <3>1. PICK r : r = sync[p]
      OBVIOUS
    <3>2. Known(r)'
      BY <1>0, <1>1, <1>3, <3>1, KnownKept
    <3>3. /\ sync'[p].phase = "record" /\ sync'[p].storing.up = None
          /\ sync'[p].storing.seen = q.seen /\ sync'[p].storing.x = q.x
          /\ sync'[p].storing.run = q.run
          /\ q.e # None => sync'[p].storing.e = q.e
          /\ q.e = None =>
               /\ sync'[p].storing.e \in unused
               /\ unused' = unused \ {sync'[p].storing.e}
               /\ face' = [face EXCEPT ![sync'[p].storing.e] = q.x]
      BY <2>2, WrittenFields
    <3> DEFINE s == r.storing
    <3>4. /\ IdsKnown(s.run.ids)'
          /\ s.seen \notin unused' /\ (s.seen \in entities' => Same(face'[s.seen], s.x))
          /\ s.e \notin unused' /\ (s.e \in entities' => Same(face'[s.e], s.x))
          /\ s = q
      BY <1>1, <3>1, <3>2 DEF Known, Active
    <3>5. ASSUME q.e = None
          PROVE  LET e == sync'[p].storing.e IN e \notin unused' /\ Same(face'[e], q.x)
      BY <3>3, <3>5 DEF Same, TypeOK
    <3>6. None \notin entities' \cup unused'
      BY EntityTreeAssumption DEF TypeOK
    <3> QED BY <3>3, <3>4, <3>5, <3>6 DEF Known, IdsKnown, Active
  <2> QED BY <2>1, <2>2
<1> QED
  BY <1>0, <1>3, <1>5, <1>6, <1>7, OthersKnown DEF Faithful

LEMMA AloneWriteRecord ==
  ASSUME TypeOK, TypeOK', Faithful, NEW p \in Providers, WriteRecord(p)
  PROVE  Faithful'
<1> DEFINE q == sync[p].storing
           run == IF q.x \in Hosts THEN [q.run EXCEPT !.ids[q.x] = q.e] ELSE q.run
<1>0. /\ entities' = entities /\ unused' = unused /\ face' = face /\ parent' = parent
      /\ \A o \in Providers \ {p} : sync'[o] = sync[o]
  BY DEF TypeOK, WriteRecord
<1>1. q \in Storing /\ sync[p].phase = "record" /\ Known(sync[p])
  BY SyncPhases DEF TypeOK, Faithful, WriteRecord, Active
<1>2. /\ IdsKnown(q.run.ids)
      /\ q.e \notin unused /\ (q.e \in entities => Same(face[q.e], q.x))
  BY <1>1 DEF Known, Active
<1>3. Onward /\ FacesKept
  BY <1>0 DEF Onward, FacesKept, Same
<1>4. Hangs'
  BY <1>0 DEF Faithful, Hangs
<1>5. Borne'
  <2>1. \A x \in Things : record'[x] = record[x] \/ (x = q.x /\ record'[x] = q.e)
    BY DEF WriteRecord, TypeOK
  <2> QED BY <1>0, <1>2, <2>1 DEF Faithful, Borne
<1>6. IdsKnown(run.ids)
  <2>1. CASE q.x \in Hosts
    <3>1. \A h \in Hosts : run.ids[h] = IF h = q.x THEN q.e ELSE q.run.ids[h]
      BY <1>1, <2>1 DEF Storing, Running
    <3>2. q.e \in entities => IsHost(face[q.e])
      BY <1>2, <2>1, Kinds, SameKind
    <3> HIDE DEF run
    <3> QED BY <1>2, <3>1, <3>2 DEF IdsKnown
  <2>2. CASE q.x \notin Hosts
    BY <1>2, <2>2
  <2> QED BY <2>1, <2>2
<1>7. Known(sync[p])'
  <2>1. sync'[p] = Resting \/ sync'[p] = [phase |-> "next", run |-> run]
    BY DEF WriteRecord, TypeOK
  <2> HIDE DEF run
  <2>2. CASE sync'[p] = Resting
    BY <2>2, RestingKnown DEF Known
  <2>3. CASE sync'[p] = [phase |-> "next", run |-> run]
    BY <1>0, <1>6, <2>3 DEF Known, IdsKnown, Active
  <2> QED BY <2>1, <2>2, <2>3
<1> QED
  BY <1>0, <1>3, <1>4, <1>5, <1>7, OthersKnown DEF Faithful

LEMMA AloneStep == TypeOK /\ TypeOK' /\ AloneInv /\ [Next]_vars => AloneInv'
<1> SUFFICES ASSUME TypeOK, TypeOK', AloneInv, [Next]_vars, ~touched'
             PROVE  Faithful'
  BY DEF AloneInv
<1>1. ~touched /\ Faithful
  BY DEF AloneInv, Next, vars, tree, CreateEntity, Promote, DeleteEntity, MapRecord, CheckMove,
         CheckMerge, CommitMove, CommitMerge, Begin, ReadRecord, Match, MatchTwin, WriteEntity,
         WriteRecord, BreakOff, Restart, TypeOK
<1>2. ASSUME NEW e \in Entities, CreateEntity(e) \/ Promote(e)
      PROVE  Faithful'
  BY <1>1, <1>2, AloneKept DEF CreateEntity, Promote, Onward
<1>3. ASSUME NEW e \in Entities, DeleteEntity(e)
      PROVE  Faithful'
  <2>1. /\ \A x \in Things : record'[x] \in {record[x], None}
        /\ \A o \in Entities : parent'[o] \in {parent[o], None}
        /\ \A o \in entities : o \in entities' => face'[o] = face[o]
    BY <1>3 DEF DeleteEntity, Without, TypeOK
  <2> QED BY <1>1, <1>3, <2>1, AloneKept DEF DeleteEntity, Onward
<1>4. ASSUME UNCHANGED tree, \A p \in Providers : sync'[p] \in {sync[p], Resting}
      PROVE  Faithful'
  BY <1>1, <1>4, AloneKept DEF tree, Onward
<1>5. ASSUME \E x \in Things, to \in entities \cup {None} : MapRecord(x, to)
      PROVE  FALSE
  BY <1>5 DEF MapRecord
<1>6. ASSUME NEW r \in Requests,
             \/ \E e \in entities, to \in entities \cup {None} : CheckMove(r, e, to)
             \/ \E src, tgt \in entities : CheckMerge(r, src, tgt)
             \/ CommitMove(r) \/ CommitMerge(r)
      PROVE  UNCHANGED <<tree, sync>>
  BY <1>6 DEF CheckMove, CheckMerge, CommitMove, CommitMerge, tree
<1>7. ASSUME NEW p \in Providers, BreakOff(p)
      PROVE  Faithful'
  BY <1>4, <1>7 DEF BreakOff, TypeOK
<1>8. CASE Restart \/ UNCHANGED vars
  BY <1>4, <1>8 DEF Restart, vars
<1> QED
  BY <1>1, <1>2, <1>3, <1>4, <1>5, <1>6, <1>7, <1>8, AloneBegin, AloneRead, AloneMatch,
     AloneWriteEntity, AloneWriteRecord DEF Next

(* A circle of entities is then a circle of reports: guests hang under     *)
(* hosts and hosts nowhere, so that what is on it are proxy hosts.         *)
LEMMA CirclesAreReported == TypeOK /\ AloneInv => AdaptersAloneBuildATree
<1> SUFFICES ASSUME TypeOK, AloneInv, ~touched, NEW e \in Entities, OnCircle(e)
             PROVE  \E x \in Things : ReportsItself(x) /\ face[e] = x
  BY DEF AdaptersAloneBuildATree
<1>1. /\ Hangs /\ e \in Over(parent, e)
      /\ \A a \in Entities : parent[a] \in Entities \cup {None}
  BY AboveIsOver DEF AloneInv, Faithful, TypeOK, OnCircle
<1>2. ASSUME NEW S \in SUBSET Entities, \A a \in S \cup {e} : parent[a] \in S \cup {None}
      PROVE  e \in S
  BY <1>1, <1>2, OverSmallest
<1>3. parent[e] # None
  <2> SUFFICES ASSUME parent[e] = None PROVE FALSE
    OBVIOUS
  <2>1. {} \in SUBSET Entities /\ \A a \in {} \cup {e} : parent[a] \in {} \cup {None}
    OBVIOUS
  <2> QED BY <1>2, <2>1
<1>4. Under(face[e], face[parent[e]])
  BY <1>1, <1>3 DEF Hangs
<1>5. ~IsGuest(face[e])
  <2> SUFFICES ASSUME IsGuest(face[e]) PROVE FALSE
    OBVIOUS
  <2> DEFINE S == {a \in Entities : IsHost(face[a])}
  <2>1. ASSUME NEW a \in S PROVE parent[a] = None
    BY <1>1, <2>1, Kinds DEF Hangs, Under
  <2>2. parent[e] \in S
    BY <1>1, <1>3, <1>4, Kinds DEF Under
  <2>3. S \in SUBSET Entities /\ \A a \in S \cup {e} : parent[a] \in S \cup {None}
    BY <2>1, <2>2
  <2>4. e \in S
    <3> HIDE DEF S
    <3> QED BY <1>2, <2>3
  <2> QED BY <2>4, Kinds
<1>6. IsProxy(face[e])
  BY <1>4, <1>5 DEF Under
<1>7. ASSUME NEW s \in SUBSET Things, \A y \in s \cup {face[e]} : Reports[y] \subseteq s
      PROVE  face[e] \in s
  <2> DEFINE S == {a \in Entities : ~IsProxy(face[a]) \/ face[a] \in s}
  <2>1. ASSUME NEW a \in S \cup {e}, parent[a] # None
        PROVE  parent[a] \in S
    <3>1. a \in Entities /\ parent[a] \in Entities /\ Under(face[a], face[parent[a]])
      BY <1>1, <2>1 DEF Hangs
    <3>2. CASE IsGuest(face[a])
      BY <3>1, <3>2, Kinds DEF Under
    <3>3. CASE IsProxy(face[a]) /\ face[parent[a]] \in Answers[face[a]]
      <4>1. face[a] \in s \cup {face[e]} /\ face[a] \in Things
        BY <2>1, <3>3 DEF IsProxy
      <4>2. Answers[face[a]] \subseteq s
        BY <1>7, <4>1 DEF Reports
      <4> QED BY <3>1, <3>3, <4>2
    <3>4. CASE ~IsProxy(face[parent[a]])
      BY <3>1, <3>4
    <3> QED BY <3>1, <3>2, <3>3, <3>4 DEF Under
  <2>2. S \in SUBSET Entities /\ \A a \in S \cup {e} : parent[a] \in S \cup {None}
    BY <2>1
  <2>3. e \in S
    <3> HIDE DEF S
    <3> QED BY <1>2, <2>2
  <2> QED BY <1>6, <2>3
<1> QED
  BY <1>6, <1>7 DEF ReportsItself, IsProxy

(* Left alone, the adapters build a tree: a circle needs somebody who      *)
(* moved, merged or mapped something, or a remote side whose reports, of   *)
(* all polls together, are one.                                            *)
THEOREM AdaptersBuildATree == Spec => []AdaptersAloneBuildATree
<1>1. Spec => [](TypeOK /\ AloneInv)
  BY TypeInit, TypeStep, AloneInit, AloneStep, PTL DEF Spec
<1> QED
  BY <1>1, CirclesAreReported, PTL

=============================================================================
