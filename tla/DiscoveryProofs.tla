--------------------------- MODULE DiscoveryProofs ---------------------------
(***************************************************************************)
(* Proofs about Discovery: types, what a sync may write into an entity     *)
(* that a person owns, conflicts that are reported once, and the status    *)
(* that a scan leaves behind; for every set of entities and addresses.     *)
(***************************************************************************)
EXTENDS Discovery, TLAPS

(* A sync only stores an address that answered: Silent is no MAC, so what  *)
(* it writes into an entity is one or None.  The conflicts it has still to *)
(* report are of the manual entity that it matched.                        *)
Carried ==
  /\ sync.phase \in {"next", "match", "write", "conflict", "record"} =>
       \A x \in sync.scan.todo : sync.scan.found[x] # Silent
  /\ sync.phase \in {"match", "write", "conflict", "record"} =>
       sync.scan.found[sync.ip] # Silent
  /\ sync.phase \in {"write", "conflict"} =>
       /\ \A k \in sync.left : k.e = sync.e
       /\ sync.left # {} => sync.e # None /\ sync.was = "manual"
  /\ sync.phase = "conflict" => sync.left # {}

(* What the sync thread holds in each of its phases.                       *)
LEMMA SyncTyping ==
  /\ Idle \in Sync
  /\ \A scan \in Running : [phase |-> "next", scan |-> scan] \in Sync
  /\ \A scan \in Running, x \in Ips, e \in Entities \cup {None} :
       [phase |-> "match", scan |-> scan, ip |-> x, e |-> e] \in Sync
  /\ \A scan \in Running, x \in Ips, e \in Entities \cup {None}, was \in Origins,
        left \in SUBSET ConflictKey :
       [phase |-> "write", scan |-> scan, ip |-> x, e |-> e, was |-> was, left |-> left] \in Sync
  /\ \A scan \in Running, x \in Ips, e \in Entities :
       [phase |-> "record", scan |-> scan, ip |-> x, e |-> e] \in Sync
  /\ \A scan \in Running, absent \in SUBSET Entities :
       [phase |-> "absent", scan |-> scan, absent |-> absent] \in Sync
BY DEF Sync, Idle

LEMMA SyncFields ==
  ASSUME NEW s \in Sync
  PROVE  /\ s = Idle \/ s.phase \in {"next", "match", "write", "conflict", "record", "absent"}
         /\ s.phase \in {"next", "match", "write", "conflict", "record", "absent"}
              => s.scan \in Running
         /\ s.phase \in {"match", "write", "conflict", "record"} => s.ip \in Ips
         /\ s.phase \in {"match", "write", "conflict"} => s.e \in Entities \cup {None}
         /\ s.phase \in {"write", "conflict"} => s.was \in Origins /\ s.left \in SUBSET ConflictKey
         /\ s.phase = "record" => s.e \in Entities
         /\ s.phase = "absent" => s.absent \in SUBSET Entities
BY DEF Sync, Idle

(* While it reports conflicts, the sync holds a record of the same shape.  *)
Reports == [phase: {"write", "conflict"}, scan: Running, ip: Ips, e: Entities \cup {None},
            was: Origins, left: SUBSET ConflictKey]

LEMMA ReportTyping ==
  /\ Reports \subseteq Sync
  /\ \A s \in Sync : s.phase \in {"write", "conflict"} => s \in Reports
BY DEF Sync, Idle, Reports

LEMMA FirstOfLeft ==
  ASSUME NEW left, left # {}
  PROVE  First(left) \in left
<1>1. \E k \in left : \A other \in left : other.field = "name" => k.field = "name"
  <2>1. CASE \E k \in left : k.field = "name"
    BY <2>1
  <2>2. CASE ~\E k \in left : k.field = "name"
    BY <2>2
  <2> QED BY <2>1, <2>2
<1> QED
  BY <1>1 DEF First

LEMMA IdlePhase == Idle.phase = "idle"
BY DEF Idle

LEMMA NobodyTyping == Nobody \in Info
BY DEF Nobody, Info, Names, Origins

(* What a scan writes of an address that answered is an identity.          *)
LEMMA ObservedTyping ==
  ASSUME NEW was \in Info, NEW x \in Ips, NEW mac \in Macs \cup {None}
  PROVE  Observed(was, x, mac) \in Info /\ Observed(was, x, mac).origin = was.origin
BY DEF Observed, Info, Names, Origins

-----------------------------------------------------------------------------
LEMMA TypeInit == Init => TypeOK /\ Carried
<1>1. Init => Carried
  BY IdlePhase DEF Init, Carried
<1>2. Init => /\ info \in [Entities -> Info]
             /\ sync \in Sync
             /\ restarts \in 0..MaxRestarts
  BY SyncTyping, NobodyTyping, DiscoveryAssumption DEF Init
<1>3. Init => /\ lan \in [Ips -> Macs \cup {None, Silent}]
             /\ entities \subseteq Entities
             /\ status \in [Entities -> {"unknown", "up", "down"}]
             /\ record \in [Ips -> entities \cup {None, Silent}]
             /\ conflicts \in [ConflictKey -> {"none", "open", "resolved", "twice"}]
             /\ \A k \in ConflictKey : conflicts[k] # "none" => k.e \in entities
  BY DEF Init
<1>4. Init => /\ merges \subseteq {m \in Entities \X Entities : m[1] # m[2]}
             /\ overtaken \in BOOLEAN
  BY DEF Init
<1> QED
  BY <1>1, <1>2, <1>3, <1>4 DEF TypeOK

LEMMA ScanTyping ==
  ASSUME TypeOK, Carried, Scan
  PROVE  TypeOK' /\ Carried'
<1>1. PICK heard \in SUBSET {x \in Ips : lan[x] # Silent} :
        sync' = [phase |-> "next",
                 scan |-> [todo |-> heard,
                           found |-> [x \in Ips |-> IF x \in heard THEN lan[x] ELSE Silent]]]
  BY DEF Scan
<1> DEFINE scan == [todo |-> heard,
                    found |-> [x \in Ips |-> IF x \in heard THEN lan[x] ELSE Silent]]
<1>2. scan \in Running
  BY DEF Running, TypeOK
<1>3. sync' = [phase |-> "next", scan |-> scan] /\ \A x \in heard : scan.found[x] # Silent
  BY <1>1
<1>4. sync' \in Sync
  BY <1>2, <1>3, SyncTyping
<1>5. TypeOK'
  BY <1>4 DEF Scan, users, requests, TypeOK
<1>6. Carried'
  BY <1>3 DEF Carried
<1> QED
  BY <1>5, <1>6

LEMMA ReadRecordTyping ==
  ASSUME TypeOK, Carried, NEW x \in Ips, ReadRecord(x)
  PROVE  TypeOK' /\ Carried'
<1> DEFINE scan == [sync.scan EXCEPT !.todo = @ \ {x}]
<1>1. sync.phase = "next" /\ x \in sync.scan.todo /\ sync.scan \in Running
  BY SyncFields DEF ReadRecord, TypeOK
<1>2. /\ scan \in Running
      /\ scan.found = sync.scan.found
      /\ scan.todo = sync.scan.todo \ {x}
  BY <1>1 DEF Running
<1>3. PICK e \in entities \cup {None} :
        sync' = [phase |-> "match", scan |-> scan, ip |-> x, e |-> e]
  BY DEF ReadRecord
<1> HIDE DEF scan
<1>4. sync' \in Sync
  BY <1>2, <1>3, SyncTyping DEF TypeOK
<1>5. TypeOK'
  BY <1>4 DEF ReadRecord, users, requests, TypeOK
<1>6. Carried'
  BY <1>1, <1>2, <1>3 DEF Carried
<1> QED
  BY <1>5, <1>6

LEMMA DifferencesTyping ==
  ASSUME NEW e, NEW mac
  PROVE  /\ Differences(e, mac) \in SUBSET ConflictKey
         /\ \A k \in Differences(e, mac) : k.e = e
         /\ Differences(e, mac) # {} => info[e].origin = "manual"
BY DEF Differences

(* What a match hands to the write.                                        *)
LEMMA Matching ==
  ASSUME TypeOK, Match
  PROVE  \E e \in entities \cup {None}, was \in Origins, left \in SUBSET ConflictKey :
           /\ sync' = [phase |-> "write", scan |-> sync.scan, ip |-> sync.ip, e |-> e,
                       was |-> was, left |-> left]
           /\ e \in entities => was = info[e].origin
           /\ \A k \in left : k.e = e
           /\ left # {} => e \in entities /\ was = "manual"
<1> DEFINE mac == sync.scan.found[sync.ip]
           Handed(e, was, left) ==
             /\ sync' = [phase |-> "write", scan |-> sync.scan, ip |-> sync.ip, e |-> e,
                         was |-> was, left |-> left]
             /\ e \in entities => was = info[e].origin
             /\ \A k \in left : k.e = e
             /\ left # {} => e \in entities /\ was = "manual"
<1> SUFFICES \E e \in entities \cup {None}, was \in Origins, left \in SUBSET ConflictKey :
               Handed(e, was, left)
  OBVIOUS
<1>0. None \notin entities
  BY DiscoveryAssumption DEF TypeOK
<1>1. CASE Matches(sync.e, mac) = {}
  <2>1. sync' = [phase |-> "write", scan |-> sync.scan, ip |-> sync.ip, e |-> None,
                 was |-> "discovered", left |-> {}]
    BY <1>1 DEF Match
  <2>2. Handed(None, "discovered", {})
    BY <1>0, <2>1
  <2> QED BY <2>2 DEF Origins
<1>2. ASSUME NEW e \in Matches(sync.e, mac),
             sync' = [phase |-> "write", scan |-> sync.scan, ip |-> sync.ip, e |-> e,
                      was |-> info[e].origin, left |-> Differences(e, mac)]
      PROVE  \E was \in Origins, left \in SUBSET ConflictKey : Handed(e, was, left)
  <2>1. e \in entities
    BY DEF Matches, HolderOf
  <2>2. info[e].origin \in Origins
    BY <2>1 DEF TypeOK, Info
  <2>3. Handed(e, info[e].origin, Differences(e, mac))
    BY <1>2, <2>1, DifferencesTyping
  <2> HIDE DEF Handed
  <2> QED BY <2>2, <2>3, DifferencesTyping
<1>3. Matches(sync.e, mac) \subseteq entities
  BY DEF Matches, HolderOf
<1> QED
  BY <1>1, <1>2, <1>3 DEF Match

LEMMA MatchTyping ==
  ASSUME TypeOK, Carried, Match
  PROVE  TypeOK' /\ Carried'
<1>1. sync.phase = "match" /\ sync.scan \in Running /\ sync.ip \in Ips
  BY SyncFields DEF Match, TypeOK
<1>2. PICK e \in entities \cup {None}, was \in Origins, left \in SUBSET ConflictKey :
        /\ sync' = [phase |-> "write", scan |-> sync.scan, ip |-> sync.ip, e |-> e,
                    was |-> was, left |-> left]
        /\ \A k \in left : k.e = e
        /\ left # {} => e \in entities /\ was = "manual"
  BY Matching
<1>3. sync' \in Sync
  BY <1>1, <1>2, SyncTyping DEF TypeOK
<1>4. TypeOK'
  BY <1>3 DEF Match, users, requests, TypeOK
<1>5. None \notin entities
  BY DiscoveryAssumption DEF TypeOK
<1>6. Carried'
  BY <1>1, <1>2, <1>5 DEF Carried
<1> QED
  BY <1>4, <1>6

(* The conflict that is looked for, and what is left after it.             *)
LEMMA Reporting ==
  ASSUME TypeOK, Carried, sync.phase \in {"write", "conflict"}, sync.left # {}
  PROVE  /\ First(sync.left) \in ConflictKey /\ First(sync.left).e = sync.e
         /\ sync.e \in Entities /\ sync.was = "manual"
         /\ sync.left \ {First(sync.left)} \in SUBSET ConflictKey
BY SyncFields, FirstOfLeft DEF TypeOK, Carried

LEMMA LookingUp ==
  ASSUME TypeOK, Carried, LookUpConflict
  PROVE  /\ sync.phase = "write" /\ sync.left # {}
         /\ sync' \in Sync
         /\ sync'.scan = sync.scan /\ sync'.ip = sync.ip /\ sync'.e = sync.e
         /\ sync'.was = sync.was
         /\ \/ sync'.phase = "write" /\ sync'.left = sync.left \ {First(sync.left)}
            \/ /\ sync'.phase = "conflict" /\ sync'.left = sync.left
               /\ conflicts[First(sync.left)] = "none"
<1>1. sync.phase = "write" /\ sync.left # {} /\ sync \in Reports
  BY ReportTyping DEF LookUpConflict, TypeOK
<1>2. CASE Known(First(sync.left))
  <2>1. sync' = [sync EXCEPT !.left = @ \ {First(@)}]
    BY <1>2 DEF LookUpConflict
  <2>2. /\ sync' \in Reports
        /\ sync'.scan = sync.scan /\ sync'.ip = sync.ip /\ sync'.e = sync.e
        /\ sync'.was = sync.was
        /\ sync'.phase = "write" /\ sync'.left = sync.left \ {First(sync.left)}
    BY <1>1, <2>1 DEF Reports
  <2> QED BY <1>1, <2>2, ReportTyping
<1>3. CASE ~Known(First(sync.left))
  <2>1. sync' = [sync EXCEPT !.phase = "conflict"] /\ conflicts[First(sync.left)] = "none"
    BY <1>3 DEF LookUpConflict, Known
  <2>2. /\ sync' \in Reports
        /\ sync'.scan = sync.scan /\ sync'.ip = sync.ip /\ sync'.e = sync.e
        /\ sync'.was = sync.was
        /\ sync'.phase = "conflict" /\ sync'.left = sync.left
    BY <1>1, <2>1 DEF Reports
  <2> QED BY <1>1, <2>1, <2>2, ReportTyping
<1> QED
  BY <1>2, <1>3

LEMMA LookUpTyping ==
  ASSUME TypeOK, Carried, LookUpConflict
  PROVE  TypeOK' /\ Carried'
<1>1. TypeOK'
  BY LookingUp DEF LookUpConflict, users, requests, TypeOK
<1>2. Carried'
  BY LookingUp DEF Carried
<1> QED
  BY <1>1, <1>2

(* The transaction of a conflict ends the sync or goes back to the write.  *)
LEMMA Inserting ==
  ASSUME TypeOK, Carried, InsertConflict
  PROVE  /\ First(sync.left) \in ConflictKey /\ First(sync.left).e = sync.e
         /\ \/ sync' = Idle /\ conflicts' = conflicts
            \/ /\ sync.e \in entities
               /\ conflicts' = [conflicts EXCEPT ![First(sync.left)] =
                                  IF @ = "none" THEN "open" ELSE "twice"]
               /\ sync' \in Sync
               /\ sync'.phase = "write" /\ sync'.left = sync.left \ {First(sync.left)}
               /\ sync'.scan = sync.scan /\ sync'.ip = sync.ip /\ sync'.e = sync.e
               /\ sync'.was = sync.was
<1>1. sync.phase = "conflict" /\ sync.left # {} /\ sync \in Reports
  BY ReportTyping DEF InsertConflict, Carried, TypeOK
<1>2. First(sync.left) \in ConflictKey /\ First(sync.left).e = sync.e
  BY <1>1, Reporting
<1>3. CASE sync.e \in entities
  <2>1. /\ sync' = [sync EXCEPT !.phase = "write", !.left = @ \ {First(@)}]
        /\ conflicts' = [conflicts EXCEPT ![First(sync.left)] =
                           IF @ = "none" THEN "open" ELSE "twice"]
    BY <1>3 DEF InsertConflict
  <2>2. /\ sync' \in Reports
        /\ sync'.phase = "write" /\ sync'.left = sync.left \ {First(sync.left)}
        /\ sync'.scan = sync.scan /\ sync'.ip = sync.ip /\ sync'.e = sync.e
        /\ sync'.was = sync.was
    BY <1>1, <2>1 DEF Reports
  <2> QED BY <1>2, <1>3, <2>1, <2>2, ReportTyping
<1>4. CASE sync.e \notin entities
  BY <1>2, <1>4 DEF InsertConflict
<1> QED
  BY <1>3, <1>4

(* A write ends the sync or goes on to the record of the same address.     *)
LEMMA RecordTyping ==
  ASSUME TypeOK, Carried, sync.phase = "write", NEW e \in Entities,
         sync' = Written(e)
  PROVE  (sync \in Sync)' /\ Carried'
<1>1. sync.scan \in Running /\ sync.ip \in Ips
  BY SyncFields DEF TypeOK
<1> QED
  BY <1>1, SyncTyping DEF Written, Carried

LEMMA IdleTyping ==
  ASSUME sync' = Idle
  PROVE  (sync \in Sync)' /\ Carried'
BY SyncTyping, IdlePhase DEF Carried

LEMMA InsertTyping ==
  ASSUME TypeOK, Carried, InsertConflict
  PROVE  TypeOK' /\ Carried'
<1>1. sync.phase = "conflict"
  BY DEF InsertConflict
<1>2. CASE sync' = Idle /\ conflicts' = conflicts
  BY <1>2, IdleTyping DEF InsertConflict, requests, TypeOK
<1>3. CASE sync' # Idle
  <2>1. (conflicts \in [ConflictKey -> {"none", "open", "resolved", "twice"}])'
    BY <1>3, Inserting DEF TypeOK
  <2>2. \A k \in ConflictKey : conflicts'[k] # "none" => k.e \in entities
    BY <1>3, Inserting DEF TypeOK
  <2>3. Carried'
    BY <1>1, <1>3, Inserting DEF Carried
  <2> QED BY <1>3, <2>1, <2>2, <2>3, Inserting DEF InsertConflict, requests, TypeOK
<1> QED
  BY <1>2, <1>3, Inserting, IdlePhase

LEMMA HeardMac ==
  ASSUME TypeOK, Carried, sync.phase \in {"write", "record"}
  PROVE  sync.ip \in Ips /\ sync.scan.found[sync.ip] \in Macs \cup {None}
BY SyncFields DEF TypeOK, Carried, Running

LEMMA WriteManualTyping ==
  ASSUME TypeOK, Carried, WriteManual
  PROVE  TypeOK' /\ Carried'
<1>1. sync.phase = "write" /\ sync.e \in Entities
  BY SyncFields DEF WriteManual, TypeOK
<1>2. (sync \in Sync)' /\ Carried'
  BY <1>1, RecordTyping DEF WriteManual
<1>3. (status \in [Entities -> {"unknown", "up", "down"}])'
  BY <1>1 DEF WriteManual, TypeOK
<1> QED
  BY <1>2, <1>3 DEF WriteManual, users, requests, TypeOK

LEMMA WriteDiscoveredTyping ==
  ASSUME TypeOK, Carried, WriteDiscovered
  PROVE  TypeOK' /\ Carried'
<1> DEFINE mac == sync.scan.found[sync.ip]
<1>1. sync.phase = "write" /\ sync.e \in Entities
  BY SyncFields DEF WriteDiscovered, requests, TypeOK
<1>2. sync.ip \in Ips /\ mac \in Macs \cup {None}
  BY <1>1, HeardMac
<1> HIDE DEF mac
<1>3. CASE sync' = Idle /\ UNCHANGED <<info, status>>
  BY <1>3, IdleTyping DEF WriteDiscovered, requests, TypeOK
<1>4. CASE /\ info' = IF sync.e \in entities
                        THEN [info EXCEPT ![sync.e] = Observed(@, sync.ip, mac)] ELSE info
           /\ status' = [status EXCEPT ![sync.e] = IF sync.e \in entities THEN "up" ELSE @]
           /\ sync' = Written(sync.e)
  <2>1. (sync \in Sync)' /\ Carried'
    BY <1>1, <1>4, RecordTyping
  <2>2. Observed(info[sync.e], sync.ip, mac) \in Info
    BY <1>1, <1>2, ObservedTyping DEF TypeOK
  <2>3. (info \in [Entities -> Info])'
    BY <1>1, <1>4, <2>2 DEF TypeOK
  <2>4. (status \in [Entities -> {"unknown", "up", "down"}])'
    BY <1>1, <1>4 DEF TypeOK
  <2> QED BY <2>1, <2>3, <2>4 DEF WriteDiscovered, requests, TypeOK
<1> QED
  BY <1>3, <1>4 DEF WriteDiscovered, mac

LEMMA WriteNewTyping ==
  ASSUME TypeOK, Carried, WriteNew
  PROVE  TypeOK' /\ Carried'
<1> DEFINE mac == sync.scan.found[sync.ip]
<1>1. sync.phase = "write"
  BY DEF WriteNew
<1>2. sync.ip \in Ips /\ mac \in Macs \cup {None}
  BY <1>1, HeardMac
<1> HIDE DEF mac
<1>3. CASE sync' = Idle /\ UNCHANGED <<entities, info, status>>
  BY <1>3, IdleTyping DEF WriteNew, Fresh, requests, TypeOK
<1>4. ASSUME NEW e \in Entities \ entities,
             entities' = entities \cup {e},
             info' = [info EXCEPT ![e] = Observed(Nobody, sync.ip, mac)],
             status' = [status EXCEPT ![e] = "up"],
             sync' = Written(e)
      PROVE  TypeOK' /\ Carried'
  <2>1. (sync \in Sync)' /\ Carried'
    BY <1>1, <1>4, RecordTyping
  <2>2. Observed(Nobody, sync.ip, mac) \in Info
    BY <1>2, ObservedTyping, NobodyTyping
  <2>3. (info \in [Entities -> Info])'
    BY <1>4, <2>2 DEF TypeOK
  <2> QED BY <1>4, <2>1, <2>3 DEF WriteNew, Fresh, requests, TypeOK
<1> QED
  BY <1>3, <1>4 DEF WriteNew, Fresh, mac

LEMMA StoreRecordTyping ==
  ASSUME TypeOK, Carried, StoreRecord
  PROVE  TypeOK' /\ Carried'
<1>1. sync.phase = "record" /\ sync.scan \in Running /\ sync.ip \in Ips
  BY SyncFields DEF StoreRecord, requests, TypeOK
<1>2. CASE sync' = Idle /\ UNCHANGED record
  BY <1>2, IdleTyping DEF StoreRecord, requests, TypeOK
<1>3. CASE /\ sync.e \in entities
           /\ record' = [record EXCEPT ![sync.ip] = sync.e]
           /\ sync' = [phase |-> "next", scan |-> sync.scan]
  <2>1. (sync \in Sync)'
    BY <1>1, <1>3, SyncTyping
  <2>2. Carried'
    BY <1>1, <1>3 DEF Carried
  <2> QED BY <1>1, <1>3, <2>1, <2>2 DEF StoreRecord, requests, TypeOK
<1> QED
  BY <1>2, <1>3 DEF StoreRecord

LEMMA AbsentTyping ==
  ASSUME TypeOK, Carried, MarkAbsent \/ WriteAbsent
  PROVE  TypeOK' /\ Carried'
<1>1. CASE MarkAbsent
  <2>1. sync.scan \in Running
    BY <1>1, SyncFields DEF MarkAbsent, TypeOK
  <2>2. Absent(sync.scan.found) \in SUBSET Entities
    BY DEF Absent, TypeOK
  <2>3. \/ sync' = Idle
        \/ sync' = [phase |-> "absent", scan |-> sync.scan, absent |-> Absent(sync.scan.found)]
    BY <1>1 DEF MarkAbsent
  <2>4. (sync \in Sync)'
    BY <2>1, <2>2, <2>3, SyncTyping
  <2>5. Carried'
    BY <2>3, IdlePhase DEF Carried
  <2> QED BY <1>1, <2>4, <2>5 DEF MarkAbsent, users, requests, TypeOK
<1>2. CASE WriteAbsent
  BY <1>2, IdleTyping DEF WriteAbsent, users, requests, TypeOK
<1> QED
  BY <1>1, <1>2

LEMMA SyncStepTyping ==
  ASSUME TypeOK, Carried, SyncStep
  PROVE  TypeOK' /\ Carried'
BY ScanTyping, ReadRecordTyping, MatchTyping, LookUpTyping, InsertTyping, WriteManualTyping, WriteDiscoveredTyping, WriteNewTyping,
   StoreRecordTyping, AbsentTyping DEF SyncStep

(* Users and the housekeeping leave the sync alone.                        *)
LEMMA UsersKeepSync ==
  ASSUME UserStep \/ \E e \in Entities : Expire(e)
  PROVE  UNCHANGED <<lan, sync, restarts>>
BY DEF UserStep, Promote, UpdateEntity, CreateEntity, DeleteEntity, ValidateMerge,
       CommitMerge, MapRecord, ResolveConflict, Expire, users, requests

LEMMA RemoveTyping ==
  ASSUME TypeOK, NEW e \in Entities, Remove(e)
  PROVE  /\ (entities \subseteq Entities)'
         /\ (info \in [Entities -> Info])'
         /\ (status \in [Entities -> {"unknown", "up", "down"}])'
BY NobodyTyping DEF Remove, TypeOK

(* A merge that has both entities, or a source with no row to move.        *)
Merged(src, tgt) ==
  /\ src \in entities
  /\ tgt \in entities \/ ~HasRows(src)
  /\ Remove(src)
  /\ record' = [x \in Ips |-> IF record[x] = src THEN tgt ELSE record[x]]
  /\ conflicts' = [k \in ConflictKey |->
       IF k.e = src THEN "none"
       ELSE IF k.e # tgt \/ conflicts[[k EXCEPT !.e = src]] = "none" THEN conflicts[k]
       ELSE IF conflicts[k] = "none" THEN conflicts[[k EXCEPT !.e = src]]
       ELSE "twice"]

LEMMA SameOfAnother ==
  ASSUME NEW k \in ConflictKey, NEW e \in Entities
  PROVE  [k EXCEPT !.e = e] \in ConflictKey /\ [k EXCEPT !.e = e].e = e
BY DEF ConflictKey

LEMMA MergedTyping ==
  ASSUME TypeOK, NEW src \in Entities, NEW tgt \in Entities, src # tgt, Merged(src, tgt)
  PROVE  /\ (entities \subseteq Entities)'
         /\ (info \in [Entities -> Info])'
         /\ (status \in [Entities -> {"unknown", "up", "down"}])'
         /\ (record \in [Ips -> entities \cup {None, Silent}])'
         /\ (conflicts \in [ConflictKey -> {"none", "open", "resolved", "twice"}])'
         /\ \A k \in ConflictKey : conflicts'[k] # "none" => k.e \in entities'
<1>1. entities' = entities \ {src}
  BY DEF Merged, Remove
<1>2. \A k \in ConflictKey :
        /\ conflicts'[k] \in {"none", "open", "resolved", "twice"}
        /\ conflicts'[k] # "none" => k.e # src /\ k.e \in entities
  <2> TAKE k \in ConflictKey
  <2> DEFINE of == [k EXCEPT !.e = src]
  <2>1. of \in ConflictKey /\ of.e = src
    BY SameOfAnother
  <2>2. conflicts[k] \in {"none", "open", "resolved", "twice"}
        /\ conflicts[of] \in {"none", "open", "resolved", "twice"}
        /\ (conflicts[k] # "none" => k.e \in entities)
    BY <2>1 DEF TypeOK
  <2>3. conflicts[of] # "none" => tgt \in entities
    BY <2>1 DEF Merged, HasRows
  <2>4. conflicts'[k] = IF k.e = src THEN "none"
                        ELSE IF k.e # tgt \/ conflicts[of] = "none" THEN conflicts[k]
                        ELSE IF conflicts[k] = "none" THEN conflicts[of] ELSE "twice"
    BY DEF Merged
  <2> HIDE DEF of
  <2> QED BY <2>2, <2>3, <2>4
<1>3. (conflicts \in [ConflictKey -> {"none", "open", "resolved", "twice"}])'
  BY <1>2 DEF Merged
<1>4. (record \in [Ips -> entities \cup {None, Silent}])'
  BY <1>1 DEF Merged, HasRows, TypeOK
<1> QED
  BY <1>1, <1>2, <1>3, <1>4, RemoveTyping DEF Merged

LEMMA UserStepTyping ==
  ASSUME TypeOK, Carried, UserStep
  PROVE  TypeOK' /\ Carried'
<1> DEFINE Stored == /\ entities \subseteq Entities
                     /\ info \in [Entities -> Info]
                     /\ status \in [Entities -> {"unknown", "up", "down"}]
                     /\ record \in [Ips -> entities \cup {None, Silent}]
                     /\ conflicts \in [ConflictKey -> {"none", "open", "resolved", "twice"}]
                     /\ \A k \in ConflictKey : conflicts[k] # "none" => k.e \in entities
                     /\ merges \subseteq {m \in Entities \X Entities : m[1] # m[2]}
                     /\ overtaken \in BOOLEAN
<1>1. ASSUME NEW e \in Entities, NEW ip \in Ips \cup {None}, NEW mac \in Macs \cup {None},
             CreateEntity(e, ip, mac)
      PROVE  Stored'
  <2>1. [origin |-> "manual", name |-> "own", ip |-> ip, mac |-> mac] \in Info
    BY DEF Info, Names, Origins
  <2> QED BY <1>1, <2>1 DEF CreateEntity, Fresh, requests, TypeOK
<1>2. ASSUME NEW e \in Entities, NEW name \in Names, Promote(e, name)
      PROVE  Stored'
  <2>1. \A was \in Info : [was EXCEPT !.origin = "manual", !.name = name] \in Info
    BY DEF Info, Origins
  <2>2. info' = [info EXCEPT ![e] = [@ EXCEPT !.origin = "manual", !.name = name]]
    BY <1>2 DEF Promote, requests, TypeOK, Info
  <2>3. (info \in [Entities -> Info])'
    BY <2>1, <2>2 DEF TypeOK
  <2> QED BY <1>2, <2>3 DEF Promote, requests, TypeOK
<1>3. ASSUME NEW e \in Entities, NEW ip \in Ips \cup {None}, NEW mac \in Macs \cup {None},
             UpdateEntity(e, "own", ip, mac)
      PROVE  Stored'
  <2>1. \A was \in Info : [was EXCEPT !.name = "own", !.ip = ip, !.mac = mac] \in Info
    BY DEF Info, Names, Origins
  <2> QED BY <1>3, <2>1 DEF UpdateEntity, requests, TypeOK
<1>4. ASSUME NEW e \in Entities, DeleteEntity(e) PROVE Stored'
  BY <1>4, RemoveTyping DEF DeleteEntity, Remove, requests, TypeOK
<1>5. ASSUME NEW src \in Entities, NEW tgt \in Entities, CommitMerge(src, tgt)
      PROVE  Stored'
  <2>1. (merges \subseteq {m \in Entities \X Entities : m[1] # m[2]})' /\ UNCHANGED overtaken
    BY <1>5 DEF CommitMerge, TypeOK
  <2>2. CASE UNCHANGED <<entities, info, status, record, conflicts>>
    BY <2>1, <2>2 DEF TypeOK
  <2>3. CASE Merged(src, tgt)
    <3>1. src # tgt
      BY <1>5 DEF CommitMerge, TypeOK
    <3> QED BY <2>1, <2>3, <3>1, MergedTyping DEF TypeOK
  <2> QED BY <1>5, <2>2, <2>3 DEF CommitMerge, Merged
<1>10. ASSUME NEW src \in Entities, NEW tgt \in Entities, ValidateMerge(src, tgt)
      PROVE  Stored'
  BY <1>10 DEF ValidateMerge, TypeOK
<1>6. ASSUME NEW x \in Ips, NEW e \in Entities \cup {None}, MapRecord(x, e)
      PROVE  Stored'
  BY <1>6 DEF MapRecord, requests, TypeOK
<1>7. ASSUME NEW k \in ConflictKey, ResolveConflict(k) PROVE Stored'
  BY <1>7 DEF ResolveConflict, requests, TypeOK
<1>8. Stored'
  BY <1>1, <1>2, <1>3, <1>4, <1>5, <1>6, <1>7, <1>10 DEF UserStep
<1>9. UNCHANGED <<lan, sync, restarts>>
  BY UsersKeepSync
<1> QED
  BY <1>8, <1>9 DEF TypeOK, Carried

LEMMA TypeStep ==
  TypeOK /\ Carried /\ [Next]_vars => TypeOK' /\ Carried'
<1> SUFFICES ASSUME TypeOK, Carried, [Next]_vars
             PROVE  TypeOK' /\ Carried'
  OBVIOUS
<1>1. ASSUME NEW x \in Ips, NEW m \in Macs \cup {None, Silent}, Network(x, m)
      PROVE  TypeOK' /\ Carried'
  BY <1>1 DEF Network, users, requests, TypeOK, Carried
<1>2. ASSUME NEW e \in Entities, Expire(e) PROVE TypeOK' /\ Carried'
  BY <1>2 DEF Expire, users, requests, TypeOK, Carried
<1>3. CASE Restart
  BY <1>3, IdleTyping, DiscoveryAssumption DEF Restart, users, requests, TypeOK
<1>4. CASE UNCHANGED vars
  BY <1>4 DEF vars, TypeOK, Carried
<1> QED
  BY <1>1, <1>2, <1>3, <1>4, SyncStepTyping, UserStepTyping DEF Next

(* Every variable keeps its type; in particular no provider record and no  *)
(* conflict is of an entity that was deleted or merged away, at whatever   *)
(* point of a sync that happened.                                          *)
THEOREM TypeCorrect == Spec => []TypeOK
BY TypeInit, TypeStep, PTL DEF Spec

THEOREM SyncCarries == Spec => []Carried
BY TypeInit, TypeStep, PTL DEF Spec

-----------------------------------------------------------------------------
(* A step of the sync that changes an entity that exists writes the one it *)
(* had matched, and matched as a discovery.                                *)
LEMMA IdentityStep ==
  ASSUME TypeOK, [Next]_vars, NEW e \in entities,
         sync' # sync, info[e].origin = "manual", info'[e] # info[e]
  PROVE  sync.phase = "write" /\ sync.e = e /\ sync.was = "discovered"
<1>1. ~UserStep /\ \A f \in Entities : ~Expire(f)
  BY UsersKeepSync
<1>2. CASE WriteDiscovered
  BY <1>2 DEF WriteDiscovered, requests, TypeOK
<1>3. CASE WriteNew
  BY <1>3 DEF WriteNew, Fresh, requests, TypeOK
<1>4. \/ Scan \/ (\E x \in Ips : ReadRecord(x)) \/ Match
      \/ LookUpConflict \/ InsertConflict \/ WriteManual \/ StoreRecord
      \/ MarkAbsent \/ WriteAbsent \/ Restart \/ UNCHANGED vars
      \/ \E x \in Ips, m \in Macs \cup {None, Silent} : Network(x, m)
      => info' = info
  BY DEF Scan, ReadRecord, Match, LookUpConflict, InsertConflict, WriteManual, StoreRecord,
         MarkAbsent, WriteAbsent, Restart, Network,
         vars, users
<1> QED
  BY <1>1, <1>2, <1>3, <1>4 DEF Next, SyncStep

(* A sync never writes into an entity of a person, but for one that was    *)
(* adopted while that very write was on its way.                           *)
THEOREM OnlyAdoptionIsOverwritten == Spec => OnlyAdoptionLosesIdentity
<1>1. TypeOK /\ [Next]_vars =>
        [\A e \in entities :
           sync' # sync /\ info[e].origin = "manual" /\ info'[e] # info[e]
             => sync.phase = "write" /\ sync.e = e /\ sync.was = "discovered"]_vars
  BY IdentityStep
<1> QED
  BY <1>1, TypeCorrect, PTL DEF Spec, OnlyAdoptionLosesIdentity

-----------------------------------------------------------------------------
(***************************************************************************)
(* Conflicts.  A sync that reports one had matched a manual entity, which  *)
(* never becomes a discovery again.  While no source of a waiting merge is *)
(* promoted, such a source is a discovery and only what a person owns has  *)
(* conflicts: the merge brings none along.  So nothing comes between the   *)
(* lookup of a conflict and its insert.                                    *)
(***************************************************************************)
ManualReport ==
  sync.phase \in {"write", "conflict"} /\ sync.e \in entities /\ sync.was = "manual"
    => info[sync.e].origin = "manual"

ManualConflicts ==
  ~overtaken =>
    /\ \A k \in ConflictKey : conflicts[k] # "none" => info[k.e].origin = "manual"
    /\ \A m \in merges : m[1] \in entities => info[m[1]].origin = "discovered"
    /\ sync.phase = "conflict" => conflicts[First(sync.left)] = "none"

ConflictInv == ManualReport /\ ManualConflicts /\ ConflictReportedOnce

LEMMA ConflictInit == Init => ConflictInv
BY IdlePhase DEF Init, ConflictInv, ManualReport, ManualConflicts, ConflictReportedOnce

(* A step that leaves the conflicts and the origins of what exists alone.  *)
LEMMA KeptConflicts ==
  ASSUME TypeOK, ConflictInv, UNCHANGED <<conflicts, overtaken>>,
         sync'.phase \notin {"write", "conflict"},
         merges' \subseteq merges,
         \A e \in entities : info'[e].origin = info[e].origin,
         \A m \in merges : m[1] \in entities' => m[1] \in entities
  PROVE  ConflictInv'
BY DEF ConflictInv, ManualReport, ManualConflicts, ConflictReportedOnce, TypeOK

(* A new entity takes no id of a waiting merge.                            *)
LEMMA FreshForMerges ==
  ASSUME NEW e \in Fresh, NEW m \in merges
  PROVE  e \notin entities /\ m[1] # e
<1>1. m[1] \in UNION {{n[1], n[2]} : n \in merges}
  <2>1. {m[1], m[2]} \in {{n[1], n[2]} : n \in merges}
    OBVIOUS
  <2> QED BY <2>1
<1> QED
  BY <1>1 DEF Fresh, Held

LEMMA ConflictSyncStep ==
  ASSUME TypeOK, Carried, ConflictInv, SyncStep
  PROVE  ConflictInv'
<1>0. Idle.phase \notin {"write", "conflict"} /\ \A e : Written(e).phase = "record"
  BY IdlePhase DEF Written
<1>1. CASE Match
  <2>1. PICK e \in entities \cup {None}, was \in Origins, left \in SUBSET ConflictKey :
          /\ sync' = [phase |-> "write", scan |-> sync.scan, ip |-> sync.ip, e |-> e,
                      was |-> was, left |-> left]
          /\ e \in entities => was = info[e].origin
    BY <1>1, Matching
  <2>2. UNCHANGED users
    BY <1>1 DEF Match
  <2> QED BY <2>1, <2>2 DEF users, requests, ConflictInv, ManualReport, ManualConflicts,
                            ConflictReportedOnce
<1>2. CASE Scan
  BY <1>2, KeptConflicts DEF Scan, users, requests
<1>3. ASSUME NEW x \in Ips, ReadRecord(x) PROVE ConflictInv'
  BY <1>3, KeptConflicts DEF ReadRecord, users, requests
<1>4. CASE LookUpConflict
  <2>1. UNCHANGED users
    BY <1>4 DEF LookUpConflict
  <2> QED BY <1>4, <2>1, LookingUp DEF users, requests, ConflictInv, ManualReport,
                                  ManualConflicts, ConflictReportedOnce
<1>5. CASE InsertConflict
  <2>1. sync.phase = "conflict" /\ sync.left # {} /\ UNCHANGED <<entities, info, requests>>
    BY <1>5 DEF InsertConflict, Carried
  <2>2. CASE sync' = Idle /\ conflicts' = conflicts
    BY <1>0, <2>1, <2>2, KeptConflicts DEF requests
  <2>3. CASE sync' # Idle
    <3>1. First(sync.left).e = sync.e /\ sync.was = "manual" /\ sync.e \in entities
      BY <1>5, <2>1, <2>3, Inserting, Reporting
    <3>2. conflicts' = [conflicts EXCEPT ![First(sync.left)] =
                          IF @ = "none" THEN "open" ELSE "twice"]
          /\ sync'.phase = "write" /\ sync'.e = sync.e /\ sync'.was = sync.was
      BY <1>5, <2>3, Inserting
    <3>3. info[sync.e].origin = "manual"
      BY <2>1, <3>1 DEF ConflictInv, ManualReport
    <3>4. ~overtaken => conflicts[First(sync.left)] = "none"
      BY <2>1 DEF ConflictInv, ManualConflicts
    <3>5. \A k \in ConflictKey :
            /\ conflicts'[k] # "none" => conflicts[k] # "none" \/ k.e = sync.e
            /\ ~overtaken /\ conflicts'[k] = "twice" => conflicts[k] = "twice"
      BY <3>1, <3>2, <3>4 DEF TypeOK
    <3> QED BY <2>1, <3>2, <3>3, <3>5 DEF requests, ConflictInv, ManualReport,
                                          ManualConflicts, ConflictReportedOnce
  <2> QED BY <1>5, <2>2, <2>3, Inserting, IdlePhase
<1>6. CASE WriteManual
  BY <1>0, <1>6, KeptConflicts DEF WriteManual, users, requests
<1>7. CASE WriteDiscovered
  <2>1. sync'.phase \notin {"write", "conflict"} /\ UNCHANGED <<entities, conflicts, requests>>
    BY <1>0, <1>7 DEF WriteDiscovered
  <2>2. \A was \in Info : \A x, mac : Observed(was, x, mac).origin = was.origin
    BY DEF Observed, Info
  <2>3. \A e \in entities : info'[e].origin = info[e].origin
    BY <1>7, <2>2 DEF WriteDiscovered, TypeOK
  <2> QED BY <2>1, <2>3, KeptConflicts DEF requests
<1>8. CASE WriteNew
  <2>1. sync'.phase \notin {"write", "conflict"} /\ UNCHANGED <<conflicts, requests>>
    BY <1>0, <1>8 DEF WriteNew
  <2>2. \A e \in entities : info'[e].origin = info[e].origin
    BY <1>8 DEF WriteNew, Fresh, TypeOK
  <2>3. \A m \in merges : m[1] \in entities' => m[1] \in entities
    BY <1>8, FreshForMerges DEF WriteNew
  <2> QED BY <2>1, <2>2, <2>3, KeptConflicts DEF requests
<1>9. CASE StoreRecord
  BY <1>0, <1>9, KeptConflicts DEF StoreRecord, requests
<1>10. CASE MarkAbsent
  BY <1>0, <1>10, KeptConflicts DEF MarkAbsent, users, requests
<1>11. CASE WriteAbsent
  BY <1>0, <1>11, KeptConflicts DEF WriteAbsent, users, requests
<1> QED
  BY <1>1, <1>2, <1>3, <1>4, <1>5, <1>6, <1>7, <1>8, <1>9, <1>10, <1>11 DEF SyncStep

LEMMA ConflictUserStep ==
  ASSUME TypeOK, Carried, ConflictInv, UserStep
  PROVE  ConflictInv'
<1>0. UNCHANGED sync
  BY UsersKeepSync
<1>01. sync.phase = "conflict" => First(sync.left) \in ConflictKey
  BY Reporting DEF Carried
<1> DEFINE Inv == /\ ManualReport /\ ManualConflicts /\ ConflictReportedOnce
<1>02. Inv
  BY DEF ConflictInv
<1>1. ASSUME NEW e \in Entities, NEW ip \in Ips \cup {None}, NEW mac \in Macs \cup {None},
             CreateEntity(e, ip, mac)
      PROVE  Inv'
  <2>1. e \notin entities /\ \A m \in merges : m[1] # e
    BY <1>1, FreshForMerges DEF CreateEntity, Fresh
  <2> QED BY <1>0, <1>02, <1>1, <2>1 DEF CreateEntity, requests, TypeOK, ManualReport,
                                         ManualConflicts, ConflictReportedOnce
<1>2. ASSUME NEW e \in Entities, NEW name \in Names, Promote(e, name)
      PROVE  Inv'
  <2>1. \A f \in Entities :
          info'[f].origin = IF f = e THEN "manual" ELSE info[f].origin
    BY <1>2 DEF Promote, TypeOK, Info
  <2> QED BY <1>0, <1>02, <1>2, <2>1 DEF Promote, TypeOK, ManualReport, ManualConflicts,
                                         ConflictReportedOnce, ConflictKey
<1>3. ASSUME NEW e \in Entities, NEW ip \in Ips \cup {None}, NEW mac \in Macs \cup {None},
             UpdateEntity(e, "own", ip, mac)
      PROVE  Inv'
  <2>1. \A f \in Entities : info'[f].origin = info[f].origin
    BY <1>3 DEF UpdateEntity, TypeOK, Info
  <2> QED BY <1>0, <1>02, <1>3, <2>1 DEF UpdateEntity, requests, TypeOK, ManualReport,
                                         ManualConflicts, ConflictReportedOnce, ConflictKey
<1>4. ASSUME NEW e \in Entities, DeleteEntity(e) PROVE Inv'
  <2>1. entities' = entities \ {e} /\ \A f \in Entities : f # e => info'[f] = info[f]
    BY <1>4 DEF DeleteEntity, Remove, TypeOK
  <2>2. \A k \in ConflictKey : conflicts'[k] = IF k.e = e THEN "none" ELSE conflicts[k]
    BY <1>4 DEF DeleteEntity
  <2>3. \A k \in ConflictKey : k.e \in Entities
    BY DEF ConflictKey
  <2>4. UNCHANGED <<merges, overtaken>> /\ \A m \in merges : m[1] \in Entities
    BY <1>4 DEF DeleteEntity, requests, TypeOK
  <2>5. ManualReport'
    BY <1>0, <1>02, <2>1 DEF TypeOK, ManualReport
  <2>6. ManualConflicts'
    BY <1>0, <1>01, <1>02, <2>1, <2>2, <2>3, <2>4 DEF ManualConflicts
  <2> QED BY <1>02, <2>2, <2>4, <2>5, <2>6 DEF ConflictReportedOnce
<1>5. ASSUME NEW src \in Entities, NEW tgt \in Entities, CommitMerge(src, tgt)
      PROVE  Inv'
  <2>1. <<src, tgt>> \in merges /\ merges' \subseteq merges /\ UNCHANGED overtaken
    BY <1>5 DEF CommitMerge
  <2>2. CASE UNCHANGED <<entities, info, status, record, conflicts>>
    BY <1>0, <1>02, <2>1, <2>2 DEF ManualReport, ManualConflicts, ConflictReportedOnce
  <2>3. CASE Merged(src, tgt)
    <3>1. entities' = entities \ {src} /\ \A f \in Entities : f # src => info'[f] = info[f]
      BY <2>3 DEF Merged, Remove, TypeOK
    <3>2. ManualReport'
      BY <1>0, <1>02, <3>1 DEF TypeOK, ManualReport
    <3>3. ASSUME ~overtaken
          PROVE  \A k \in ConflictKey :
                   conflicts'[k] = IF k.e = src THEN "none" ELSE conflicts[k]
      <4>1. info[src].origin = "discovered"
        BY <1>02, <2>1, <2>3, <3>3 DEF Merged, ManualConflicts
      <4>2. \A k \in ConflictKey : conflicts[[k EXCEPT !.e = src]] = "none"
        BY <1>02, <3>3, <4>1, SameOfAnother DEF ManualConflicts
      <4> QED BY <2>3, <4>2 DEF Merged
    <3>4. \A k \in ConflictKey : k.e \in Entities
      BY DEF ConflictKey
    <3>5. \A m \in merges : m[1] \in Entities
      BY DEF TypeOK
    <3>6. ManualConflicts'
      BY <1>0, <1>01, <1>02, <2>1, <3>1, <3>3, <3>4, <3>5 DEF ManualConflicts
    <3>7. ConflictReportedOnce'
      BY <1>02, <2>1, <3>3 DEF ConflictReportedOnce
    <3> QED BY <3>2, <3>6, <3>7
  <2> QED BY <1>5, <2>2, <2>3 DEF CommitMerge, Merged
<1>6. ASSUME NEW x \in Ips, NEW e \in Entities \cup {None}, MapRecord(x, e)
      PROVE  Inv'
  BY <1>0, <1>02, <1>6 DEF MapRecord, requests, ManualReport, ManualConflicts,
                           ConflictReportedOnce
<1>7. ASSUME NEW k \in ConflictKey, ResolveConflict(k) PROVE Inv'
  <2>1. \A j \in ConflictKey : conflicts'[j] = IF j = k THEN "resolved" ELSE conflicts[j]
    BY <1>7 DEF ResolveConflict, TypeOK
  <2>2. conflicts[k] = "open" /\ UNCHANGED <<entities, info, requests>>
    BY <1>7 DEF ResolveConflict
  <2> QED BY <1>0, <1>01, <1>02, <2>1, <2>2 DEF requests, ManualReport, ManualConflicts,
                                                ConflictReportedOnce
<1>8. ASSUME NEW src \in Entities, NEW tgt \in Entities, ValidateMerge(src, tgt)
      PROVE  Inv'
  BY <1>0, <1>02, <1>8 DEF ValidateMerge, ManualReport, ManualConflicts, ConflictReportedOnce
<1> HIDE DEF Inv
<1>9. Inv'
  BY <1>1, <1>2, <1>3, <1>4, <1>5, <1>6, <1>7, <1>8 DEF UserStep
<1> QED
  BY <1>9 DEF Inv, ConflictInv

LEMMA ConflictStep ==
  TypeOK /\ Carried /\ ConflictInv /\ [Next]_vars => ConflictInv'
<1> SUFFICES ASSUME TypeOK, Carried, ConflictInv, [Next]_vars PROVE ConflictInv'
  OBVIOUS
<1>1. ASSUME UNCHANGED <<entities, info, conflicts, requests, sync>> PROVE ConflictInv'
  BY <1>1 DEF requests, ConflictInv, ManualReport, ManualConflicts, ConflictReportedOnce
<1>2. ASSUME NEW x \in Ips, NEW m \in Macs \cup {None, Silent}, Network(x, m)
      PROVE  ConflictInv'
  BY <1>1, <1>2 DEF Network, users
<1>3. ASSUME NEW e \in Entities, Expire(e) PROVE ConflictInv'
  BY <1>1, <1>3 DEF Expire, users
<1>4. CASE Restart
  BY <1>4, KeptConflicts, IdlePhase DEF Restart
<1>5. CASE UNCHANGED vars
  BY <1>1, <1>5 DEF vars, requests
<1> QED
  BY <1>2, <1>3, <1>4, <1>5, ConflictSyncStep, ConflictUserStep DEF Next

(* No difference is reported twice, with any number of addresses, names,   *)
(* MACs and merges and every order of syncs, merges and resolutions, while *)
(* no source of a merge is promoted between its check and its transaction. *)
THEOREM ConflictsAreReportedOnce == Spec => []ConflictReportedOnce
<1>1. ConflictInv => ConflictReportedOnce
  BY DEF ConflictInv
<1> QED
  BY <1>1, ConflictInit, ConflictStep, TypeCorrect, SyncCarries, PTL DEF Spec

-----------------------------------------------------------------------------
(***************************************************************************)
(* The status that a scan leaves, when no user acts in the middle of it.   *)
(* An address that answered and was dealt with has an entity that is not   *)
(* down: the sync wrote up, and the housekeeping can only forget it.  The  *)
(* entities that _mark_absent read are all that are up and have not        *)
(* answered, and they stay, since only users delete.                       *)
(***************************************************************************)
ScanAlone == UsersAct \subseteq {"idle"}

Handled(x) ==
  /\ sync.scan.found[x] # Silent /\ x \notin sync.scan.todo
  /\ sync.phase \in {"match", "write", "conflict", "record"} => x # sync.ip

Unheard(e) ==
  /\ \E x \in Ips : record[x] = e
  /\ info[e].ip # None /\ sync.scan.found[info[e].ip] = Silent

ScanInv ==
  sync.phase # "idle" =>
    /\ \A x \in Ips : Handled(x) /\ record[x] \in entities => status[record[x]] # "down"
    /\ sync.phase = "record" /\ sync.e \in entities => status[sync.e] # "down"
    /\ sync.phase = "absent" =>
         /\ sync.scan.todo = {}
         /\ sync.absent \subseteq entities
         /\ \A e \in sync.absent : Unheard(e)
         /\ \A e \in entities \ sync.absent : Unheard(e) => status[e] # "up"

LEMMA ScanInit == Init => ScanInv
BY IdlePhase DEF Init, ScanInv

LEMMA ScanSyncStep ==
  ASSUME TypeOK, Carried, ScanInv, SyncStep
  PROVE  ScanInv'
<1>0. CASE sync' = Idle
  BY <1>0, IdlePhase DEF ScanInv
<1>1. CASE Scan
  BY <1>1 DEF Scan, ScanInv, Handled
<1>2. ASSUME NEW x \in Ips, ReadRecord(x) PROVE ScanInv'
  <2>1. /\ sync.phase = "next" /\ sync.scan \in Running
        /\ UNCHANGED <<entities, record, status>>
    BY <1>2, SyncFields DEF ReadRecord, users, TypeOK
  <2>2. /\ sync'.phase = "match" /\ sync'.ip = x
        /\ sync'.scan.found = sync.scan.found
        /\ sync'.scan.todo = sync.scan.todo \ {x}
    BY <1>2, <2>1 DEF ReadRecord, Running
  <2>3. \A y \in Ips : Handled(y)' => Handled(y)
    BY <2>1, <2>2 DEF Handled
  <2> QED BY <2>1, <2>2, <2>3 DEF ScanInv
<1>31. ASSUME Match \/ LookUpConflict \/ InsertConflict, sync' # Idle PROVE ScanInv'
  <2>1. /\ sync.phase \in {"match", "write", "conflict"}
        /\ UNCHANGED <<entities, record, status>>
    BY <1>31 DEF Match, LookUpConflict, InsertConflict, users
  <2>2. /\ sync'.phase \in {"write", "conflict"}
        /\ sync'.ip = sync.ip /\ sync'.scan = sync.scan
    <3>1. CASE Match
      BY <3>1, Matching
    <3>2. CASE InsertConflict
      BY <1>31, <3>2, Inserting
    <3>3. CASE LookUpConflict
      BY <3>3, LookingUp
    <3> QED BY <1>31, <3>1, <3>2, <3>3
  <2>3. \A y \in Ips : Handled(y)' => Handled(y)
    BY <2>1, <2>2 DEF Handled
  <2> QED BY <2>1, <2>2, <2>3 DEF ScanInv
<1>3. ASSUME WriteManual \/ WriteDiscovered, sync' # Idle PROVE ScanInv'
  <2>1. /\ sync.phase = "write" /\ sync.e \in Entities
        /\ sync' = Written(sync.e)
        /\ status' = [status EXCEPT ![sync.e] = IF sync.e \in entities THEN "up" ELSE @]
        /\ UNCHANGED <<entities, record>>
    BY <1>3, SyncFields DEF WriteManual, WriteDiscovered, users, TypeOK
  <2>2. /\ \A y \in Ips : Handled(y)' => Handled(y)
        /\ sync'.phase = "record" /\ sync'.e = sync.e
    BY <2>1 DEF Handled, Written
  <2>3. /\ \A e \in Entities : status'[e] = status[e] \/ status'[e] = "up"
        /\ sync.e \in entities => status'[sync.e] = "up"
    BY <2>1 DEF TypeOK
  <2> QED BY <2>1, <2>2, <2>3 DEF ScanInv, TypeOK
<1>4. ASSUME WriteNew, sync' # Idle PROVE ScanInv'
  <2>1. PICK e \in Entities \ entities :
          /\ entities' = entities \cup {e}
          /\ status' = [status EXCEPT ![e] = "up"]
          /\ sync' = Written(e)
    BY <1>4 DEF WriteNew, Fresh
  <2>2. sync.phase = "write" /\ record' = record
    BY <1>4 DEF WriteNew
  <2>3. /\ \A y \in Ips : Handled(y)' => Handled(y)
        /\ sync'.phase = "record" /\ sync'.e = e
    BY <2>1, <2>2 DEF Handled, Written
  <2> QED BY <2>1, <2>2, <2>3 DEF ScanInv, TypeOK
<1>5. ASSUME StoreRecord, sync' # Idle PROVE ScanInv'
  <2>1. /\ sync.phase = "record" /\ sync.e \in entities /\ sync.ip \in Ips
        /\ record' = [record EXCEPT ![sync.ip] = sync.e]
        /\ sync' = [phase |-> "next", scan |-> sync.scan]
        /\ UNCHANGED <<entities, status>>
    BY <1>5, SyncFields DEF StoreRecord, requests, TypeOK
  <2>2. \A y \in Ips : Handled(y)' => Handled(y) \/ y = sync.ip
    BY <2>1 DEF Handled
  <2> QED BY <2>1, <2>2 DEF ScanInv, TypeOK
<1>6. ASSUME MarkAbsent, sync' # Idle PROVE ScanInv'
  <2>1. /\ sync.phase = "next" /\ sync.scan.todo = {}
        /\ sync' = [phase |-> "absent", scan |-> sync.scan,
                    absent |-> Absent(sync.scan.found)]
        /\ UNCHANGED <<entities, info, record, status>>
    BY <1>6 DEF MarkAbsent, users
  <2>2. \A y \in Ips : Handled(y)' => Handled(y)
    BY <2>1 DEF Handled
  <2>3. \A e \in entities : e \in sync'.absent <=> status[e] # "down" /\ Unheard(e)'
    BY <2>1 DEF Absent, Unheard
  <2>4. sync'.absent \subseteq entities
    BY <2>1 DEF Absent
  <2> QED BY <2>1, <2>2, <2>3, <2>4 DEF ScanInv
<1>7. WriteAbsent => sync' = Idle
  BY DEF WriteAbsent
<1> QED
  BY <1>0, <1>1, <1>2, <1>31, <1>3, <1>4, <1>5, <1>6, <1>7 DEF SyncStep

(* Users only act while no scan runs.                                      *)
LEMMA UsersWait ==
  ASSUME ScanAlone, TypeOK, UserStep
  PROVE  sync = Idle
BY SyncFields DEF ScanAlone, UserStep, Promote, UpdateEntity, CreateEntity, DeleteEntity,
   ValidateMerge, CommitMerge, MapRecord, ResolveConflict, UserMayAct, TypeOK

LEMMA ScanStep ==
  ASSUME ScanAlone, TypeOK, Carried, ScanInv, [Next]_vars
  PROVE  ScanInv'
<1>1. CASE UserStep
  BY <1>1, UsersWait, UsersKeepSync, IdlePhase DEF ScanInv
<1>2. CASE SyncStep
  BY <1>2, ScanSyncStep
<1>3. ASSUME UNCHANGED <<users, sync>>,
             \A e \in Entities : status'[e] = status[e] \/ status'[e] = "unknown"
      PROVE  ScanInv'
  <2>1. /\ \A x \in Ips : Handled(x)' = Handled(x)
        /\ \A e \in Entities : Unheard(e)' = Unheard(e)
    BY <1>3 DEF users, Handled, Unheard
  <2> QED BY <1>3, <2>1 DEF users, ScanInv, TypeOK
<1>4. ASSUME NEW x \in Ips, NEW m \in Macs \cup {None, Silent}, Network(x, m)
      PROVE  ScanInv'
  BY <1>3, <1>4 DEF Network
<1>5. ASSUME NEW e \in Entities, Expire(e) PROVE ScanInv'
  BY <1>3, <1>5 DEF Expire, TypeOK
<1>6. CASE Restart
  BY <1>6, IdlePhase DEF Restart, ScanInv
<1>7. CASE UNCHANGED vars
  BY <1>3, <1>7 DEF vars, users, requests
<1> QED
  BY <1>1, <1>2, <1>4, <1>5, <1>6, <1>7 DEF Next

LEMMA StatusStep ==
  ASSUME TypeOK, Carried, ScanInv, [Next]_vars, SyncEnds,
         NEW e \in {record[y] : y \in Ips} \cap entities, NEW x \in Ips, info[e].ip = x
  PROVE  /\ sync.scan.found[x] = Silent => status'[e] # "up"
         /\ sync.scan.found[x] # Silent /\ record[x] = e => status'[e] # "down"
<1>1. /\ e \in Entities /\ x # None
      /\ Unheard(e) <=> sync.scan.found[x] = Silent
  BY DiscoveryAssumption DEF TypeOK, Unheard
<1>2. sync' # sync /\ restarts' = restarts
  BY IdlePhase DEF SyncEnds
<1>3. ~UserStep
  BY <1>2, UsersKeepSync
<1>4. MarkAbsent \/ WriteAbsent
  <2>1. /\ Scan => sync.phase = "idle"
        /\ \A y \in Ips : ReadRecord(y) => sync.phase = "next" /\ sync' # Idle
        /\ Match => sync.phase = "match"
        /\ LookUpConflict => sync.phase = "write"
        /\ InsertConflict => sync.phase = "conflict"
        /\ WriteManual \/ WriteDiscovered \/ WriteNew => sync.phase = "write"
        /\ StoreRecord => sync.phase = "record"
    BY IdlePhase DEF Scan, ReadRecord, Match, LookUpConflict, InsertConflict, WriteManual,
                     WriteDiscovered, WriteNew, StoreRecord
  <2>2. /\ \A y, m : Network(y, m) => sync' = sync
        /\ \A f : Expire(f) => sync' = sync
        /\ Restart => restarts' = restarts + 1
        /\ UNCHANGED vars => sync' = sync
    BY DEF Network, Expire, Restart, vars
  <2>3. restarts + 1 # restarts
    BY DiscoveryAssumption DEF TypeOK
  <2> QED BY <1>2, <1>3, <2>1, <2>2, <2>3 DEF SyncEnds, Next, SyncStep
<1>5. CASE MarkAbsent
  <2>1. Absent(sync.scan.found) = {} /\ status' = status /\ sync.phase = "next"
        /\ sync.scan.todo = {}
    BY <1>5, IdlePhase DEF MarkAbsent, SyncEnds
  <2>2. Unheard(e) => status[e] = "down"
    BY <2>1 DEF Absent, Unheard
  <2>3. sync.scan.found[x] # Silent => Handled(x)
    BY <2>1 DEF Handled
  <2> QED BY <1>1, <2>1, <2>2, <2>3 DEF ScanInv
<1>6. CASE WriteAbsent
  <2>1. sync.phase = "absent"
    BY <1>6 DEF WriteAbsent
  <2>2. /\ sync.absent \subseteq entities
        /\ sync.scan.todo = {}
        /\ \A f \in sync.absent : Unheard(f)
        /\ \A f \in entities \ sync.absent : Unheard(f) => status[f] # "up"
    BY <2>1 DEF ScanInv
  <2>3. status'[e] = IF e \in sync.absent THEN "down" ELSE status[e]
    BY <1>1, <1>6, <2>2 DEF WriteAbsent
  <2>4. sync.scan.found[x] # Silent => Handled(x)
    BY <2>1, <2>2 DEF Handled
  <2> QED BY <1>1, <2>1, <2>2, <2>3, <2>4 DEF ScanInv
<1> QED
  BY <1>4, <1>5, <1>6

(* A scan that no user interferes with leaves every entity as it saw it:   *)
(* none up at a silent address, none down whose own address answered,      *)
(* however the network changes and statuses expire meanwhile.              *)
THEOREM ScanDecidesStatus ==
  ASSUME ScanAlone
  PROVE  Spec => StatusIsWhatTheScanSaw
<1>1. TypeOK /\ Carried /\ ScanInv /\ [Next]_vars => ScanInv'
  BY ScanStep
<1>2. TypeOK /\ Carried /\ ScanInv /\ [Next]_vars =>
        [SyncEnds =>
           \A e \in {record[y] : y \in Ips} \cap entities, x \in Ips :
             info[e].ip = x =>
               /\ sync.scan.found[x] = Silent => status'[e] # "up"
               /\ sync.scan.found[x] # Silent /\ record[x] = e => status'[e] # "down"]_vars
  BY StatusStep
<1> QED
  BY <1>1, <1>2, ScanInit, TypeCorrect, SyncCarries, PTL DEF Spec, StatusIsWhatTheScanSaw

=============================================================================
