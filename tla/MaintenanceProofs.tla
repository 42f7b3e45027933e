-------------------------- MODULE MaintenanceProofs --------------------------
(***************************************************************************)
(* Proofs about Maintenance: types, the row that says a speedtest runs,    *)
(* how often a status that nobody confirms is sampled, and the totals of   *)
(* the days; for every set of entities and backups and every retention.    *)
(***************************************************************************)
EXTENDS Maintenance, FiniteSetTheorems, WellFoundedInduction, TLAPS

(* A day starts at the slot of its number, and slots and days keep order.  *)
LEMMA DayBounds ==
  ASSUME NEW s \in Nat
  PROVE  Day(s) \in Nat /\ Day(s) * PerDay <= s
BY MaintenanceAssumption, SMT DEF Day

LEMMA DayMonotone ==
  ASSUME NEW s \in Nat, NEW t \in Nat, s <= t
  PROVE  Day(s) <= Day(t)
BY MaintenanceAssumption, SMT DEF Day

LEMMA DayTyping ==
  /\ \A s \in Slots : s \in Nat /\ Day(s) \in Days
  /\ \A d \in Days : d \in Nat
<1>1. MaxSlot \in Nat /\ Day(MaxSlot) \in Nat
  BY MaintenanceAssumption, DayBounds
<1>2. ASSUME NEW s \in Slots PROVE s \in Nat /\ Day(s) \in Days
  <2>1. s \in Nat /\ s <= MaxSlot
    BY <1>1 DEF Slots
  <2>2. Day(s) \in Nat /\ Day(s) <= Day(MaxSlot)
    BY <1>1, <2>1, DayBounds, DayMonotone
  <2> QED BY <1>1, <2>1, <2>2 DEF Days
<1> QED
  BY <1>1, <1>2 DEF Days

(* The fields of a database.                                               *)
LEMMA DatabaseFields ==
  ASSUME NEW x
  PROVE  x \in Database <=>
           /\ x = [status |-> x.status, fresh |-> x.fresh, samples |-> x.samples,
                   days |-> x.days, running |-> x.running, due |-> x.due,
                   enabled |-> x.enabled]
           /\ x.status \in [Entities -> Statuses \cup {"unknown"}]
           /\ x.fresh \in SUBSET Entities
           /\ x.samples \in [Entities -> [Slots -> Statuses \cup {"unknown", None}]]
           /\ x.days \in [Entities -> [Days -> Total]]
           /\ x.running \in SUBSET RunIds
           /\ x.due \in BOOLEAN
           /\ x.enabled \in BOOLEAN
BY DEF Database

(* What the actions write in the database.                                 *)
LEMMA FieldTyping ==
  ASSUME db \in Database
  PROVE  /\ \A st \in [Entities -> Statuses \cup {"unknown"}] :
              LET new == [db EXCEPT !.status = st]
              IN  new \in Database /\ new.samples = db.samples
         /\ \A rs \in SUBSET RunIds :
              LET new == [db EXCEPT !.running = rs]
              IN  new \in Database /\ new.samples = db.samples
         /\ \A rs \in SUBSET RunIds :
              LET new == [db EXCEPT !.running = rs, !.due = FALSE]
              IN  new \in Database /\ new.samples = db.samples
         /\ \A b \in BOOLEAN :
              LET new == [db EXCEPT !.due = b]
              IN  new \in Database /\ new.samples = db.samples
         /\ \A b \in BOOLEAN :
              LET new == [db EXCEPT !.enabled = b]
              IN  new \in Database /\ new.samples = db.samples
         /\ \A samples \in [Entities -> [Slots -> Statuses \cup {"unknown", None}]] :
              \A days \in [Entities -> [Days -> Total]] :
                LET new == [db EXCEPT !.samples = samples, !.days = days]
                IN  new \in Database /\ new.samples = samples /\ new.days = days
BY DEF Database

(* No sample lies ahead of the clock, which never was before FirstSlot.    *)
NoSampleAhead == \A e \in Entities, s \in Slots : s > slot => db.samples[e][s] = None

TypeInv == TypeOK /\ slot >= FirstSlot

LEMMA TypeInit == Init => TypeInv
<1> SUFFICES ASSUME Init PROVE TypeInv
  OBVIOUS
<1>1. NoTotal \in Total
  BY DEF NoTotal, Total
<1>2. db \in Database
  BY <1>1, Zenon DEF Init, Database
<1>3. \A e \in Entities, s \in Slots : db.samples[e][s] = None
  BY DEF Init
<1>4. slot \in Slots /\ slot >= FirstSlot
  BY MaintenanceAssumption DEF Init, Slots
<1>5. faults \in 0..MaxFaults /\ restarts \in 0..MaxRestarts /\ restores \in 0..MaxRestores
  BY MaintenanceAssumption DEF Init
<1> QED
  BY <1>2, <1>3, <1>4, <1>5 DEF Init, TypeInv, TypeOK, Steps

(* What the loop writes of an entity in a round.                           *)
LEMMA CountedTyping ==
  ASSUME NEW e, NEW s, NEW total \in Total
  PROVE  Counted(e, s, total) \in Total
BY DEF Counted, Total, One

LEMMA RecordTyping ==
  ASSUME TypeInv, RecordSamples
  PROVE  TypeInv'
<1> DEFINE new == {e \in Entities : db.samples[e][Stamp] = None}
           sampled(e) == [db.samples[e] EXCEPT ![Stamp] = db.status[e]]
           counted(e) == [db.days[e] EXCEPT ![Day(Stamp)] = Counted(e, Stamp, @)]
           samples == [e \in Entities |-> IF e \in new THEN sampled(e) ELSE db.samples[e]]
           days == [e \in Entities |-> IF e \in new THEN counted(e) ELSE db.days[e]]
<1>1. /\ db.status \in [Entities -> Statuses \cup {"unknown"}]
      /\ db.samples \in [Entities -> [Slots -> Statuses \cup {"unknown", None}]]
      /\ db.days \in [Entities -> [Days -> Total]]
  BY DatabaseFields DEF TypeInv, TypeOK
<1>2. Stamp = slot /\ Stamp \in Slots /\ Day(Stamp) \in Days
  BY DayTyping DEF Stamp, TypeInv, TypeOK
<1>3. samples \in [Entities -> [Slots -> Statuses \cup {"unknown", None}]]
  BY <1>1, <1>2
<1>4. \A e \in Entities : counted(e) \in [Days -> Total]
  BY <1>1, <1>2, CountedTyping
<1>5. days \in [Entities -> [Days -> Total]]
  BY <1>1, <1>4
<1>6. db' = [db EXCEPT !.samples = samples, !.days = days]
  BY DEF RecordSamples
<1>7. \A e \in Entities, s \in Slots : s > slot => samples[e][s] = None
  BY <1>1, <1>2, DayTyping DEF TypeInv, TypeOK
<1>8. (echo \in [Entities -> Nat])'
  BY DEF RecordSamples, TypeInv, TypeOK
<1> HIDE DEF samples, days
<1>9. (db \in Database)' /\ db'.samples = samples
  BY <1>3, <1>5, <1>6, FieldTyping DEF TypeInv, TypeOK
<1>10. pc' = "prune" /\ UNCHANGED <<slot, task, spoilt, counters>>
  BY DEF RecordSamples
<1>11. \A e \in Entities, s \in Slots : s > slot' => db'.samples[e][s] = None
  BY <1>7, <1>9, <1>10
<1> QED
  BY <1>8, <1>9, <1>10, <1>11 DEF counters, TypeInv, TypeOK, Steps

LEMMA PruneTyping ==
  ASSUME TypeInv, PruneHistory
  PROVE  TypeInv'
<1> DEFINE samples == [e \in Entities |-> [s \in Slots |->
              IF SampleKept(s, slot) THEN db.samples[e][s] ELSE None]]
           days == [e \in Entities |-> [d \in Days |->
              IF DayKept(d, slot) THEN db.days[e][d] ELSE NoTotal]]
<1>1. /\ db.samples \in [Entities -> [Slots -> Statuses \cup {"unknown", None}]]
      /\ db.days \in [Entities -> [Days -> Total]]
  BY DatabaseFields DEF TypeInv, TypeOK
<1>2. samples \in [Entities -> [Slots -> Statuses \cup {"unknown", None}]]
  BY <1>1
<1>3. days \in [Entities -> [Days -> Total]]
  BY <1>1 DEF NoTotal, Total
<1>4. db' = [db EXCEPT !.samples = samples, !.days = days]
  BY DEF PruneHistory
<1>5. \A e \in Entities, s \in Slots : s > slot => samples[e][s] = None
  BY DEF TypeInv, TypeOK
<1> HIDE DEF samples, days
<1>6. (db \in Database)' /\ db'.samples = samples
  BY <1>2, <1>3, <1>4, FieldTyping DEF TypeInv, TypeOK
<1>7. pc' = "forget" /\ UNCHANGED <<slot, task, echo, spoilt, counters>>
  BY DEF PruneHistory, AfterPrune
<1>8. \A e \in Entities, s \in Slots : s > slot' => db'.samples[e][s] = None
  BY <1>5, <1>6, <1>7
<1> QED
  BY <1>6, <1>7, <1>8 DEF counters, TypeInv, TypeOK, Steps

(* A new run has an id that no row has.                                    *)
LEMMA StartRunTyping ==
  ASSUME TypeOK, StartRun
  PROVE  \/ task # None /\ UNCHANGED <<db, task>>
         \/ /\ task = None /\ task' \in RunIds \ db.running
            /\ db' = [db EXCEPT !.running = @ \cup {task'}, !.due = FALSE]
<1>1. CASE Busy
  BY <1>1 DEF Busy, StartRun
<1>2. CASE ~Busy
  <2>1. InUse \subseteq RunIds /\ db.running \subseteq InUse
    BY BackupsAssumption, DatabaseFields DEF InUse, TypeOK
  <2>2. PICK x \in RunIds : x \notin InUse
    BY <1>2, <2>1 DEF StartRun
  <2> DEFINE r == CHOOSE y \in RunIds : y \notin InUse
  <2>3. r \in RunIds /\ r \notin InUse
    BY <2>2
  <2> QED BY <1>2, <2>1, <2>3 DEF StartRun, Busy
<1> QED
  BY <1>1, <1>2

(* The other actions leave the samples alone, or start one entity or all   *)
(* of them over.                                                           *)
LEMMA Retyped ==
  ASSUME TypeInv, (db \in Database)', slot' = slot,
         \A e \in Entities : db'.samples[e] = db.samples[e]
                             \/ \A s \in Slots : db'.samples[e][s] = None,
         (pc \in Steps)', (task \in RunIds \cup {None})', (pc = "down" => task = None)',
         (echo \in [Entities -> Nat])', (spoilt \in BOOLEAN)',
         (faults \in 0..MaxFaults)', (restarts \in 0..MaxRestarts)',
         (restores \in 0..MaxRestores)'
  PROVE  TypeInv'
BY DEF TypeInv, TypeOK

LEMMA RoundTyping ==
  ASSUME TypeInv, Round
  PROVE  TypeInv'
<1>0. db \in Database
  BY DEF TypeInv, TypeOK
<1>1. CASE CheckSlot
  BY <1>1, Retyped DEF CheckSlot, counters, TypeInv, TypeOK, Steps
<1>2. CASE Forget
  <2> DEFINE st == [e \in Entities |-> IF e \in db.fresh THEN db.status[e] ELSE "unknown"]
  <2>1. st \in [Entities -> Statuses \cup {"unknown"}]
    BY <1>0, DatabaseFields
  <2> HIDE DEF st
  <2>2. db' = [db EXCEPT !.status = st]
    BY <1>2 DEF Forget, st
  <2>3. db' \in Database /\ db'.samples = db.samples
    BY <1>0, <2>1, <2>2, FieldTyping
  <2>4. pc' = "speed" /\ UNCHANGED <<slot, task, echo, spoilt, counters>>
    BY <1>2 DEF Forget
  <2> QED BY <2>3, <2>4, Retyped DEF counters, TypeInv, TypeOK, Steps
<1>3. CASE ScheduleRun
  <2>1. \/ UNCHANGED <<db, task>>
        \/ task' \in RunIds
           /\ db' = [db EXCEPT !.running = db.running \cup {task'}, !.due = FALSE]
    BY <1>3, StartRunTyping DEF ScheduleRun, TypeInv
  <2>2. db' \in Database /\ db'.samples = db.samples
    <3>1. CASE UNCHANGED db
      BY <1>0, <3>1
    <3>2. ASSUME NEW r \in RunIds,
                 db' = [db EXCEPT !.running = db.running \cup {r}, !.due = FALSE]
          PROVE  db' \in Database /\ db'.samples = db.samples
      <4>1. db.running \cup {r} \in SUBSET RunIds
        BY <1>0, DatabaseFields
      <4> QED BY <1>0, <3>2, <4>1, FieldTyping
    <3> QED BY <2>1, <3>1, <3>2
  <2>3. pc' = "check" /\ UNCHANGED <<slot, echo, spoilt, counters>>
    BY <1>3 DEF ScheduleRun
  <2> QED BY <2>1, <2>2, <2>3, Retyped DEF counters, TypeInv, TypeOK, Steps
<1> QED
  BY <1>1, <1>2, <1>3, RecordTyping, PruneTyping DEF Round

LEMMA RunTyping ==
  ASSUME TypeInv, RunNow \/ EndRun \/ EndRunFails
  PROVE  TypeInv'
<1>0. db \in Database
  BY DEF TypeInv, TypeOK
<1>1. CASE RunNow
  <2>1. \/ UNCHANGED <<db, task>>
        \/ task' \in RunIds
           /\ db' = [db EXCEPT !.running = db.running \cup {task'}, !.due = FALSE]
    BY <1>1, StartRunTyping DEF RunNow, TypeInv
  <2>2. db' \in Database /\ db'.samples = db.samples
    <3>1. CASE UNCHANGED db
      BY <1>0, <3>1
    <3>2. ASSUME NEW r \in RunIds,
                 db' = [db EXCEPT !.running = db.running \cup {r}, !.due = FALSE]
          PROVE  db' \in Database /\ db'.samples = db.samples
      <4>1. db.running \cup {r} \in SUBSET RunIds
        BY <1>0, DatabaseFields
      <4> QED BY <1>0, <3>2, <4>1, FieldTyping
    <3> QED BY <2>1, <3>1, <3>2
  <2>3. pc # "down" /\ UNCHANGED <<slot, pc, echo, spoilt, counters>>
    BY <1>1 DEF RunNow
  <2> QED BY <2>1, <2>2, <2>3, Retyped DEF counters, TypeInv, TypeOK, Steps
<1>2. CASE EndRun
  <2>1. db' = [db EXCEPT !.running = db.running \ {task}]
    BY <1>2 DEF EndRun
  <2>2. db' \in Database /\ db'.samples = db.samples
    BY <1>0, <2>1, FieldTyping, DatabaseFields
  <2> QED BY <1>2, <2>2, Retyped DEF EndRun, counters, TypeInv, TypeOK
<1>3. CASE EndRunFails
  BY <1>3, Retyped, MaintenanceAssumption DEF EndRunFails, TypeInv, TypeOK
<1> QED
  BY <1>1, <1>2, <1>3

LEMMA RestoreTyping ==
  ASSUME TypeInv, Restore
  PROVE  TypeInv'
<1> PICK old \in Backups : \E fresh \in SUBSET old.fresh : db' = [old EXCEPT !.fresh = fresh]
  BY DEF Restore
<1>1. PICK fresh \in SUBSET old.fresh : db' = [old EXCEPT !.fresh = fresh]
  OBVIOUS
<1>2. /\ old \in Database
      /\ \A e \in Entities, s \in Slots : s > FirstSlot => old.samples[e][s] = None
  BY BackupsAssumption
<1>3. db' \in Database /\ db'.samples = old.samples
  BY <1>1, <1>2 DEF Database
<1>4. /\ slot' = slot /\ slot \in Nat /\ slot >= FirstSlot /\ FirstSlot \in Nat
      /\ Slots \subseteq Nat
  BY MaintenanceAssumption DEF Restore, TypeInv, TypeOK, Slots
<1>5. \A e \in Entities, s \in Slots : s > slot' => db'.samples[e][s] = None
  BY <1>2, <1>3, <1>4
<1>6. /\ restores < MaxRestores /\ restores' = restores + 1 /\ spoilt' = TRUE
      /\ UNCHANGED <<slot, pc, task, echo, faults, restarts>>
  BY DEF Restore
<1> QED
  BY <1>3, <1>4, <1>5, <1>6, MaintenanceAssumption DEF TypeInv, TypeOK

(* What happens to one entity, field by field.                             *)
LEMMA EntityWrites ==
  ASSUME db \in Database, NEW e \in Entities
  PROVE  /\ Lapse(e) => /\ db' = [db EXCEPT !.fresh = db.fresh \ {e}]
                        /\ db'.running = db.running
         /\ \A s \in Statuses : Observe(e, s) =>
              /\ db' = [db EXCEPT !.status = [db.status EXCEPT ![e] = s],
                                  !.fresh = db.fresh \cup {e}]
              /\ db'.status = [db.status EXCEPT ![e] = s]
              /\ db'.fresh = db.fresh \cup {e}
              /\ db'.running = db.running
         /\ Replace(e) =>
              /\ db' = [db EXCEPT !.status = [db.status EXCEPT ![e] = "unknown"],
                                  !.fresh = db.fresh \ {e},
                                  !.samples = [db.samples EXCEPT ![e] = [s \in Slots |-> None]],
                                  !.days = [db.days EXCEPT ![e] = [d \in Days |-> NoTotal]]]
              /\ db'.status = [db.status EXCEPT ![e] = "unknown"]
              /\ db'.fresh = db.fresh \ {e}
              /\ db'.samples = [db.samples EXCEPT ![e] = [s \in Slots |-> None]]
              /\ db'.days = [db.days EXCEPT ![e] = [d \in Days |-> NoTotal]]
              /\ db'.running = db.running
<1>1. ASSUME Lapse(e)
      PROVE  db' = [db EXCEPT !.fresh = db.fresh \ {e}] /\ db'.running = db.running
  BY <1>1 DEF Lapse, Database
<1>2. ASSUME NEW s \in Statuses, Observe(e, s)
      PROVE  /\ db' = [db EXCEPT !.status = [db.status EXCEPT ![e] = s],
                                 !.fresh = db.fresh \cup {e}]
             /\ db'.status = [db.status EXCEPT ![e] = s]
             /\ db'.fresh = db.fresh \cup {e}
             /\ db'.running = db.running
  BY <1>2 DEF Observe, Database
<1>3. ASSUME Replace(e)
      PROVE  /\ db' = [db EXCEPT !.status = [db.status EXCEPT ![e] = "unknown"],
                                 !.fresh = db.fresh \ {e},
                                 !.samples = [db.samples EXCEPT ![e] = [s \in Slots |-> None]],
                                 !.days = [db.days EXCEPT ![e] = [d \in Days |-> NoTotal]]]
             /\ db'.status = [db.status EXCEPT ![e] = "unknown"]
             /\ db'.fresh = db.fresh \ {e}
             /\ db'.samples = [db.samples EXCEPT ![e] = [s \in Slots |-> None]]
             /\ db'.days = [db.days EXCEPT ![e] = [d \in Days |-> NoTotal]]
             /\ db'.running = db.running
  BY <1>3 DEF Replace, Database
<1> QED
  BY <1>1, <1>2, <1>3

LEMMA EntityTyping ==
  ASSUME TypeInv, NEW e \in Entities,
         Lapse(e) \/ Replace(e) \/ \E s \in Statuses : Observe(e, s)
  PROVE  TypeInv'
<1>0. db \in Database
  BY DEF TypeInv, TypeOK
<1>1. CASE Lapse(e)
  <2>1. db' = [db EXCEPT !.fresh = db.fresh \ {e}]
    BY <1>0, <1>1, EntityWrites
  <2>2. db' \in Database /\ db'.samples = db.samples
    BY <1>0, <2>1 DEF Database
  <2> QED BY <1>1, <2>2, Retyped DEF Lapse, counters, TypeInv, TypeOK
<1>2. ASSUME NEW s \in Statuses, Observe(e, s) PROVE TypeInv'
  <2>1. db' = [db EXCEPT !.status = [db.status EXCEPT ![e] = s], !.fresh = db.fresh \cup {e}]
    BY <1>0, <1>2, EntityWrites
  <2>2. [db.status EXCEPT ![e] = s] \in [Entities -> Statuses \cup {"unknown"}]
    BY <1>0, DatabaseFields
  <2>3. db' \in Database /\ db'.samples = db.samples
    BY <1>0, <2>1, <2>2 DEF Database
  <2>4. (echo \in [Entities -> Nat])' /\ UNCHANGED <<slot, pc, task, spoilt, counters>>
    BY <1>2 DEF Observe, TypeInv, TypeOK
  <2> QED BY <2>3, <2>4, Retyped DEF counters, TypeInv, TypeOK
<1>3. CASE Replace(e)
  <2> DEFINE blank == [s \in Slots |-> None]
             zero == [d \in Days |-> NoTotal]
  <2>1. db' = [db EXCEPT !.status = [db.status EXCEPT ![e] = "unknown"],
                         !.fresh = db.fresh \ {e},
                         !.samples = [db.samples EXCEPT ![e] = blank],
                         !.days = [db.days EXCEPT ![e] = zero]]
    BY <1>0, <1>3, EntityWrites
  <2>2. /\ blank \in [Slots -> Statuses \cup {"unknown", None}]
        /\ zero \in [Days -> Total]
        /\ \A s \in Slots : blank[s] = None
    BY DEF NoTotal, Total
  <2> HIDE DEF blank, zero
  <2>3. /\ [db.status EXCEPT ![e] = "unknown"] \in [Entities -> Statuses \cup {"unknown"}]
        /\ [db.samples EXCEPT ![e] = blank]
             \in [Entities -> [Slots -> Statuses \cup {"unknown", None}]]
        /\ [db.days EXCEPT ![e] = zero] \in [Entities -> [Days -> Total]]
    BY <1>0, <2>2, DatabaseFields
  <2>4. db' \in Database /\ db'.samples = [db.samples EXCEPT ![e] = blank]
    BY <1>0, <2>1, <2>3 DEF Database
  <2>5. \A x \in Entities : db'.samples[x] = db.samples[x]
                            \/ \A s \in Slots : db'.samples[x][s] = None
    BY <1>0, <2>2, <2>4, DatabaseFields
  <2>6. (echo \in [Entities -> Nat])' /\ UNCHANGED <<slot, pc, task, spoilt, counters>>
    BY <1>3 DEF Replace, TypeInv, TypeOK
  <2> QED BY <2>4, <2>5, <2>6, Retyped DEF counters, TypeInv, TypeOK
<1> QED
  BY <1>1, <1>2, <1>3

LEMMA OtherTyping ==
  ASSUME TypeInv,
         RoundFails \/ (\E on \in BOOLEAN : Enable(on)) \/ IntervalPasses \/ Tick
           \/ Stop \/ Start \/ UNCHANGED vars
  PROVE  TypeInv'
<1>0. db \in Database
  BY DEF TypeInv, TypeOK
<1>1. CASE RoundFails
  BY <1>1, Retyped, MaintenanceAssumption DEF RoundFails, TypeInv, TypeOK, Steps
<1>2. ASSUME NEW on \in BOOLEAN, Enable(on) \/ IntervalPasses PROVE TypeInv'
  <2>1. db' = [db EXCEPT !.enabled = on] \/ db' = [db EXCEPT !.due = TRUE]
    BY <1>2 DEF Enable, IntervalPasses
  <2>2. db' \in Database /\ db'.samples = db.samples
    BY <1>0, <2>1, FieldTyping, DatabaseFields
  <2> QED BY <1>2, <2>2, Retyped DEF Enable, IntervalPasses, counters, TypeInv, TypeOK
<1>3. CASE Tick
  <2>1. /\ slot' = slot + 1 /\ slot < MaxSlot /\ slot \in Slots /\ slot >= FirstSlot
        /\ Slots \subseteq Nat
    BY <1>3 DEF Tick, TypeInv, TypeOK, Slots
  <2>2. slot' \in Slots /\ slot' >= FirstSlot
    BY <2>1, MaintenanceAssumption DEF Slots
  <2>3. \A e \in Entities, s \in Slots : s > slot' => db.samples[e][s] = None
    BY <2>1 DEF TypeInv, TypeOK
  <2> QED BY <1>3, <2>2, <2>3 DEF Tick, counters, TypeInv, TypeOK
<1>4. CASE Stop
  BY <1>4, Retyped, MaintenanceAssumption DEF Stop, TypeInv, TypeOK, Steps
<1>5. CASE Start
  <2>1. db' = [db EXCEPT !.running = {}]
    BY <1>5 DEF Start, Recovered
  <2>2. db' \in Database /\ db'.samples = db.samples
    BY <1>0, <2>1, FieldTyping, DatabaseFields
  <2> QED BY <1>5, <2>2, Retyped DEF Start, counters, TypeInv, TypeOK, Steps
<1>6. CASE UNCHANGED vars
  BY <1>6 DEF vars, counters, TypeInv, TypeOK
<1> QED
  BY <1>1, <1>2, <1>3, <1>4, <1>5, <1>6

LEMMA TypeStep == TypeInv /\ [Next]_vars => TypeInv'
BY RoundTyping, RunTyping, RestoreTyping, EntityTyping, OtherTyping DEF Next

(* Every variable keeps its type and no sample lies ahead of the clock.    *)
THEOREM TypeCorrect == Spec => []TypeOK
<1>1. TypeInv => TypeOK
  BY DEF TypeInv
<1> QED
  BY <1>1, TypeInit, TypeStep, PTL DEF Spec

THEOREM TypesHold == Spec => []TypeInv
BY TypeInit, TypeStep, PTL DEF Spec

-----------------------------------------------------------------------------
(***************************************************************************)
(* The row that says "running" and the task that holds the lock.           *)
(***************************************************************************)
LEMMA RunningFields ==
  ASSUME db \in Database
  PROVE  /\ \A rs : [db EXCEPT !.running = rs].running = rs
         /\ \A rs : [db EXCEPT !.running = rs, !.due = FALSE].running = rs
         /\ \A x, y : [db EXCEPT !.samples = x, !.days = y].running = db.running
         /\ \A x, y : [db EXCEPT !.status = x, !.fresh = y].running = db.running
         /\ \A x, y, u, v : [db EXCEPT !.status = x, !.fresh = y, !.samples = u,
                                       !.days = v].running = db.running
         /\ \A x : /\ [db EXCEPT !.status = x].running = db.running
                   /\ [db EXCEPT !.fresh = x].running = db.running
                   /\ [db EXCEPT !.due = x].running = db.running
                   /\ [db EXCEPT !.enabled = x].running = db.running
BY DEF Database

LEMMA RunningStep ==
  ASSUME TypeInv, RunningIsTheTask, [Next]_vars
  PROVE  RunningIsTheTask'
<1>0. db \in Database
  BY DEF TypeInv, TypeOK
<1>1. ASSUME UNCHANGED <<task, spoilt>>, pc' # "down" => pc # "down", db'.running = db.running
      PROVE  RunningIsTheTask'
  BY <1>1 DEF RunningIsTheTask
<1>2. ASSUME StartRun, UNCHANGED spoilt, pc # "down" PROVE RunningIsTheTask'
  <2>1. CASE UNCHANGED <<db, task>>
    BY <1>2, <2>1 DEF RunningIsTheTask
  <2>2. ASSUME task = None, task' \in RunIds,
               db' = [db EXCEPT !.running = db.running \cup {task'}, !.due = FALSE]
        PROVE  RunningIsTheTask'
    <3>1. db'.running = db.running \cup {task'}
      BY <1>0, <2>2, RunningFields
    <3>2. task' # None
      BY <2>2, MaintenanceAssumption
    <3> QED BY <1>2, <2>2, <3>1, <3>2 DEF RunningIsTheTask
  <2> QED BY <1>2, <2>1, <2>2, StartRunTyping DEF TypeInv
<1>3. CASE Round
  <2>1. CASE CheckSlot
    BY <1>1, <2>1 DEF CheckSlot
  <2>2. CASE RecordSamples
    <3>1. db'.running = db.running
      BY <1>0, <2>2, RunningFields DEF RecordSamples
    <3>2. UNCHANGED <<task, spoilt>> /\ pc # "down"
      BY <2>2 DEF RecordSamples
    <3> QED BY <1>1, <3>1, <3>2
  <2>3. CASE PruneHistory
    <3>1. db'.running = db.running
      BY <1>0, <2>3, RunningFields DEF PruneHistory
    <3> QED BY <1>1, <2>3, <3>1 DEF PruneHistory
  <2>4. CASE Forget
    <3>1. db'.running = db.running
      BY <1>0, <2>4, RunningFields DEF Forget
    <3> QED BY <1>1, <2>4, <3>1 DEF Forget
  <2>5. CASE ScheduleRun
    <3>1. CASE StartRun
      BY <1>2, <2>5, <3>1 DEF ScheduleRun
    <3>2. CASE UNCHANGED <<db, task>>
      BY <1>1, <2>5, <3>2 DEF ScheduleRun
    <3> QED BY <2>5, <3>1, <3>2 DEF ScheduleRun
  <2> QED BY <1>3, <2>1, <2>2, <2>3, <2>4, <2>5 DEF Round
<1>4. CASE RunNow
  BY <1>2, <1>4 DEF RunNow
<1>5. CASE EndRun
  <2>1. db'.running = db.running \ {task}
    BY <1>0, <1>5, RunningFields DEF EndRun
  <2> QED BY <1>5, <2>1 DEF EndRun, RunningIsTheTask
<1>6. CASE EndRunFails \/ Restore
  BY <1>6 DEF EndRunFails, Restore, RunningIsTheTask
<1>7. CASE Start
  <2>1. db'.running = {}
    BY <1>0, <1>7, RunningFields DEF Start, Recovered
  <2> QED BY <1>7, <2>1 DEF Start, RunningIsTheTask, TypeInv, TypeOK
<1>8. CASE Stop
  BY <1>8 DEF Stop, RunningIsTheTask
<1>9. CASE RoundFails
  BY <1>1, <1>9 DEF RoundFails
<1>10. ASSUME NEW e \in Entities,
              Lapse(e) \/ Replace(e) \/ (\E s \in Statuses : Observe(e, s))
       PROVE  RunningIsTheTask'
  <2>1. db'.running = db.running
    <3>1. Lapse(e) => db'.running = db.running
      BY <1>0, EntityWrites
    <3>2. \A s \in Statuses : Observe(e, s) => db'.running = db.running
      BY <1>0, EntityWrites
    <3>3. Replace(e) => db'.running = db.running
      BY <1>0, EntityWrites
    <3> QED BY <1>10, <3>1, <3>2, <3>3
  <2>2. UNCHANGED <<pc, task, spoilt>>
    BY <1>10 DEF Lapse, Replace, Observe
  <2> QED BY <1>1, <2>1, <2>2
<1>11. ASSUME \/ IntervalPasses \/ Tick \/ UNCHANGED vars
              \/ \E on \in BOOLEAN : Enable(on)
       PROVE  RunningIsTheTask'
  <2>1. db'.running = db.running
    <3>1. IntervalPasses \/ (\E on \in BOOLEAN : Enable(on)) => db'.running = db.running
      BY <1>0, RunningFields DEF IntervalPasses, Enable
    <3>2. Tick \/ UNCHANGED vars => db' = db
      BY DEF Tick, vars
    <3> QED BY <1>11, <3>1, <3>2
  <2>2. UNCHANGED <<pc, task, spoilt>>
    BY <1>11 DEF IntervalPasses, Tick, Enable, vars
  <2> QED BY <1>1, <2>1, <2>2
<1> QED
  BY <1>3, <1>4, <1>5, <1>6, <1>7, <1>8, <1>9, <1>10, <1>11 DEF Next

(* As long as no result was lost and no backup came back since the start,  *)
(* the one row that says "running" is the test that runs.                  *)
THEOREM RunningIsAlwaysTheTask == Spec => []RunningIsTheTask
<1>1. Init => RunningIsTheTask
  BY DEF Init, RunningIsTheTask
<1>2. TypeInv /\ RunningIsTheTask /\ [Next]_vars => RunningIsTheTask'
  BY RunningStep
<1> QED
  BY <1>1, <1>2, TypesHold, PTL DEF Spec

-----------------------------------------------------------------------------
(***************************************************************************)
(* How often a status is sampled after its last confirmation lapsed.  The  *)
(* strengthening says where the one sample may be: only between the record *)
(* step and the forget step that follows it in the same round.  A round    *)
(* that is cut short, a restart and a restore pay for one more.            *)
(***************************************************************************)
Interruptions == faults + restarts + restores

SampledOnce ==
  \A e \in Entities :
    /\ echo[e] <= 1 + Interruptions
    /\ e \in db.fresh => echo[e] <= Interruptions
    /\ db.status[e] # "unknown" /\ pc \notin {"prune", "forget"} => echo[e] <= Interruptions

LEMMA SampledOnceInit == Init => SampledOnce
BY DEF Init, SampledOnce, Interruptions

(* Nothing is sampled, and no status or observation comes to life.         *)
LEMMA NothingSampled ==
  ASSUME TypeInv, SampledOnce, UNCHANGED <<echo, counters>>,
         pc' = pc \/ pc \notin {"prune", "forget"} \/ pc' = "forget",
         db'.fresh \subseteq db.fresh, db'.status = db.status
  PROVE  SampledOnce'
BY DEF SampledOnce, Interruptions, counters

(* One interruption more makes room for one sample more.                   *)
LEMMA Interrupted ==
  ASSUME TypeInv, SampledOnce, UNCHANGED echo, Interruptions' = Interruptions + 1
  PROVE  SampledOnce'
<1>1. Interruptions \in Nat /\ \A e \in Entities : echo[e] \in Nat
  BY MaintenanceAssumption DEF TypeInv, TypeOK, Interruptions
<1> QED
  BY <1>1 DEF SampledOnce

LEMMA SampledOnceRecord ==
  ASSUME TypeInv, SampledOnce, RecordSamples
  PROVE  SampledOnce'
<1>1. Interruptions \in Nat /\ \A e \in Entities : echo[e] \in Nat
  BY MaintenanceAssumption DEF TypeInv, TypeOK, Interruptions
<1>2. pc = "record" /\ pc' = "prune" /\ Interruptions' = Interruptions
  BY DEF RecordSamples, counters, Interruptions
<1>3. db \in Database
  BY DEF TypeInv, TypeOK
<1>4. db'.fresh = db.fresh
  BY <1>3 DEF RecordSamples, Database
<1>5. \A e \in Entities :
        \/ echo'[e] = echo[e]
        \/ echo'[e] = echo[e] + 1 /\ db.status[e] # "unknown" /\ e \notin db.fresh
  BY DEF RecordSamples
<1> QED
  BY <1>1, <1>2, <1>4, <1>5 DEF SampledOnce

(* An entity whose echo starts over has no sample to account for.          *)
LEMMA SampledOnceAnew ==
  ASSUME TypeInv, SampledOnce, NEW e \in Entities,
         Lapse(e) \/ Replace(e) \/ \E s \in Statuses : Observe(e, s)
  PROVE  SampledOnce'
<1>0. /\ db \in Database /\ Interruptions \in Nat
      /\ db.status \in [Entities -> Statuses \cup {"unknown"}]
  BY MaintenanceAssumption, DatabaseFields DEF TypeInv, TypeOK, Interruptions
<1>1. CASE Lapse(e)
  BY <1>0, <1>1, NothingSampled DEF Lapse, Database
<1>2. ASSUME Replace(e) \/ \E s \in Statuses : Observe(e, s)
      PROVE  SampledOnce'
  <2>1. echo' = [echo EXCEPT ![e] = 0] /\ pc' = pc /\ Interruptions' = Interruptions
    BY <1>2 DEF Replace, Observe, counters, Interruptions
  <2>2. \A x \in Entities : x # e =>
          db'.status[x] = db.status[x] /\ (x \in db'.fresh => x \in db.fresh)
    <3>1. \E st, f : /\ db'.status = [db.status EXCEPT ![e] = st]
                     /\ db'.fresh = f /\ f \in {db.fresh \ {e}, db.fresh \cup {e}}
      <4>1. Replace(e) => /\ db'.status = [db.status EXCEPT ![e] = "unknown"]
                          /\ db'.fresh = db.fresh \ {e}
        BY <1>0, EntityWrites
      <4>2. \A s \in Statuses : Observe(e, s) =>
              /\ db'.status = [db.status EXCEPT ![e] = s]
              /\ db'.fresh = db.fresh \cup {e}
        BY <1>0, EntityWrites
      <4> QED BY <1>2, <4>1, <4>2
    <3> QED BY <1>0, <3>1
  <2> QED BY <1>0, <2>1, <2>2 DEF SampledOnce, TypeInv, TypeOK
<1> QED
  BY <1>1, <1>2

LEMMA SampledOnceStep ==
  ASSUME TypeInv, SampledOnce, [Next]_vars
  PROVE  SampledOnce'
<1>0. /\ db \in Database
      /\ faults \in Nat /\ restarts \in Nat /\ restores \in Nat
      /\ db.status \in [Entities -> Statuses \cup {"unknown"}]
  BY MaintenanceAssumption, DatabaseFields DEF TypeInv, TypeOK
<1>1. CASE CheckSlot
  BY <1>1, NothingSampled DEF CheckSlot, counters
<1>2. CASE PruneHistory
  BY <1>0, <1>2, NothingSampled DEF PruneHistory, AfterPrune, Database
<1>3. CASE Forget
  <2>1. db'.fresh = db.fresh /\ \A e \in Entities :
          db'.status[e] # "unknown" => e \in db.fresh
    BY <1>0, <1>3 DEF Forget, Database
  <2>2. UNCHANGED <<echo, Interruptions>>
    BY <1>3 DEF Forget, counters, Interruptions
  <2> QED BY <2>1, <2>2 DEF SampledOnce
<1>4. ASSUME StartRun \/ UNCHANGED <<db, task>> PROVE UNCHANGED <<db.fresh, db.status>>
  BY <1>0, <1>4, StartRunTyping DEF TypeInv, Database
<1>5. CASE ScheduleRun \/ RunNow
  BY <1>4, <1>5, NothingSampled DEF ScheduleRun, RunNow
<1>6. CASE EndRun \/ IntervalPasses \/ Tick \/ \E on \in BOOLEAN : Enable(on)
  <2>1. UNCHANGED <<db.fresh, db.status>>
    BY <1>0, <1>6 DEF EndRun, IntervalPasses, Tick, Enable, Database
  <2>2. UNCHANGED <<pc, echo, counters>>
    BY <1>6 DEF EndRun, IntervalPasses, Tick, Enable
  <2> QED BY <2>1, <2>2, NothingSampled
<1>7. CASE Start
  BY <1>0, <1>7, NothingSampled DEF Start, Database
<1>8. CASE RoundFails \/ EndRunFails \/ Restore \/ Stop
  <2>1. Interruptions' = Interruptions + 1
    BY <1>0, <1>8 DEF RoundFails, EndRunFails, Restore, Stop, Interruptions
  <2> QED BY <1>8, <2>1, Interrupted DEF RoundFails, EndRunFails, Restore, Stop
<1>9. CASE UNCHANGED vars
  BY <1>9, NothingSampled DEF vars
<1> QED
  BY <1>1, <1>2, <1>3, <1>5, <1>6, <1>7, <1>8, <1>9, SampledOnceRecord, SampledOnceAnew
  DEF Next, Round

(* A status that nobody confirms any more enters the history once at most, *)
(* and once more for each interruption of a round.                         *)
THEOREM StaleStatusesAreSampledOnce == Spec => []StaleStatusIsSampledOnce
<1>1. TypeInv /\ SampledOnce /\ [Next]_vars => SampledOnce'
  BY SampledOnceStep
<1>2. TypeInv /\ SampledOnce => StaleStatusIsSampledOnce
  <2> SUFFICES ASSUME TypeInv, SampledOnce, NEW e \in Entities
               PROVE  echo[e] <= 1 + faults + restarts + restores
    BY DEF StaleStatusIsSampledOnce
  <2>1. faults \in Nat /\ restarts \in Nat /\ restores \in Nat /\ echo[e] \in Nat
    BY MaintenanceAssumption DEF TypeInv, TypeOK
  <2> QED BY <2>1 DEF SampledOnce, Interruptions
<1> QED
  BY <1>1, <1>2, SampledOnceInit, TypesHold, PTL DEF Spec

-----------------------------------------------------------------------------
(***************************************************************************)
(* The totals of the days.  A day is proved about one entity at a time:    *)
(* its history of samples, and the row of the day.                         *)
(***************************************************************************)
Earlier(history, s) == {t \in Slots : t < s /\ history[t] # None}

(* A set of slots has a last one: of the sets of slots from one of them    *)
(* on, a smallest exists.                                                  *)
LEMMA LastSlot ==
  ASSUME NEW E \in SUBSET Slots, E # {}
  PROVE  \E t \in E : \A o \in E : o <= t
<1> DEFINE From(t) == {o \in Slots : o >= t}
           Smaller == StrictSubsetOrdering(Slots)
           Finite == FiniteSubsetsOf(Slots)
           Tails == {From(t) : t \in E}
<1>1. IsWellFoundedOn(Smaller, Finite)
  BY FS_StrictSubsetOrderingWellFounded
<1>2. IsFiniteSet(Slots)
  BY FS_Interval, MaintenanceAssumption DEF Slots
<1>3. \A t : From(t) \in SUBSET Slots /\ IsFiniteSet(From(t))
  BY <1>2, FS_Subset
<1>4. Tails \subseteq Finite /\ Tails # {}
  BY <1>3 DEF FiniteSubsetsOf
<1>5. \E x \in Tails : \A y \in Tails : <<y, x>> \notin Smaller
  <2> HIDE DEF Tails, Finite, Smaller
  <2> QED BY <1>1, <1>4, WFMin
<1>6. PICK t \in E : \A o \in E : <<From(o), From(t)>> \notin Smaller
  BY <1>5
<1>7. ASSUME NEW o \in E, ~(o <= t) PROVE FALSE
  <2>1. t \in From(t) /\ t \notin From(o) /\ From(o) \subseteq From(t)
    BY <1>7, MaintenanceAssumption DEF Slots
  <2>2. <<From(o), From(t)>> \in Smaller
    BY <2>1, <1>3 DEF StrictSubsetOrdering
  <2> QED BY <1>6, <2>2
<1> QED
  BY <1>7

(* Previous is None when there is no earlier sample, and else the last one.*)
LEMMA PreviousIsLast ==
  ASSUME NEW history, NEW s
  PROVE  /\ Earlier(history, s) = {} => Previous(history, s) = None
         /\ \A p \in Earlier(history, s) :
              (\A o \in Earlier(history, s) : o <= p) => Previous(history, s) = history[p]
         /\ Earlier(history, s) # {} =>
              \E p \in Earlier(history, s) : \A o \in Earlier(history, s) : o <= p
<1> DEFINE E == Earlier(history, s)
           last == CHOOSE t \in E : \A o \in E : o <= t
<1>1. E \in SUBSET Slots
  BY DEF Earlier
<1>2. E = {} => Previous(history, s) = None
  BY DEF Previous, Earlier
<1>3. E # {} => Previous(history, s) = history[last]
  BY DEF Previous, Earlier
<1>4. E # {} => \E p \in E : \A o \in E : o <= p
  BY <1>1, LastSlot
<1>5. ASSUME NEW p \in E, \A o \in E : o <= p PROVE Previous(history, s) = history[p]
  <2>1. last \in E /\ \A o \in E : o <= last
    BY <1>5
  <2>2. last <= p /\ p <= last /\ last \in Nat /\ p \in Nat
    BY <1>1, <1>5, <2>1, DayTyping
  <2> QED BY <1>3, <1>5, <2>2
<1> QED
  BY <1>2, <1>4, <1>5

LEMMA PreviousNone ==
  ASSUME NEW history, NEW s
  PROVE  Previous(history, s) = None <=> Earlier(history, s) = {}
BY PreviousIsLast DEF Earlier

(* The previous sample is looked for among the earlier ones only.          *)
LEMMA SamePrevious ==
  ASSUME NEW g, NEW h, NEW s, \A t \in Slots : t < s => g[t] = h[t]
  PROVE  Previous(g, s) = Previous(h, s)
<1>1. Earlier(g, s) = Earlier(h, s)
  BY DEF Earlier
<1>2. CASE Earlier(h, s) = {}
  BY <1>1, <1>2, PreviousIsLast
<1>3. CASE Earlier(h, s) # {}
  <2>1. PICK p \in Earlier(h, s) : \A o \in Earlier(h, s) : o <= p
    BY <1>3, PreviousIsLast
  <2>2. Previous(g, s) = g[p] /\ Previous(h, s) = h[p]
    BY <1>1, <2>1, PreviousIsLast
  <2> QED BY <2>2 DEF Earlier
<1> QED
  BY <1>2, <1>3

(* The parts of DayAgrees by name.                                         *)
Mine(h, d) == {s \in Slots : Day(s) = d /\ h[s] # None}
Ups(h, d) == {s \in Mine(h, d) : h[s] = "up"}
Changes(h, d) == {s \in Mine(h, d) : Previous(h, s) \notin {None, h[s]}}
Orphan(h, d, now) == now > SampleLife /\ \E s \in Mine(h, d) : Previous(h, s) = None

LEMMA DayParts ==
  ASSUME NEW h, NEW row, NEW d, NEW now
  PROVE  /\ DayAgrees(h, row, d, now) <=>
              /\ row.total = Cardinality(Mine(h, d))
              /\ row.up = Cardinality(Ups(h, d))
              /\ row.flips \in Cardinality(Changes(h, d))..
                                 (Cardinality(Changes(h, d)) + One(Orphan(h, d, now)))
         /\ IsFiniteSet(Mine(h, d)) /\ IsFiniteSet(Ups(h, d)) /\ IsFiniteSet(Changes(h, d))
         /\ Cardinality(Changes(h, d)) \in Nat
<1>1. IsFiniteSet(Slots)
  BY FS_Interval, MaintenanceAssumption DEF Slots
<1>2. /\ Mine(h, d) \in SUBSET Slots
      /\ Ups(h, d) \in SUBSET Slots
      /\ Changes(h, d) \in SUBSET Slots
  BY DEF Mine, Ups, Changes
<1>3. IsFiniteSet(Mine(h, d)) /\ IsFiniteSet(Ups(h, d)) /\ IsFiniteSet(Changes(h, d))
  BY <1>1, <1>2, FS_Subset
<1>4. Cardinality(Changes(h, d)) \in Nat
  BY <1>3, FS_CardinalityType
<1>5. DayAgrees(h, row, d, now) <=>
        /\ row.total = Cardinality(Mine(h, d))
        /\ row.up = Cardinality(Ups(h, d))
        /\ row.flips \in Cardinality(Changes(h, d))..
                           (Cardinality(Changes(h, d)) + One(Orphan(h, d, now)))
  BY DEF DayAgrees, Mine, Ups, Changes, Orphan
<1> QED
  BY <1>3, <1>4, <1>5

(* While a day is whole, all its samples are kept.                         *)
LEMMA WholeKept ==
  ASSUME NEW d \in Days, NEW now \in Slots, Whole(d, now), NEW s \in Slots, Day(s) = d
  PROVE  SampleKept(s, now)
<1>1. d \in Nat /\ s \in Nat /\ now \in Nat /\ SampleLife \in Nat /\ PerDay \in Nat
  BY DayTyping, MaintenanceAssumption
<1>2. d * PerDay <= s
  BY <1>1, DayBounds
<1>3. d * PerDay \in Nat
  BY <1>1
<1>4. d * PerDay + SampleLife >= now
  BY DEF Whole, SampleKept
<1>5. s + SampleLife >= now
  <2> DEFINE first == d * PerDay
  <2>1. first <= s /\ first \in Nat /\ first + SampleLife >= now
    BY <1>2, <1>3, <1>4
  <2> HIDE DEF first
  <2> QED BY <1>1, <2>1
<1> QED
  BY <1>5 DEF SampleKept

(* Time only makes fewer days whole and more changes count on top.         *)
LEMMA LaterAgrees ==
  ASSUME NEW h, NEW row, NEW d \in Days, NEW a \in Slots, NEW b \in Slots, a <= b,
         Whole(d, b)
  PROVE  Whole(d, a) /\ (DayAgrees(h, row, d, a) => DayAgrees(h, row, d, b))
<1>1. a \in Nat /\ b \in Nat /\ d \in Nat /\ SampleLife \in Nat /\ DayLife \in Nat
  BY DayTyping, MaintenanceAssumption
<1>2. Day(a) \in Nat /\ Day(b) \in Nat /\ Day(a) <= Day(b)
  BY <1>1, DayBounds, DayMonotone
<1>3. d * PerDay \in Nat
  BY <1>1, MaintenanceAssumption
<1>4. Whole(d, a)
  <2> DEFINE first == d * PerDay
  <2>1. first \in Nat /\ first + SampleLife >= b /\ d + DayLife >= Day(b)
    BY <1>3 DEF Whole, SampleKept, DayKept
  <2> HIDE DEF first
  <2>2. first + SampleLife >= a /\ d + DayLife >= Day(a)
    BY <1>1, <1>2, <2>1
  <2> QED BY <2>2 DEF Whole, SampleKept, DayKept, first
<1>5. Orphan(h, d, a) => Orphan(h, d, b)
  BY <1>1 DEF Orphan
<1>6. One(Orphan(h, d, a)) \in {0, 1} /\ One(Orphan(h, d, b)) \in {0, 1}
      /\ One(Orphan(h, d, a)) <= One(Orphan(h, d, b))
  BY <1>5 DEF One
<1>7. DayAgrees(h, row, d, a) => DayAgrees(h, row, d, b)
  BY <1>6, DayParts
<1> QED
  BY <1>4, <1>7

(* A new sample, after all the others, adds to its own day and leaves the  *)
(* other days alone.                                                       *)
LEMMA SampleAdds ==
  ASSUME NEW h \in [Slots -> Statuses \cup {"unknown", None}], NEW s \in Slots,
         NEW st \in Statuses \cup {"unknown"},
         h[s] = None, \A t \in Slots : t > s => h[t] = None,
         NEW d
  PROVE  LET g == [h EXCEPT ![s] = st]
         IN  /\ Mine(g, d) = Mine(h, d) \cup {x \in {s} : Day(s) = d}
             /\ Ups(g, d) = Ups(h, d) \cup {x \in {s} : Day(s) = d /\ st = "up"}
             /\ Changes(g, d) = Changes(h, d)
                  \cup {x \in {s} : Day(s) = d /\ Previous(h, s) \notin {None, st}}
             /\ \A now : Orphan(h, d, now) => Orphan(g, d, now)
             /\ s \notin Mine(h, d)
<1> DEFINE g == [h EXCEPT ![s] = st]
<1>1. st # None
  BY MaintenanceAssumption
<1>2. g[s] = st /\ \A t \in Slots : t # s => g[t] = h[t]
  OBVIOUS
<1>3. \A t \in Slots : h[t] # None => t < s
  BY DayTyping
<1> HIDE DEF g
<1>4. \A t \in Slots : t <= s => Previous(g, t) = Previous(h, t)
  <2> SUFFICES ASSUME NEW t \in Slots, t <= s PROVE Previous(g, t) = Previous(h, t)
    OBVIOUS
  <2>1. \A o \in Slots : o < t => g[o] = h[o]
    BY <1>2, DayTyping
  <2> QED BY <2>1, SamePrevious
<1>5. Mine(g, d) = Mine(h, d) \cup {x \in {s} : Day(s) = d}
  BY <1>1, <1>2 DEF Mine
<1>6. \A t \in Mine(h, d) : t \in Slots /\ t # s /\ t <= s
  BY <1>3, DayTyping DEF Mine
<1>7. Ups(g, d) = Ups(h, d) \cup {x \in {s} : Day(s) = d /\ st = "up"}
  BY <1>2, <1>5, <1>6 DEF Ups
<1>8. s <= s
  BY DayTyping
<1>9. \A t \in Mine(h, d) : g[t] = h[t] /\ Previous(g, t) = Previous(h, t)
  BY <1>2, <1>4, <1>6
<1>10. Changes(g, d) = Changes(h, d)
         \cup {x \in {s} : Day(s) = d /\ Previous(h, s) \notin {None, st}}
  BY <1>2, <1>4, <1>5, <1>8, <1>9 DEF Changes
<1>11. \A now : Orphan(h, d, now) => Orphan(g, d, now)
  BY <1>5, <1>9 DEF Orphan
<1> QED
  BY <1>5, <1>6, <1>7, <1>10, <1>11 DEF g

(* A set that may gain one element.                                        *)
LEMMA OneMore ==
  ASSUME NEW S, IsFiniteSet(S), NEW x, x \notin S, NEW T, NEW n,
         \/ T = S \cup {x} /\ n = 1
         \/ T = S /\ n = 0
  PROVE  Cardinality(T) = Cardinality(S) + n
BY FS_CardinalityType, FS_AddElement

(* What the loop counts is what a new sample adds.                         *)
LEMMA RecordAgrees ==
  ASSUME TypeInv, NEW e \in Entities, db.samples[e][slot] = None,
         NEW d \in Days, NEW row \in Total, DayAgrees(db.samples[e], row, d, slot)
  PROVE  DayAgrees([db.samples[e] EXCEPT ![slot] = db.status[e]],
                   IF d = Day(slot) THEN Counted(e, slot, row) ELSE row, d, slot)
<1> DEFINE h == db.samples[e]
           st == db.status[e]
           g == [h EXCEPT ![slot] = st]
           new == IF d = Day(slot) THEN Counted(e, slot, row) ELSE row
<1>1. /\ h \in [Slots -> Statuses \cup {"unknown", None}]
      /\ slot \in Slots /\ st \in Statuses \cup {"unknown"}
      /\ h[slot] = None /\ \A t \in Slots : t > slot => h[t] = None
  BY DatabaseFields DEF TypeInv, TypeOK
<1>2. /\ Mine(g, d) = Mine(h, d) \cup {x \in {slot} : Day(slot) = d}
      /\ Ups(g, d) = Ups(h, d) \cup {x \in {slot} : Day(slot) = d /\ st = "up"}
      /\ Changes(g, d) = Changes(h, d)
           \cup {x \in {slot} : Day(slot) = d /\ Previous(h, slot) \notin {None, st}}
      /\ \A now : Orphan(h, d, now) => Orphan(g, d, now)
      /\ slot \notin Mine(h, d)
  <2> HIDE DEF h, st
  <2> QED BY <1>1, SampleAdds
<1>3. Flipped(e, slot) <=> Previous(h, slot) \notin {None, st}
  BY DEF Flipped
<1>4. /\ new.total = row.total + One(Day(slot) = d)
      /\ new.up = row.up + One(Day(slot) = d /\ st = "up")
      /\ new.flips = row.flips + One(Day(slot) = d /\ Previous(h, slot) \notin {None, st})
      /\ row.total \in Nat /\ row.up \in Nat /\ row.flips \in Nat
  <2>1. row.total \in Nat /\ row.up \in Nat /\ row.flips \in Nat
    BY DEF Total
  <2> QED BY <1>3, <2>1 DEF Counted, One
<1>5. /\ IsFiniteSet(Mine(h, d)) /\ IsFiniteSet(Ups(h, d)) /\ IsFiniteSet(Changes(h, d))
      /\ row.total = Cardinality(Mine(h, d)) /\ row.up = Cardinality(Ups(h, d))
      /\ row.flips \in Cardinality(Changes(h, d))..
                         (Cardinality(Changes(h, d)) + One(Orphan(h, d, slot)))
      /\ Cardinality(Changes(h, d)) \in Nat
  BY DayParts
<1> HIDE DEF h, st, g, new
<1>7. slot \notin Mine(h, d) /\ slot \notin Ups(h, d) /\ slot \notin Changes(h, d)
  BY <1>2 DEF Ups, Changes
<1>8. /\ Cardinality(Mine(g, d)) = row.total + One(Day(slot) = d)
      /\ Cardinality(Ups(g, d)) = row.up + One(Day(slot) = d /\ st = "up")
      /\ Cardinality(Changes(g, d)) = Cardinality(Changes(h, d))
           + One(Day(slot) = d /\ Previous(h, slot) \notin {None, st})
  <2> DEFINE here == One(Day(slot) = d)
             up == One(Day(slot) = d /\ st = "up")
             change == One(Day(slot) = d /\ Previous(h, slot) \notin {None, st})
  <2>1. \/ Mine(g, d) = Mine(h, d) \cup {slot} /\ here = 1
        \/ Mine(g, d) = Mine(h, d) /\ here = 0
    BY <1>2 DEF One
  <2>2. \/ Ups(g, d) = Ups(h, d) \cup {slot} /\ up = 1
        \/ Ups(g, d) = Ups(h, d) /\ up = 0
    BY <1>2 DEF One
  <2>3. \/ Changes(g, d) = Changes(h, d) \cup {slot} /\ change = 1
        \/ Changes(g, d) = Changes(h, d) /\ change = 0
    BY <1>2 DEF One
  <2> HIDE DEF here, up, change
  <2>4. Cardinality(Mine(g, d)) = Cardinality(Mine(h, d)) + here
    BY <1>5, <1>7, <2>1, OneMore
  <2>5. Cardinality(Ups(g, d)) = Cardinality(Ups(h, d)) + up
    BY <1>5, <1>7, <2>2, OneMore
  <2>6. Cardinality(Changes(g, d)) = Cardinality(Changes(h, d)) + change
    BY <1>5, <1>7, <2>3, OneMore
  <2> QED BY <1>5, <2>4, <2>5, <2>6 DEF here, up, change
<1>9. /\ One(Orphan(h, d, slot)) \in {0, 1} /\ One(Orphan(g, d, slot)) \in {0, 1}
      /\ One(Orphan(h, d, slot)) <= One(Orphan(g, d, slot))
      /\ One(Day(slot) = d /\ Previous(h, slot) \notin {None, st}) \in {0, 1}
  BY <1>2 DEF One
<1>10. DayAgrees(g, new, d, slot)
  BY <1>4, <1>5, <1>8, <1>9, DayParts
<1> QED
  BY <1>10 DEF g, h, st, new

(* Pruning takes no sample of a whole day.  It may take the sample that    *)
(* the first change of the day was counted against, and only that one.     *)
LEMMA PruneAgrees ==
  ASSUME NEW h \in [Slots -> Statuses \cup {"unknown", None}], NEW row,
         NEW now \in Slots, NEW d \in Days, Whole(d, now), DayAgrees(h, row, d, now)
  PROVE  DayAgrees([s \in Slots |-> IF SampleKept(s, now) THEN h[s] ELSE None], row, d, now)
<1> DEFINE g == [s \in Slots |-> IF SampleKept(s, now) THEN h[s] ELSE None]
<1>0. /\ \A s \in Slots : s \in Nat
      /\ now \in Nat /\ SampleLife \in Nat
      /\ \A s \in Slots : SampleKept(s, now) <=> s + SampleLife >= now
  BY DayTyping, MaintenanceAssumption DEF SampleKept
<1>1. \A s \in Slots : g[s] = IF SampleKept(s, now) THEN h[s] ELSE None
  OBVIOUS
<1> HIDE DEF g
<1>2. \A s \in Slots : Day(s) = d => SampleKept(s, now)
  BY WholeKept
<1>3. Mine(g, d) = Mine(h, d) /\ \A s \in Mine(h, d) : g[s] = h[s]
  BY <1>1, <1>2 DEF Mine
<1>4. Ups(g, d) = Ups(h, d)
  BY <1>3 DEF Ups
<1>5. \A s : Earlier(g, s) = {t \in Earlier(h, s) : SampleKept(t, now)}
  BY <1>1 DEF Earlier
<1>6. ASSUME NEW s \in Slots
      PROVE  \/ Previous(g, s) = Previous(h, s)
             \/ /\ Previous(g, s) = None /\ Previous(h, s) # None /\ now > SampleLife
                /\ \A o \in Earlier(h, s) : ~SampleKept(o, now)
  <2>1. CASE Earlier(h, s) = {}
    BY <1>5, <2>1, PreviousIsLast
  <2>2. CASE Earlier(h, s) # {}
    <3>1. PICK p \in Earlier(h, s) : \A o \in Earlier(h, s) : o <= p
      BY <2>2, PreviousIsLast
    <3>2. p \in Slots /\ h[p] # None /\ Previous(h, s) = h[p]
      BY <3>1, PreviousIsLast DEF Earlier
    <3>3. CASE SampleKept(p, now)
      <4>1. p \in Earlier(g, s) /\ \A o \in Earlier(g, s) : o <= p
        BY <1>5, <3>1, <3>3
      <4>2. Previous(g, s) = g[p]
        BY <4>1, PreviousIsLast
      <4> QED BY <1>1, <3>2, <3>3, <4>2
    <3>4. CASE ~SampleKept(p, now)
      <4>1. \A o \in Earlier(h, s) : ~SampleKept(o, now)
        BY <1>0, <3>1, <3>2, <3>4 DEF Earlier
      <4>2. Previous(g, s) = None
        BY <1>5, <4>1, PreviousIsLast
      <4>3. now > SampleLife
        BY <1>0, <3>2, <3>4
      <4> QED BY <3>2, <4>1, <4>2, <4>3
    <3> QED BY <3>3, <3>4
  <2> QED BY <2>1, <2>2
<1>7. CASE \A s \in Mine(h, d) : Previous(g, s) = Previous(h, s)
  <2>1. Changes(g, d) = Changes(h, d) /\ Orphan(g, d, now) = Orphan(h, d, now)
    BY <1>3, <1>7 DEF Changes, Orphan
  <2> QED BY <1>3, <1>4, <2>1, DayParts DEF g
<1>8. ASSUME NEW f \in Mine(h, d), Previous(g, f) # Previous(h, f)
      PROVE  DayAgrees(g, row, d, now)
  <2>1. /\ f \in Slots
        /\ Previous(g, f) = None /\ Previous(h, f) # None /\ now > SampleLife
        /\ \A o \in Earlier(h, f) : ~SampleKept(o, now)
    BY <1>6, <1>8 DEF Mine
  <2>2. \A s \in Mine(h, d) : s # f => f \in Earlier(h, s) /\ f \in Earlier(g, s)
    <3> SUFFICES ASSUME NEW s \in Mine(h, d), s # f
                 PROVE  f \in Earlier(h, s) /\ f \in Earlier(g, s)
      OBVIOUS
    <3>1. s \in Slots /\ SampleKept(s, now) /\ h[s] # None
      BY <1>2 DEF Mine
    <3>2. s \notin Earlier(h, f)
      BY <2>1, <3>1
    <3>3. f < s
      BY <1>0, <2>1, <3>1, <3>2 DEF Earlier
    <3>4. f \in Slots /\ h[f] # None /\ SampleKept(f, now)
      BY <1>2 DEF Mine
    <3> QED BY <1>5, <3>3, <3>4 DEF Earlier
  <2>3. \A s \in Mine(h, d) : s # f =>
          Previous(g, s) = Previous(h, s) /\ Previous(h, s) # None
    <3> SUFFICES ASSUME NEW s \in Mine(h, d), s # f
                 PROVE  Previous(g, s) = Previous(h, s) /\ Previous(h, s) # None
      OBVIOUS
    <3>1. Previous(g, s) # None /\ Previous(h, s) # None /\ s \in Slots
      BY <2>2, PreviousNone DEF Mine
    <3> QED BY <1>6, <3>1
  <2>4. ~Orphan(h, d, now) /\ Orphan(g, d, now)
    BY <1>3, <2>1, <2>3 DEF Orphan
  <2>5. Changes(g, d) = Changes(h, d) \ {f}
    BY <1>3, <2>1, <2>3 DEF Changes
  <2>6. Cardinality(Changes(g, d)) \in {Cardinality(Changes(h, d)), Cardinality(Changes(h, d)) - 1}
    BY <2>5, DayParts, FS_RemoveElement
  <2>7. row.flips = Cardinality(Changes(h, d))
    BY <2>4, DayParts DEF One
  <2>8. Cardinality(Changes(h, d)) \in Nat /\ Cardinality(Changes(g, d)) \in Nat
    BY DayParts
  <2>9. row.flips \in Cardinality(Changes(g, d))..
                        (Cardinality(Changes(g, d)) + One(Orphan(g, d, now)))
    BY <2>4, <2>6, <2>7, <2>8 DEF One
  <2> QED BY <1>3, <1>4, <2>9, DayParts
<1> QED
  BY <1>7, <1>8 DEF g

(* A day without a sample.                                                 *)
LEMMA EmptyAgrees ==
  ASSUME NEW h, \A s \in Slots : h[s] = None, NEW d, NEW now
  PROVE  DayAgrees(h, NoTotal, d, now)
<1>1. Mine(h, d) = {} /\ Ups(h, d) = {} /\ Changes(h, d) = {} /\ ~Orphan(h, d, now)
  BY DEF Mine, Ups, Changes, Orphan
<1>2. Cardinality({}) = 0
  BY FS_EmptySet
<1>3. One(Orphan(h, d, now)) = 0
  BY <1>1 DEF One
<1> QED
  BY <1>1, <1>2, <1>3, DayParts DEF NoTotal

LEMMA DaysAgreeInit == Init => DaysAgree
<1> SUFFICES ASSUME Init, NEW e \in Entities, NEW d \in Days
             PROVE  DayAgrees(db.samples[e], db.days[e][d], d, slot)
  BY DEF DaysAgree, Agree
<1>1. db.days[e][d] = NoTotal /\ \A s \in Slots : db.samples[e][s] = None
  BY DEF Init
<1> QED
  BY <1>1, EmptyAgrees

LEMMA DaysAgreeRecord ==
  ASSUME TypeInv, DaysAgree, RecordSamples
  PROVE  DaysAgree'
<1> DEFINE new == {e \in Entities : db.samples[e][Stamp] = None}
           sampled(e) == [db.samples[e] EXCEPT ![Stamp] = db.status[e]]
           counted(e) == [db.days[e] EXCEPT ![Day(Stamp)] = Counted(e, Stamp, @)]
           samples == [e \in Entities |-> IF e \in new THEN sampled(e) ELSE db.samples[e]]
           days == [e \in Entities |-> IF e \in new THEN counted(e) ELSE db.days[e]]
<1>1. /\ db.status \in [Entities -> Statuses \cup {"unknown"}]
      /\ db.samples \in [Entities -> [Slots -> Statuses \cup {"unknown", None}]]
      /\ db.days \in [Entities -> [Days -> Total]]
      /\ db \in Database
  BY DatabaseFields DEF TypeInv, TypeOK
<1>2. Stamp = slot /\ slot \in Slots /\ Day(slot) \in Days
  BY DayTyping DEF Stamp, TypeInv, TypeOK
<1>3. /\ samples \in [Entities -> [Slots -> Statuses \cup {"unknown", None}]]
      /\ days \in [Entities -> [Days -> Total]]
  BY <1>1, <1>2, CountedTyping
<1>4. db' = [db EXCEPT !.samples = samples, !.days = days] /\ slot' = slot
  BY DEF RecordSamples
<1>5. \A e \in Entities :
        \/ samples[e] = db.samples[e] /\ days[e] = db.days[e]
        \/ /\ db.samples[e][slot] = None
           /\ samples[e] = [db.samples[e] EXCEPT ![slot] = db.status[e]]
           /\ \A d \in Days : days[e][d] = IF d = Day(slot)
                THEN Counted(e, slot, db.days[e][d]) ELSE db.days[e][d]
  BY <1>1, <1>2
<1> HIDE DEF samples, days
<1>6. db'.samples = samples /\ db'.days = days
  BY <1>1, <1>3, <1>4, FieldTyping
<1>7. ASSUME NEW e \in Entities, NEW d \in Days, Whole(d, slot)
      PROVE  DayAgrees(samples[e], days[e][d], d, slot)
  <2>1. DayAgrees(db.samples[e], db.days[e][d], d, slot) /\ db.days[e][d] \in Total
    BY <1>1, <1>7 DEF DaysAgree, Agree
  <2>2. CASE samples[e] = db.samples[e] /\ days[e] = db.days[e]
    BY <2>1, <2>2
  <2>3. CASE /\ db.samples[e][slot] = None
             /\ samples[e] = [db.samples[e] EXCEPT ![slot] = db.status[e]]
             /\ days[e][d] = IF d = Day(slot)
                  THEN Counted(e, slot, db.days[e][d]) ELSE db.days[e][d]
    BY <2>1, <2>3, RecordAgrees
  <2> QED BY <1>5, <2>2, <2>3
<1> QED
  BY <1>4, <1>6, <1>7 DEF DaysAgree, Agree

LEMMA DaysAgreePrune ==
  ASSUME TypeInv, DaysAgree, PruneHistory
  PROVE  DaysAgree'
<1> DEFINE samples == [e \in Entities |-> [s \in Slots |->
              IF SampleKept(s, slot) THEN db.samples[e][s] ELSE None]]
           days == [e \in Entities |-> [d \in Days |->
              IF DayKept(d, slot) THEN db.days[e][d] ELSE NoTotal]]
<1>1. /\ db.samples \in [Entities -> [Slots -> Statuses \cup {"unknown", None}]]
      /\ db.days \in [Entities -> [Days -> Total]]
      /\ db \in Database /\ slot \in Slots
  BY DatabaseFields DEF TypeInv, TypeOK
<1>2. /\ samples \in [Entities -> [Slots -> Statuses \cup {"unknown", None}]]
      /\ days \in [Entities -> [Days -> Total]]
  BY <1>1 DEF NoTotal, Total
<1>3. db' = [db EXCEPT !.samples = samples, !.days = days] /\ slot' = slot
  BY DEF PruneHistory
<1>4. ASSUME NEW e \in Entities, NEW d \in Days, Whole(d, slot)
      PROVE  DayAgrees(samples[e], days[e][d], d, slot)
  <2>1. DayAgrees(db.samples[e], db.days[e][d], d, slot)
    BY <1>4 DEF DaysAgree, Agree
  <2>2. days[e][d] = db.days[e][d]
    BY <1>4 DEF Whole
  <2>3. db.samples[e] \in [Slots -> Statuses \cup {"unknown", None}]
    BY <1>1
  <2>4. DayAgrees([s \in Slots |-> IF SampleKept(s, slot) THEN db.samples[e][s] ELSE None],
                  db.days[e][d], d, slot)
    BY <1>1, <1>4, <2>1, <2>3, PruneAgrees
  <2> QED BY <2>2, <2>4
<1> HIDE DEF samples, days
<1>5. db'.samples = samples /\ db'.days = days
  BY <1>1, <1>2, <1>3, FieldTyping
<1> QED
  BY <1>3, <1>4, <1>5 DEF DaysAgree, Agree

(* A later clock, on top of days that agreed at an earlier one.            *)
LEMMA DaysAgreeLater ==
  ASSUME NEW samples, NEW days, NEW a \in Slots, NEW b \in Slots, a <= b,
         Agree(samples, days, a)
  PROVE  Agree(samples, days, b)
BY LaterAgrees DEF Agree

LEMMA DaysAgreeTick ==
  ASSUME TypeInv, DaysAgree, Tick
  PROVE  DaysAgree'
<1>1. slot \in Slots /\ slot' = slot + 1 /\ slot < MaxSlot /\ slot \in Nat /\ MaxSlot \in Nat
  BY DayTyping, MaintenanceAssumption DEF Tick, TypeInv, TypeOK
<1>2. slot' \in Slots /\ slot <= slot'
  BY <1>1 DEF Slots
<1>3. db' = db
  BY DEF Tick
<1> QED
  BY <1>1, <1>2, <1>3, DaysAgreeLater DEF DaysAgree

LEMMA DaysAgreeRestore ==
  ASSUME TypeInv, Restore
  PROVE  DaysAgree'
<1>1. PICK old \in Backups : \E fresh \in SUBSET old.fresh : db' = [old EXCEPT !.fresh = fresh]
  BY DEF Restore
<1>2. old \in Database /\ Agree(old.samples, old.days, FirstSlot)
  BY BackupsAssumption
<1>3. db'.samples = old.samples /\ db'.days = old.days
  BY <1>1, <1>2 DEF Database
<1>4. FirstSlot \in Slots /\ slot \in Slots /\ FirstSlot <= slot /\ slot' = slot
  BY MaintenanceAssumption DEF Slots, Restore, TypeInv, TypeOK
<1> QED
  BY <1>2, <1>3, <1>4, DaysAgreeLater DEF DaysAgree

LEMMA DaysAgreeReplace ==
  ASSUME TypeInv, DaysAgree, NEW e \in Entities, Replace(e)
  PROVE  DaysAgree'
<1>1. /\ db.samples \in [Entities -> [Slots -> Statuses \cup {"unknown", None}]]
      /\ db.days \in [Entities -> [Days -> Total]]
      /\ db \in Database
  BY DatabaseFields DEF TypeInv, TypeOK
<1>2. /\ db'.samples = [db.samples EXCEPT ![e] = [s \in Slots |-> None]]
      /\ db'.days = [db.days EXCEPT ![e] = [d \in Days |-> NoTotal]]
  BY <1>1, EntityWrites
<1>3. slot' = slot
  BY DEF Replace
<1>4. ASSUME NEW x \in Entities, NEW d \in Days, Whole(d, slot)
      PROVE  DayAgrees(db'.samples[x], db'.days[x][d], d, slot)
  <2>1. CASE x = e
    <3>1. db'.days[x][d] = NoTotal /\ \A s \in Slots : db'.samples[x][s] = None
      BY <1>1, <1>2, <2>1
    <3> QED BY <3>1, EmptyAgrees
  <2>2. CASE x # e
    <3>1. db'.samples[x] = db.samples[x] /\ db'.days[x] = db.days[x]
      BY <1>1, <1>2, <2>2
    <3> QED BY <1>4, <3>1 DEF DaysAgree, Agree
  <2> QED BY <2>1, <2>2
<1> QED
  BY <1>3, <1>4 DEF DaysAgree, Agree

(* The other actions write neither samples nor days.                       *)
LEMMA HistoryKept ==
  ASSUME TypeInv,
         \/ CheckSlot \/ Forget \/ ScheduleRun \/ RoundFails
         \/ RunNow \/ EndRun \/ EndRunFails
         \/ \E on \in BOOLEAN : Enable(on)
         \/ \E e \in Entities : Lapse(e) \/ \E s \in Statuses : Observe(e, s)
         \/ IntervalPasses \/ Stop \/ Start \/ UNCHANGED vars
  PROVE  UNCHANGED <<db.samples, db.days, slot>>
<1>0. db \in Database
  BY DEF TypeInv, TypeOK
<1>1. slot' = slot
  BY DEF CheckSlot, Forget, ScheduleRun, RoundFails, RunNow, EndRun, EndRunFails, Enable,
         Lapse, Observe, IntervalPasses, Stop, Start, vars
<1>2. CASE CheckSlot \/ RoundFails \/ EndRunFails \/ Stop \/ UNCHANGED vars
  BY <1>1, <1>2 DEF CheckSlot, RoundFails, EndRunFails, Stop, vars
<1>3. CASE ScheduleRun \/ RunNow
  <2>1. StartRun \/ UNCHANGED <<db, task>>
    BY <1>3 DEF ScheduleRun, RunNow
  <2>2. UNCHANGED <<db.samples, db.days>>
    BY <1>0, <2>1, StartRunTyping DEF TypeInv, Database
  <2> QED BY <1>1, <2>2
<1>4. CASE Forget \/ EndRun \/ IntervalPasses \/ Start \/ \E on \in BOOLEAN : Enable(on)
  BY <1>0, <1>1, <1>4 DEF Forget, EndRun, IntervalPasses, Start, Enable, Database
<1>5. CASE \E e \in Entities : Lapse(e) \/ \E s \in Statuses : Observe(e, s)
  <2>1. PICK e \in Entities : Lapse(e) \/ \E s \in Statuses : Observe(e, s)
    BY <1>5
  <2>2. Lapse(e) => UNCHANGED <<db.samples, db.days>>
    BY <1>0 DEF Lapse, Database
  <2>3. \A s \in Statuses : Observe(e, s) => UNCHANGED <<db.samples, db.days>>
    BY <1>0 DEF Observe, Database
  <2> QED BY <1>1, <2>1, <2>2, <2>3
<1> QED
  BY <1>2, <1>3, <1>4, <1>5

LEMMA DaysAgreeStep ==
  ASSUME TypeInv, DaysAgree, [Next]_vars
  PROVE  DaysAgree'
<1>1. ASSUME UNCHANGED <<db.samples, db.days, slot>> PROVE DaysAgree'
  BY <1>1 DEF DaysAgree
<1> QED
  BY <1>1, HistoryKept, DaysAgreeRecord, DaysAgreePrune, DaysAgreeTick, DaysAgreeRestore,
     DaysAgreeReplace DEF Next, Round

(* Every day whose samples are all kept has the totals of its samples,     *)
(* however often the loop was cut short, restarted or put back.            *)
THEOREM DaysAlwaysAgree == Spec => []DaysAgree
<1>1. TypeInv /\ DaysAgree /\ [Next]_vars => DaysAgree'
  BY DaysAgreeStep
<1> QED
  BY <1>1, DaysAgreeInit, TypesHold, PTL DEF Spec

=============================================================================
