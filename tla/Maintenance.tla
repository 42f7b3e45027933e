----------------------------- MODULE Maintenance -----------------------------
(***************************************************************************)
(* The maintenance loop of the process: every round it records a sample of *)
(* every entity's status when the current slot has none, prunes the        *)
(* history, forgets the statuses nobody has confirmed lately, and starts a *)
(* speedtest when one is due.  A speedtest is a task of its own behind a   *)
(* lock in memory, with a row in the database that says "running".         *)
(*                                                                         *)
(* An exception ends a round, and the next one starts over.  The process   *)
(* may stop between any two steps, and a restore may put the whole         *)
(* database back to what a backup holds while the loop and the test go on. *)
(* The polls of the providers are the action Observe; Discovery has their  *)
(* transactions, Vault the backups and the files.                          *)
(***************************************************************************)
EXTENDS Naturals, FiniteSets

CONSTANTS
  Entities,
  Statuses,     \* what a provider can say of an entity: "up" and others
  None,         \* no sample in a slot, no test
  RunIds,       \* ids of rows of speedtest_runs
  Backups,      \* what the backups on disk, or brought from elsewhere, hold
  PerDay,       \* slots in a day
  SampleLife,   \* SAMPLE_RETENTION_HOURS, in slots
  DayLife,      \* DAY_RETENTION_DAYS
  FirstSlot,    \* the slot of the day in which the first start falls
  MaxSlot,      \* bound on time
  MaxFaults,    \* bound on the rounds and the results a full disk or a lock ruins
  MaxRestarts,
  MaxRestores

ASSUME MaintenanceAssumption ==
  /\ "up" \in Statuses /\ "unknown" \notin Statuses
  /\ None \notin Statuses \cup RunIds \cup {"unknown"}
  /\ PerDay \in Nat \ {0} /\ SampleLife \in Nat /\ DayLife \in Nat
  /\ MaxSlot \in Nat /\ FirstSlot \in 0..MaxSlot
  /\ MaxFaults \in Nat /\ MaxRestarts \in Nat /\ MaxRestores \in Nat

VARIABLES
  db,        \* the database
  slot,      \* the 5-minute slot of the clock
  pc,        \* where the loop is
  task,      \* the speedtest that holds the lock
  echo,      \* ghost: samples of a status since its last observation lapsed
  spoilt,    \* ghost: since the start a result was not written or a run restored
  faults, restarts, restores

counters == <<faults, restarts, restores>>
vars == <<db, slot, pc, task, echo, spoilt, counters>>

Slots == 0..MaxSlot
Day(s) == s \div PerDay
Days == 0..Day(MaxSlot)
Total == [total: Nat, up: Nat, flips: Nat]
NoTotal == [total |-> 0, up |-> 0, flips |-> 0]

Database ==
  [status: [Entities -> Statuses \cup {"unknown"}],
   fresh: SUBSET Entities,        \* entities with an observation that has not expired
   samples: [Entities -> [Slots -> Statuses \cup {"unknown", None}]],
   days: [Entities -> [Days -> Total]],   \* NoTotal: no row
   running: SUBSET RunIds,        \* rows of speedtest_runs that say "running"
   due: BOOLEAN,                  \* last_run_at is an interval ago, or NULL
   enabled: BOOLEAN]

Steps == {"check", "record", "prune", "forget", "speed", "down"}

One(condition) == IF condition THEN 1 ELSE 0

\* the oldest sample instead of the latest one
BugPrevious(history, s) ==
  LET earlier == {t \in Slots : t < s /\ history[t] # None}
  IN  IF earlier = {} THEN None
      ELSE history[CHOOSE t \in earlier : \A o \in earlier : t <= o]

(* The status of the last sample before a slot, of those of one entity.    *)
Previous(history, s) ==
  LET earlier == {t \in Slots : t < s /\ history[t] # None}
  IN  IF earlier = {} THEN None
      ELSE history[CHOOSE t \in earlier : \A o \in earlier : o <= t]

SampleKept(s, now) == s + SampleLife >= now
DayKept(d, now) == d + DayLife >= Day(now)

(* A day whose samples are all still kept and whose own row is.            *)
Whole(d, now) == SampleKept(d * PerDay, now) /\ DayKept(d, now)

(* The totals of a day are those of the samples behind them: only a change *)
(* against a sample that is no longer kept may be counted on top.          *)
DayAgrees(history, row, d, now) ==
  LET mine == {s \in Slots : Day(s) = d /\ history[s] # None}
      changes == {s \in mine : Previous(history, s) \notin {None, history[s]}}
      orphan == now > SampleLife /\ \E s \in mine : Previous(history, s) = None
  IN  /\ row.total = Cardinality(mine)
      /\ row.up = Cardinality({s \in mine : history[s] = "up"})
      /\ row.flips \in Cardinality(changes)..(Cardinality(changes) + One(orphan))

Agree(samples, days, now) ==
  \A e \in Entities : \A d \in {x \in Days : Whole(x, now)} :
    DayAgrees(samples[e], days[e][d], d, now)

(* A backup is an earlier state of such a database: it holds no sample of  *)
(* what is still to come when the first round starts, and its days agree.  *)
ASSUME BackupsAssumption ==
  /\ Backups \subseteq Database
  /\ \A old \in Backups :
       /\ \A e \in Entities, s \in Slots : s > FirstSlot => old.samples[e][s] = None
       /\ Agree(old.samples, old.days, FirstSlot)

-----------------------------------------------------------------------------
Init ==
  /\ db = [status |-> [e \in Entities |-> "unknown"],
           fresh |-> {},
           samples |-> [e \in Entities |-> [s \in Slots |-> None]],
           days |-> [e \in Entities |-> [d \in Days |-> NoTotal]],
           running |-> {}, due |-> TRUE, enabled |-> FALSE]
  /\ slot = FirstSlot
  /\ pc = "check"
  /\ task = None
  /\ echo = [e \in Entities |-> 0]
  /\ spoilt = FALSE
  /\ faults = 0 /\ restarts = 0 /\ restores = 0

\* rounded up
BugStamp == slot + 1
(* current_slot: the time, rounded down.                                   *)
Stamp == slot

(* sample_slot_due: the parsing of the metrics is spared when the slot has *)
(* a sample of anything.                                                   *)
CheckSlot ==
  /\ pc = "check"
  /\ pc' = IF \A e \in Entities : db.samples[e][Stamp] = None THEN "record" ELSE "forget"
  /\ UNCHANGED <<db, slot, task, echo, spoilt, counters>>

Flipped(e, s) == Previous(db.samples[e], s) \notin {None, db.status[e]}

Counted(e, s, total) ==
  [total |-> total.total + 1,
   up |-> total.up + One(db.status[e] = "up"),
   flips |-> total.flips + One(Flipped(e, s))]

(* record_samples: one transaction; an entity that has its sample already  *)
(* is not counted again.                                                   *)
RecordSamples ==
  LET new == {e \in Entities : db.samples[e][Stamp] = None}
      sampled(e) == [db.samples[e] EXCEPT ![Stamp] = db.status[e]]
      counted(e) == [db.days[e] EXCEPT ![Day(Stamp)] = Counted(e, Stamp, @)]
  IN  /\ pc = "record"
      /\ db' = [db EXCEPT
           !.samples = [e \in Entities |-> IF e \in new THEN sampled(e) ELSE db.samples[e]],
           !.days = [e \in Entities |-> IF e \in new THEN counted(e) ELSE db.days[e]]]
      /\ echo' = [e \in Entities |->
           IF e \in new /\ db.status[e] # "unknown" /\ e \notin db.fresh
             THEN echo[e] + 1 ELSE echo[e]]
      /\ pc' = "prune"
      /\ UNCHANGED <<slot, task, spoilt, counters>>

\* a round either samples or forgets
BugAfterPrune == "speed"
AfterPrune == "forget"

(* prune_history                                                           *)
PruneHistory ==
  /\ pc = "prune"
  /\ db' = [db EXCEPT
       !.samples = [e \in Entities |-> [s \in Slots |->
          IF SampleKept(s, slot) THEN db.samples[e][s] ELSE None]],
       !.days = [e \in Entities |-> [d \in Days |->
          IF DayKept(d, slot) THEN db.days[e][d] ELSE NoTotal]]]
  /\ pc' = AfterPrune
  /\ UNCHANGED <<slot, task, echo, spoilt, counters>>

(* The end of _maintenance_housekeeping: a status without an unexpired     *)
(* observation becomes unknown.                                            *)
Forget ==
  /\ pc = "forget"
  /\ db' = [db EXCEPT !.status = [e \in Entities |->
                             IF e \in db.fresh THEN db.status[e] ELSE "unknown"]]
  /\ pc' = "speed"
  /\ UNCHANGED <<slot, task, echo, spoilt, counters>>

\* the lock is a row in the database
BugBusy == task # None \/ db.running # {}
Busy == task # None

(* A new uuid: one that no row has, nor a row of the backup.               *)
InUse == db.running \cup UNION {old.running : old \in Backups}

(* SpeedtestManager.run up to the subprocess: the lock, then the row and   *)
(* last_run_at in one transaction.                                         *)
StartRun ==
  IF Busy THEN UNCHANGED <<db, task>>
  ELSE LET r == CHOOSE x \in RunIds : x \notin InUse
       IN  /\ InUse # RunIds
           /\ task' = r
           /\ db' = [db EXCEPT !.running = @ \cup {r}, !.due = FALSE]

(* maintenance_loop, after the polls: the scheduled test.                  *)
ScheduleRun ==
  /\ pc = "speed"
  /\ IF db.enabled /\ db.due THEN StartRun ELSE UNCHANGED <<db, task>>
  /\ pc' = "check"
  /\ UNCHANGED <<slot, echo, spoilt, counters>>

Round == CheckSlot \/ RecordSamples \/ PruneHistory \/ Forget \/ ScheduleRun

(* An exception in a round, after which the loop sleeps and starts over.   *)
RoundFails ==
  /\ pc \notin {"check", "down"}
  /\ faults < MaxFaults
  /\ pc' = "check"
  /\ faults' = faults + 1
  /\ UNCHANGED <<db, slot, task, echo, spoilt, restarts, restores>>

(* POST /api/speedtest/run                                                 *)
RunNow ==
  /\ pc # "down"
  /\ StartRun
  /\ UNCHANGED <<slot, pc, echo, spoilt, counters>>

(* The test ends, well, badly or at its time limit: the row says so.       *)
EndRun ==
  /\ task # None
  /\ db' = [db EXCEPT !.running = @ \ {task}]
  /\ task' = None
  /\ UNCHANGED <<slot, pc, echo, spoilt, counters>>

(* The result cannot be written (sqlite3.Error is caught nowhere in run):  *)
(* the row stays "running", the lock is released.                          *)
EndRunFails ==
  /\ task # None
  /\ faults < MaxFaults
  /\ faults' = faults + 1
  /\ task' = None
  /\ spoilt' = TRUE
  /\ UNCHANGED <<db, slot, pc, echo, restarts, restores>>

(* PATCH /api/speedtest/settings                                           *)
Enable(on) ==
  /\ pc # "down"
  /\ db.enabled # on
  /\ db' = [db EXCEPT !.enabled = on]
  /\ UNCHANGED <<slot, pc, task, echo, spoilt, counters>>

(* A poll stores a status and its observation; the gap between those two   *)
(* is in Discovery.                                                        *)
Observe(e, s) ==
  /\ pc # "down"
  /\ db' = [db EXCEPT !.status[e] = s, !.fresh = @ \cup {e}]
  /\ echo' = [echo EXCEPT ![e] = 0]
  /\ UNCHANGED <<slot, pc, task, spoilt, counters>>

(* Time: an observation expires, the interval of the speedtest passes, the *)
(* next slot begins.                                                       *)
Lapse(e) ==
  /\ e \in db.fresh
  /\ db' = [db EXCEPT !.fresh = @ \ {e}]
  /\ UNCHANGED <<slot, pc, task, echo, spoilt, counters>>

IntervalPasses ==
  /\ ~db.due
  /\ db' = [db EXCEPT !.due = TRUE]
  /\ UNCHANGED <<slot, pc, task, echo, spoilt, counters>>

Tick ==
  /\ slot < MaxSlot
  /\ slot' = slot + 1
  /\ UNCHANGED <<db, pc, task, echo, spoilt, counters>>

(* DELETE of an entity takes its samples and its days along; here its      *)
(* place is taken by a new one.                                            *)
Replace(e) ==
  /\ pc # "down"
  /\ db' = [db EXCEPT !.status[e] = "unknown", !.fresh = @ \ {e},
                      !.samples[e] = [s \in Slots |-> None],
                      !.days[e] = [d \in Days |-> NoTotal]]
  /\ echo' = [echo EXCEPT ![e] = 0]
  /\ UNCHANGED <<slot, pc, task, spoilt, counters>>

(* A restore: the loop and the test that are under way go on on top of it. *)
(* What the backup has of observations may have expired; an interval that  *)
(* has passed since is IntervalPasses.                                     *)
Restore ==
  /\ pc # "down"
  /\ restores < MaxRestores
  /\ restores' = restores + 1
  /\ \E old \in Backups : \E fresh \in SUBSET old.fresh :
       db' = [old EXCEPT !.fresh = fresh]
  /\ spoilt' = TRUE
  /\ UNCHANGED <<slot, pc, task, echo, faults, restarts>>

(* The process stops, and the subprocess of the test with it.              *)
Stop ==
  /\ pc # "down"
  /\ restarts < MaxRestarts
  /\ restarts' = restarts + 1
  /\ pc' = "down"
  /\ task' = None
  /\ UNCHANGED <<db, slot, echo, spoilt, faults, restores>>

\* nothing is recovered
BugRecovered == db.running
\* recover_stale_runs: no subprocess survives a restart
Recovered == {}

(* lifespan                                                                *)
Start ==
  /\ pc = "down"
  /\ db' = [db EXCEPT !.running = Recovered]
  /\ pc' = "check"
  /\ spoilt' = FALSE
  /\ UNCHANGED <<slot, task, echo, counters>>

Next ==
  \/ Round
  \/ RoundFails
  \/ RunNow \/ EndRun \/ EndRunFails
  \/ \E on \in BOOLEAN : Enable(on)
  \/ \E e \in Entities :
       Lapse(e) \/ Replace(e) \/ (\E s \in Statuses : Observe(e, s))
  \/ IntervalPasses \/ Tick
  \/ Restore
  \/ Stop \/ Start

(* The loop never waits for anything that does not end (its polls have     *)
(* time limits), and a test is killed at its time limit.                   *)
Spec == Init /\ [][Next]_vars /\ WF_vars(Round) /\ WF_vars(EndRun)

-----------------------------------------------------------------------------
(* Every variable has its type, and no sample lies ahead of the clock.     *)
TypeOK ==
  /\ db \in Database
  /\ slot \in Slots
  /\ \A e \in Entities, s \in Slots : s > slot => db.samples[e][s] = None
  /\ pc \in Steps
  /\ task \in RunIds \cup {None}
  /\ pc = "down" => task = None
  /\ echo \in [Entities -> Nat]
  /\ spoilt \in BOOLEAN
  /\ faults \in 0..MaxFaults /\ restarts \in 0..MaxRestarts /\ restores \in 0..MaxRestores

(* The totals of a day are those of the samples behind them, however often *)
(* the loop was cut short, restarted or put back to a backup.              *)
DaysAgree == Agree(db.samples, db.days, slot)

(* A status nobody confirms any more enters the history once at most: the  *)
(* samples are taken before the round forgets it.  It enters again only    *)
(* when a round was cut short, the process stopped or a backup came back.  *)
StaleStatusIsSampledOnce ==
  \A e \in Entities : echo[e] <= 1 + faults + restarts + restores

(* While the process runs, the row that says "running" is the test that    *)
(* does, and there is one at most - until the result of one cannot be      *)
(* written or a restore brings a row back, which the next start clears.    *)
RunningIsTheTask ==
  pc # "down" /\ ~spoilt =>
    db.running = IF task = None THEN {} ELSE {task}

(* A scheduled test that is due is started, unless it is switched off or   *)
(* the process is down: no row left behind and no test that went wrong     *)
(* holds up the schedule.                                                  *)
ScheduleGoesOn ==
  pc # "down" /\ db.enabled /\ db.due ~> pc = "down" \/ ~db.enabled \/ ~db.due
=============================================================================
