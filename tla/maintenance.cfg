SPECIFICATION Spec
CONSTANTS
  e1 = e1
  r1 = r1
  r2 = r2
  r3 = r3
  None = None
  Entities <- MCEntities
  Statuses <- MCStatuses
  RunIds <- MCRunIds
  Backups <- MCBackups
  PerDay = 2
  SampleLife = 2
  DayLife = 1
  FirstSlot = 1
  MaxSlot = 4
  MaxFaults = 1
  MaxRestarts = 1
  MaxRestores = 1
INVARIANTS
  TypeOK
  DaysAgree
  StaleStatusIsSampledOnce
  RunningIsTheTask
PROPERTIES
  ScheduleGoesOn
