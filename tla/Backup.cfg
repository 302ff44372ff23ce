SPECIFICATION MCSpec
CONSTANTS
  d1 = d1 d2 = d2 daily = daily None = None Manual = Manual
  running = running startup = startup
  Devices = {d1, d2}
  Types = {running, startup}
  Contents = {A, B}
  Workers = {w1}
  Scheduler = scheduler
  Schedules = {daily}
  Targets <- DailyTargets
  MaxManual = 1
  MaxDays = 2
  MaxChanges = 2
  MaxFailures = 2
  MaxBaselines = 1
  MaxMishaps = 1
CHECK_DEADLOCK FALSE
INVARIANTS TypeOK JobsTellTheTruth ArchiveIsTrue InSyncIsHeld OncePerDay
