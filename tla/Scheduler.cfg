\* Processes that come and go, with either of two intervals, on a Redis that comes and goes.
SPECIFICATION SchedulerSpec
CONSTANTS
  halfhourly = halfhourly
  hourly = hourly
  check = check
  NoJob = NoJob
  Interval = {halfhourly, hourly}
  Immediate = {check}
  MaxAttempts = 2
INVARIANTS SchedulerTypeOK ScheduleStands
PROPERTIES GracefulExits ShutdownEnds ChecksKeepComing PendingChecksEnd
