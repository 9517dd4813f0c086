\* A server that listens although its scheduler failed to initialise.
SPECIFICATION SchedulerSpec
CONSTANTS
  halfhourly = halfhourly
  hourly = hourly
  check = check
  NoJob = NoJob
  Interval = {halfhourly, hourly}
  Immediate = {check}
  MaxAttempts = 2

PROPERTY ListeningServerChecks
