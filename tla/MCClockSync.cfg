SPECIFICATION SyncSpec
CONSTANTS
  HoursPerDay = 24
  MinutesPerHour = 60
  SecondsPerMinute = 60
  IntMax = 32767
  Windows <- MCWindows
  MaxDelay = 1
INVARIANTS
  StaysBehindByTransit
  OutOfRangeByRequests
  ASecondBehind
  IsTheTable
\* A window ends.
CHECK_DEADLOCK FALSE
