SPECIFICATION FairSpec
CONSTANTS
  HoursPerDay = 3
  MinutesPerHour = 2
  SecondsPerMinute = 3
  IntMax = 3
  Times <- MCTimes
INVARIANTS
  SetTimeIsNotBehind
  PrintIsNotAhead
  SyncIsNotOverdue
PROPERTIES
  RequestIsServed
  KeepsAsking
