SPECIFICATION FairSpec
CONSTANTS
  HoursPerDay = 24
  MinutesPerHour = 60
  SecondsPerMinute = 2
  IntMax = 60
  Base = 10
  Off = Off
INVARIANTS
  NoGhost
  FrameIsNotAhead
PROPERTIES
  AllDigitsAreShown
  CountsTheDay
