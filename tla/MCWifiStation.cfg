SPECIFICATION StationSpec
CONSTANTS
  k1 = k1
  k2 = k2
  Credentials = {k1, k2}
  MaxEvents = 2
  Absent = Absent
INVARIANTS
  BitFollowsLink
  OkMeansStored
PROPERTIES
  JoinsInTheEnd
