SPECIFICATION Spec
CONSTANTS
  c1 = c1
  c2 = c2
  Clients = {c1, c2}
  Backlog = 2
  MaxItems = 2
  NULL = NULL
INVARIANTS CountIsExact NeverBlocksAlone
PROPERTIES CountedIsReceived
