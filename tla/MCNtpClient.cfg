SPECIFICATION Spec
CONSTANTS
  MaxRequests = 4
  Pool = 3
  NULL = NULL
INVARIANTS
  OneLineEach
PROPERTIES
  ReleasedWithAnswer
  RequestIsFollowedByLine
\* The clock need not ask again.
CHECK_DEADLOCK FALSE
