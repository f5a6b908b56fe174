SPECIFICATION FairSimSpec
CONSTANTS
  t = t
  x = x
  cr = cr
  Byte <- MCByte
  Cr = cr
  Nul = Nul
  Request <- MCRequest
  Answer <- MCAnswer
  RdCapacity = 4
  WrCapacity = 3
  BufSize = 5
  LineLengths <- MCLineLengths
INVARIANTS
  NothingIsLeftBehind
  InputIsRead
PROPERTIES
  ServerSpec
  AnswersAreSent
