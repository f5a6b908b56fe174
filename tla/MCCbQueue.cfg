SPECIFICATION Spec
CONSTANTS
  b1 = b1
  b2 = b2
  Size = 4
  Zero = b1
  Byte <- MCByte
  Messages <- MCMessages
INVARIANTS
  NoOverlap
PROPERTY
  QueueSpec
