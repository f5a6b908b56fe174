SPECIFICATION FairSpec
CONSTANTS
  c1 = c1
  c2 = c2
  Eol = Eol
  Nul = Nul
  LastPos = 2
  ParseBytes = 1
  MaxWire = 6
  Chars <- MCChars
  PowerUp <- MCPowerUp
INVARIANTS
  NewestIntact
  NoTornRead
PROPERTIES
  FittingLineIsDelivered
  LineIsFetched
  MailboxSpec
