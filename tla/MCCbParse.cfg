SPECIFICATION ParseSpec
CONSTANTS
  Size = 4
  WordSize = 16
  Byte <- MCByte
  Chars <- MCChars
  Zero = "nul"
  Digits <- MCDigits
  HexDigits <- MCHexDigits
  ValueOf <- MCValueOf
  Minus = "-"
  Plus = "+"
  Blanks <- MCBlanks
  Wildcard = "?"
  Patterns <- MCPatterns
PROPERTIES
  FindIsFirst
  NumberIsTaken
  HexIsTaken
