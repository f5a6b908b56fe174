SPECIFICATION CommandSpec
CONSTANTS
  ARGPARSER_MAXARGS = 2
  a = a
  WIFI = WIFI
  Letters = {a}
  SizeOfCmd = 3
  BUF_SIZE = 6
  MaxRead = 3
  MaxTyped = 7
  CR = CR
  LF = LF
  Unset = Unset
INVARIANTS
  FindsWhatWasTyped
  LinesAreHandled
  NeverMixesLines
  PosIsWithin
\* Who types need not go on, and a task that has followed a wild pointer does not.
CHECK_DEADLOCK FALSE
