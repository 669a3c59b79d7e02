\* LCD rows of two characters, two sessions of either type, one drawing, one
\* press of one key.
SPECIFICATION TerminalFairSpec
CONSTANTS
  Keys = {up}
  NoKey = none
  ShortSendCount = 2
  MaxPresses = 1
  Cols = 2
  Blank = blank
  Nul = nul
  a = a
  b = b
  Chars = {a, b, blank, nul}
  Half1 = a
  Half2 = blank
  RetryMax = 2
  KeyEvery = 2
  ReportEvery = 1
  Draws <- MCDraws
  MaxDraws = 1
  MaxSessions = 2
  MaxUart = 1
CHECK_DEADLOCK FALSE
INVARIANT LcdShown
PROPERTIES ShortSentInFull LongEndsByPhone RowsReachPhone HandshakeEnds KeyReleased
