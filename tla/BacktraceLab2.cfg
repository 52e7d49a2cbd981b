CONSTANTS
  Starts <- Lab2Starts
  Depth = 2
  MAXARGS = 4
  BufLen = 9
  ByteMod = 16
  ULIM = 99
  NULL = NULL
SPECIFICATION Spec
PROPERTY BacktraceDisplayed
CHECK_DEADLOCK FALSE
