CONSTANTS
  NPages = 8
  BaseMem = 3
  FirstFree = 5
  RefMod = 4
  NULL = NULL
  DoubleFrees = TRUE
SPECIFICATION Spec
PROPERTY DoubleFreeCaught
CHECK_DEADLOCK FALSE
