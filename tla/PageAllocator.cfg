CONSTANTS
  NPages = 8
  BaseMem = 3
  FirstFree = 5
  RefMod = 4
  NULL = NULL
  DoubleFrees = FALSE
SPECIFICATION Spec
INVARIANTS
  TypeOK
  FreeListSound
  NeverPanics
PROPERTY ImplementsPool
