CONSTANTS
  NPages = 5
  BaseMem = 2
  FirstFree = 3
  RefMod = 8
  PDX = {0, 1}
  PTX = {0, 1}
  Perm = {"r", "rw"}
  NULL = NULL
  JUNK = JUNK
SPECIFICATION Spec
INVARIANTS
  TypeOK
  RefCountsExact
  PagesPartitioned
  TlbCoherent
  NeverPanics
PROPERTY ImplementsAddressSpace
