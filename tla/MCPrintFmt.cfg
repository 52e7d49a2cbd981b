CONSTANTS
  Numbers <- MCNumbers
  Pointers <- MCPointers
  Others <- MCOthers
  Probes <- MCProbes
  Sizes = {0, 1, 4}
  IntMod = 16
  LongMod = 256
  CharMod = 16
  MAXERROR = 3
  NULL = NULL
SPECIFICATION Spec
INVARIANTS
  TypeOK
  OutputAsSpecified
  CountsExact
  BufferRespected
PROPERTY Returns
CHECK_DEADLOCK FALSE
