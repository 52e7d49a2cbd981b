CONSTANTS
  SECTSIZE = 2
  HDRSECTS = 4
  BOOT = 2
  ELFHDR = 8
  MEG = 16
  Kernels <- MCKernels
  NULL = NULL
SPECIFICATION Spec
INVARIANTS
  TypeOK
  LoaderSurvives
  KernelComplete
PROPERTY Boots
CHECK_DEADLOCK FALSE
