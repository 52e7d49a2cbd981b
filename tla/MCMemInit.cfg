CONSTANTS
  Memories <- MCMemories
  PageKB = 4
  ExtKB = 24
  Ext16KB = 64
  BlockKB = 8
  IoPage = 4
  ExtPage = 6
  EndPage = 8
  StackPage = 7
  StackPages = 1
  InfosPerPage = 8
  EntryPages = 16
  MaxPages = 32
  NULL = NULL
  JUNK = JUNK
SPECIFICATION Spec
INVARIANTS
  TypeOK
  FreePagesConserved
  KernelUntouched
  BootsSafely
PROPERTY BootsExactly
CHECK_DEADLOCK FALSE
