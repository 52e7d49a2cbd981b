CONSTANTS
  Starts <- MCStarts
  Depth = 2
  MAXARGS = 4
  BufLen = 9
  ByteMod = 16
  ULIM = 99
  NULL = NULL
SPECIFICATION Spec
INVARIANTS
  TypeOK
  SearchesBracket
  InfoCorrect
  SessionAnswered
PROPERTY PromptReturns
CHECK_DEADLOCK FALSE
