CONSTANTS
  CRT_COLS = 4
  CRT_SIZE = 12
  BUFLEN = 5
  Prompt <- MCPrompt
  Input <- MCInput
  Output <- MCOutput
  MaxOutput = 1
  MaxLines = 1
SPECIFICATION Spec
INVARIANTS
  TypeOK
  ScreenShowsLine
PROPERTY OnlyTheLineChanges
