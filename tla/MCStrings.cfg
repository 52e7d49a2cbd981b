CONSTANTS
  Memories <- MCMemories
  Chars <- MCChars
  Word = 4
  ByteMod = 256
  LongMod = 256
  Numerals <- MCNumerals
  NULL = NULL
SPECIFICATION Spec
INVARIANTS
  ReadsRight
  WritesRight
  NumeralRead
CHECK_DEADLOCK FALSE
