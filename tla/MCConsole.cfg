CONSTANTS
  CONSBUFSIZE = 3
  MaxPolls = 1
  Keys <- MCKeys
  SerialBytes = {98}
  MaxEvents = 4
  NULL = NULL
SPECIFICATION Spec
INVARIANT TypeOK
PROPERTIES
  KeysMeanWhatWasPressed
  ImplementsQueue
  InputTaken
CHECK_DEADLOCK FALSE
