SPECIFICATION Spec
CONSTANTS
  Base = 4
  MAX_NAME = 2
  MAX_DATA = 2
  NameLens = {1}
  Files = 1
CHECK_DEADLOCK FALSE
PROPERTY CleanMeansDone
