SPECIFICATION Spec
CONSTANTS
  Base = 4
  MAX_NAME = 2
  MAX_DATA = 2
  NameLens = {0, 1}
  Files = 2
CHECK_DEADLOCK FALSE
INVARIANTS TypeOK NeverStarved
PROPERTIES CleanUndisturbed AllFiled
