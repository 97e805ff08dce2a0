SPECIFICATION Spec
CONSTANTS
  n_fatent = 4
  Obj = {f, d}
  None = None
  Fat32 = TRUE
  MayFail = TRUE
  InfoMayFail = TRUE
INVARIANT FullMeansFull
