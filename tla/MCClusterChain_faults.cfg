SPECIFICATION MCSpec
CONSTANTS
  n_fatent = 5
  Obj = {f, d}
  None = None
  Fat32 = TRUE
  MayFail = TRUE
  InfoMayFail = FALSE
INVARIANTS TypeOK ChainsSound NoInternalError NoLeak FullMeansFull
PROPERTIES NoForeignChange Terminates ImplementsClusterPool
