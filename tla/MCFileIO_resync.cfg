SPECIFICATION Spec
CONSTANTS
  SS = 2
  CSize = 1
  Cluster = {c1, c2}
  None = None
  EOC = EOC
  MaxDword = 3
  Val = {a}
  Junk = Junk
  MaxXfer = 3
  MayFail = TRUE
SYMMETRY Symmetry
PROPERTY SyncOkDurable
