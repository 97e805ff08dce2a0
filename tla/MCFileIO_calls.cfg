SPECIFICATION Spec
CONSTANTS
  SS = 2
  CSize = 2
  Cluster = {c1, c2}
  None = None
  EOC = EOC
  MaxDword = 5
  Val = {a}
  Junk = Junk
  MaxXfer = 4
  MayFail = TRUE
SYMMETRY Symmetry
INVARIANTS Position NoInternalError EntryFollows EntryBacked
PROPERTY ImplementsByteFile
