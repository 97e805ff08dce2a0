SPECIFICATION Spec
CONSTANTS
  c1 = c1
  c2 = c2
  c3 = c3
  F1 = F1
  F2 = F2
  Clus <- MCClus
  FatSect <- MCFatSect
  Id = {i1, i2}
  Name = {a, b}
  NRoot = 2
  MaxLen = 2
  MaxCalls = 5
  MaxCuts = 1
  Root = Root
  Free = Free
  EOC = EOC
  Null = Null
SYMMETRY Symmetry
INVARIANTS
  TypeOK
  Recoverable
  Consistent
  SyncedKept
CHECK_DEADLOCK FALSE
