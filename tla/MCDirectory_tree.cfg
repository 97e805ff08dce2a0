SPECIFICATION Spec
CONSTANTS
  Body = 1
  Full = 2
  SignedChar = FALSE
  Names <- MCNames
  Lookups <- MCLookups
  File = {f1, f2}
  Dirs = {d1, d2}
  NRoot = 2
  PerClus = 3
  MaxSlots = 6
  Room = 2
  Null = Null
INVARIANTS TypeOK TablesSound TreeSound ListedOnce ListedOpens PathMeans
SYMMETRY Symmetry
VIEW MCView
