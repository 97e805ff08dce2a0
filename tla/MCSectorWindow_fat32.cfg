SPECIFICATION MCSpec
CONSTANTS
  NSect = 5
  FatBase = 2
  FSize = 1
  NFats = 1
  DataBase = 3
  CSize = 2
  SS = 2
  Val = {0, 1}
  Zero = 0
  Fat32 = TRUE
  NoSect = 99
  MayFail = FALSE
PROPERTY ImplementsLogicalVolume
