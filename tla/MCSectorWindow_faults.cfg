SPECIFICATION MCSpec
CONSTANTS
  NSect = 4
  FatBase = 1
  FSize = 1
  NFats = 2
  DataBase = 3
  CSize = 1
  SS = 2
  Val = {0, 1}
  Zero = 0
  Fat32 = FALSE
  NoSect = 99
  MayFail = TRUE
INVARIANTS TypeOK Coherent FatMirror ReadsAgree SyncDurable
PROPERTY NoStrayWrite
