SPECIFICATION Spec
CONSTANTS
  DriveSize <- MCDriveSize
  Opt <- MCOpt
  Fs = {f1}
  Null = Null
  MaxFormats = 2
  MaxCalls = 4
  MayFail = TRUE
CHECK_DEADLOCK FALSE
INVARIANTS FormatMounts MountedComplete AreasFit StaleRefused
PROPERTIES FatOwnEntry FormatEnds
