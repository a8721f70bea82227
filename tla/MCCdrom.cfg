CONSTANTS
  Drive <- MCDrive
  SectorSize <- MCSectorSize
  MaxCount <- MCMaxCount
  Burst <- MCBurst
  Extra <- MCExtra
  MaxShort <- MCMaxShort
  Request <- MCRequest
  Guard <- MCGuard
  CountWrap <- MCCountWrap
  Nothing = Nothing
  FileDrive <- MCFileDrive
  Extent <- MCExtent
  Length <- MCLength
  Sizes <- MCSizes
SPECIFICATION CdFairSpec
INVARIANT CdTypeOK
PROPERTIES NoOverrun ReadsReturn ImplementsDisk ImplementsFileStream
CHECK_DEADLOCK FALSE
