CONSTANTS
  Drive <- MCDrive
  SectorSize <- MCSectorSize
  MaxCount <- MCMaxCount
  Burst <- MCBurst
  Extra <- MCExtra
  MaxShort <- MCMaxShort
  Request <- MCRequest
  Guard <- MCGuard
  CountWrap <- MCCountWrap
  Nothing = Nothing
  FileDrive <- MCFileDrive
  Extent <- MCExtent
  Length <- MCOneSector
  Sizes <- MCWhole
SPECIFICATION CdSpec
INVARIANT RestLarger
CHECK_DEADLOCK FALSE
