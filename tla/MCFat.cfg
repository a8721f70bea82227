CONSTANTS
  MaxDrives <- MCMaxDrives
  Present <- MCPresent
  SectorsPerHead <- MCSectorsPerHead
  Cylinders <- MCCylinders
  SizeWrap <- MCSizeWrap
  Overlapped = FALSE
  Request <- MCRequest
  Nothing = Nothing
  bytesPerSector = 8
  numberOfReservedSectors = 1
  numberOfFats = 2
  sectorsPerFat = 2
  RootDirSectors = 1
  sectorsPerCluster = 2
  Link <- MCLink
  Directory <- MCDirectory
SPECIFICATION FatFairSpec
INVARIANTS FatTypeOK RepliesThere DetectsPresent SlotHoldsFile
PROPERTIES CommandsReturn ImplementsDisk
CHECK_DEADLOCK FALSE
