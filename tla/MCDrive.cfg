CONSTANTS
  v = v
  w = w
  NoData = NoData
  Values <- TwoValues
  Sectors <- ThreeSectors
  CacheSize = 2
  MaxBlocks = 1
  Tracks <- ThreeTracks
  WaitTicks = 2
  MotorTicks = 4
SPECIFICATION DiskSpec
INVARIANTS DriveIsSound OneSlotPerSector SectorsAreKept InvalidatesAll
PROPERTY DriveComesBack
