CONSTANTS
  v = v
  w = w
  NoData = NoData
  Values <- TwoValues
  Sectors <- ThreeSectors
  CacheSize = 3
  MaxBlocks = 2
SPECIFICATION Spec
INVARIANT NothingLost
