CONSTANTS
  x = x
  nl = nl
  NoByte = NoByte
  Bytes <- TwoBytes
  NewLine = nl
  OpenSize = 2
  BufSizes <- OneAndTwo
  MaxBuf = 2
  Large = 1
  MaxLarge = 2
  Unit = 2
  MaxSize = 3
  ClusterBytes = 2
  FileClusters = 4
  Stamps <- TwoStamps
  Unset = 2
  w1 = w1
  w2 = w2
  fa = fa
  fb = fb
  Writers <- TwoWriters
  Files <- TwoFiles
  NoFile = NoFile
  LastCluster = 4
  LastEntry = 5
  MaxSectors = 2
  MaxCrashes = 1
SPECIFICATION FilesSpec
SYMMETRY Symmetry
INVARIANTS BytesAreKept PlaceIsExact TransfersAreExact VolumeIsSound
