CONSTANTS
  c1 = c1
  c2 = c2
  c3 = c3
  fd0 = fd0
  cd0 = cd0
  NoPid = NoPid
  Nil = Nil
  DiskMgr = DiskMgr
  Clients <- ThreeClients
  Devices <- Both
  Writable <- Floppy
  Cached <- Floppy
  Requests <- Reads
  Programs = {"q1", "q2"}
  Detected <- TenFrames
  NoFrame = NoFrame
  KernelPages = 1
  MaxLoads = 3
  r1 = r1
  k1 = k1
  Receivers <- OneReceiver
  Senders <- ItselfAndThread
  MessageKinds = {m1}
  NoMessage = NoMessage
  MAX_MESSAGE = 3
  context_switch_rate = 3
  Parts = 2
  Minute = 2
  Hour = 6
  Day = 2
  Sync = 3
  FirstDates <- ThreeDates
  LastSecond = 60
  SectorBytes = 4
  RecordBytes = {2, 3}
  MaxRecords = 3
  FileBytes = 5
  MaxDescriptors = 3
SPECIFICATION QueuesSpec
SYMMETRY Symmetry
INVARIANTS PendingIsAccountedFor ListIsQueue BatchIsExclusive
INVARIANTS FramesAreAccountedFor MessagesAreInOrder ClockIsSound CdShowsItsFiles
