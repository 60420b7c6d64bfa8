CONSTANTS
  c1 = c1
  c2 = c2
  c3 = c3
  fd0 = fd0
  cd0 = cd0
  NoPid = NoPid
  Nil = Nil
  DiskMgr = DiskMgr
  Clients <- TwoClients
  Devices <- Both
  Writable <- Floppy
  Cached <- Floppy
  Requests <- Mixed
SPECIFICATION Spec
PROPERTIES AnswersAreFinal EveryRequestAnswered QuietDiskIsFlushed ImplementsService
