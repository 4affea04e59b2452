CONSTANTS
  None = None
  QueueLen = 1
  Lens = {0, 5}
  Jobs <- LineJobs
  Croom = 2
  AddrBits = 3
  ReadSlack = 4
  DoneBits = 8
  ProcRoom = 2
  BusWidth = 2
  Failing = {}
  MayStop = FALSE
SPECIFICATION Spec
INVARIANTS TypeOK QuietBus RoomIsLimited DoneMeansWritten TagsUnique LinesInPlace
