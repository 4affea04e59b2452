CONSTANTS
  None = None
  QueueLen = 1
  Lens = {1}
  Jobs <- CopyJobs
  Croom = 2
  AddrBits = 3
  ReadSlack = 4
  DoneBits = 2
  ProcRoom = 2
  BusWidth = 1
  Failing = {"READ_CL_M"}
  MayStop = FALSE
SPECIFICATION Spec
PROPERTIES OwnsWhatItWrites
