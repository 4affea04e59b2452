CONSTANTS
  None = None
  QueueLen = 2
  Lens = {1}
  Jobs <- MixedJobs
  Croom = 2
  AddrBits = 3
  ReadSlack = 4
  DoneBits = 3
  ProcRoom = 2
  BusWidth = 1
  Failing = {}
  MayStop = FALSE
SPECIFICATION Spec
INVARIANTS TriggerComes
PROPERTIES ImplementsWorkQueue
