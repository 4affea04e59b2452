CONSTANTS
  Pushers = {p1, p2}
  Poppers = {c1}
  QueueLen = 2
  Items <- OneItem
  ProcResults <- DefaultProc
  Watched <- NoLines
  JunkLens <- Junk
  CacheLine = 2
  Word = 8
  PopTries = 2
  Addr <- Pointers
  NULL = NULL
  None = None
  A = A
  B = B
  Tag1 = Tag1
  Tag2 = Tag2
SPECIFICATION BusySpec
PROPERTIES ReadyIsProcessed PushesProgress CleanupReturns
