CONSTANTS
  Pushers = {p1}
  Poppers = {c1, c2}
  QueueLen = 2
  Items <- PipeItems
  ProcResults <- OddProc
  Watched <- LastTag
  JunkLens <- Junk
  CacheLine = 2
  Word = 8
  PopTries = 1
  Addr <- Pointers
  NULL = NULL
  None = None
  A = A
  B = B
  Tag1 = Tag1
  Tag2 = Tag2
SPECIFICATION Spec
INVARIANTS ChecksumAgrees
PROPERTY ImplementsWorkQueue
