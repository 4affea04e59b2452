CONSTANTS
  Pushers = {p1, p2}
  Poppers = {c1, c2}
  QueueLen = 2
  Items <- TwoItems
  ProcResults <- DefaultProc
  Watched <- NoLines
  JunkLens <- Junk
  CacheLine = 2
  Word = 8
  PopTries = 2
  Addr <- Pointers
  NULL = NULL
  None = None
  A = A
  B = B
  Tag1 = Tag1
  Tag2 = Tag2
SPECIFICATION Spec
INVARIANTS TypeOK SlotOwnership NoLostTrigger StopIsHeard WakeupsSuffice
PROPERTY OwnersOnly
SYMMETRY ThreadSymmetry
