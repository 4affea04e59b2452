CONSTANTS
  Lens = {1, 3}
  Bases <- Beside
  VersionAt <- VersionBase
  Versions <- Texts
  Probes <- ProbedWords
  MaxItems = 1
\* The join of a thread that was never created may never return.
CHECK_DEADLOCK FALSE
SPECIFICATION FairSpec
INVARIANTS AllOrNothing RegistersFound VersionIsTrimmed
PROPERTY SetupReturns
