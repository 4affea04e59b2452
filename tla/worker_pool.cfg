CONSTANTS
  MaxThreads = 2
  Handles = {h1, h2, h3}
  None = None
SPECIFICATION FairSpec
INVARIANTS TimesAreOwn OnlyCancelledStray NothingLeftBehind
PROPERTY CallsReturn
