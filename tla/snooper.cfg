CONSTANTS
  None = None
  Tags = {0, 1}
  FifoBits = 3
  WriteSlack = 4
  TqBits = 3
  OutBits = 2
  Rest = 3
  MaxTime = 3
  MaxTraced = 10
  MaxTagged = 3
  MaxDumps = 2
SPECIFICATION Spec
INVARIANTS TraceTrue TimesTrue
PROPERTY AlarmsTrue
