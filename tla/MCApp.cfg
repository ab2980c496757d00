CONSTANTS
  MaxRuns = 2
  MaxOutput = 1
  Wide = {1}
  LogCap = 1
  MaxVms = 2

SPECIFICATION Spec

INVARIANTS
  IInv
  RunDirectoryIsExclusive
  NoOrphan
  LabelTellsOfEngine
  LogIsOfOneRun
  StatusTellsOfEngine
