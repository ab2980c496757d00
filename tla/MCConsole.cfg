CONSTANTS
  MaxRuns = 1
  MaxOutput = 3
  Wide = {1}
  LogCap = 1
  MaxVms = 1

SPECIFICATION FairSpec

INVARIANTS
  ConsoleIsGapless
  TailIsShown

PROPERTIES
  ReadersEnd
  CallsReturn
