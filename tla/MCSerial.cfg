CONSTANTS
  Char = {"a", "b"}
  FifoDepth = 1
  MaxLine = 2
  MaxLines = 2

SPECIFICATION FairSpec

INVARIANTS
  IInv
  Configured
  LinesComeOut

PROPERTY PrintReturns
