CONSTANTS
  FrameCount = 5
  MAX_HLT_EXITS = 5
  Offered <- MCOffered

SPECIFICATION Spec

PROPERTY AllocatesRam
