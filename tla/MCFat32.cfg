CONSTANTS
  BS = 3
  TOTAL_SEC = 23
  RSVD_SEC = 8
  FAT_SEC = 4
  MaxLen = 23

SPECIFICATION Spec

INVARIANTS
  IInv
  ReadsBack
  ChainEnds
  PanicsIffTooLong
  AreasAreKept
  CopiesAgree
