CONSTANTS
  FrameCount = 5
  MAX_HLT_EXITS = 5
  Offered <- MCOffered

SPECIFICATION FairSpec

INVARIANTS
  IInv
  ReturnsWithVmxOff
  NoStrayVmxInstruction
  SetupNeverPanics
  StopIsClean
  OnlyLaunchCanFail
  LimitEndsTheSession
  ControlsAreAccepted

PROPERTIES
  Transparent
  OneSession
  GuestIsStopped
