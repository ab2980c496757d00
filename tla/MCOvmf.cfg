CONSTANT Arch = {"aarch64", "x64"}

SPECIFICATION Spec

INVARIANTS
  IInv
  DownloadedPairIsWhole
