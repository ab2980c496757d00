CONSTANTS
  MaxRuns = 1
  MaxOutput = 2
  Wide = {}
  BannerFirst = 1
  BannerLast = 2

SPECIFICATION FairSpec

INVARIANTS
  IInv
  NoEngineLeft
  PassMeansBooted
  DrainedBannerIsFound

PROPERTIES
  SelfTestEnds
  BannerIsSeen
