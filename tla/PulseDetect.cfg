SPECIFICATION Spec
CONSTANTS
  MinPulseSamples = 2
  MaxPulses = 4
  MinPulses = 1
  MaxGapRatio = 1
  MinGap = 3
  MaxGap = 4
  LowRatio = 0
  SkipSamples = 1
  MaxPos = 13
  MaxBlock = 2
INVARIANTS
  EverySampleCounted
  FskSamplesCounted
  PackageIsWhole
  FskWidthsAreReal
PROPERTIES
  BlockIsTaken
CHECK_DEADLOCK FALSE
