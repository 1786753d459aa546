SPECIFICATION FlowSpec
CONSTANTS
  MinPulseSamples = 1
  MaxPulses = 4
  MinPulses = 1
  MaxGapRatio = 3
  MinGap = 2
  MaxGap = 8
  LowRatio = 0
  SkipSamples = 1
  MaxPos = 10
  MaxBlock = 2
  Piece = 2
  MaxPieces = 5
  MaxSegments = 2
INVARIANTS
  ExactlyWanted
  InOrder
  PackageOfOneSegment
CHECK_DEADLOCK FALSE
