SPECIFICATION FairSpec
CONSTANTS
  NBands = 3
  HopRates <- TwoRates
  HopBlocks = 2
  HopOnEvent = FALSE
  QueueCap = 1
  MaxFaults = 3
INVARIANTS
  BandIsWhole
  SignalOfOneBand
PROPERTIES
  EveryBandHasItsTurn
