SPECIFICATION Spec
CONSTANTS
  NBands = 2
  HopRates <- TwoRates
  HopBlocks = 2
  HopOnEvent = FALSE
  QueueCap = 1
  MaxFaults = 1
PROPERTIES
  ManualFrequencyStays
