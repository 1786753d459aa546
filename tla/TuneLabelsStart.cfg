SPECIFICATION Spec
CONSTANTS
  main = main
  control = control
  Setters = {main, control}
  BlockLen = 2
  RingCap = 1
  MaxTunes = 2
  MaxFaults = 1
PROPERTIES
  BlockIsAsLabelled
