SPECIFICATION Spec
CONSTANTS
  Devices <- MCDevices
  Noise = {1, 4, 15, 30, 41}
  Preamble = 2
  MaxPulses = 4
  Rows = 3
  RowBits = 4
INVARIANTS
  RowsAreApart
  MessageIsDecoded
  CodesAreUndone
  SearchFindsFirst
