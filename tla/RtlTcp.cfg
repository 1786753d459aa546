SPECIFICATION FairSpec
CONSTANTS
  NBands = 2
  Asks = {2, 3}
  Width = 2
  Ahead = 1
  Control = 1
  MaxCommands = 2
  MaxFaults = 1
INVARIANTS
  TunedAsAsked
PROPERTIES
  GoneClientMakesRoom
  DecodersFollow
