SPECIFICATION FairSpec
CONSTANTS
  StartTicks = 1
  BackoffMax = 3
  QueueCap = 2
  Timely = {0, 1}
  MayExit = TRUE
  MaxFaults = 3
INVARIANTS
  TypeOK
  ReaderHasItsDevice
  StartsStopped
PROPERTIES
  HealthyIsLeftAlone
  StopReturns
  InputRecovers
  ExitEndsThread
CHECK_DEADLOCK FALSE
