SPECIFICATION Spec
CONSTANTS
  StartTicks = 1
  BackoffMax = 3
  QueueCap = 2
  Timely = {1}
  MayExit = FALSE
  MaxFaults = 2
INVARIANTS
  NoFreedBlock
CHECK_DEADLOCK FALSE
