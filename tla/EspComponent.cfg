SPECIFICATION Spec
CONSTANTS
  Stall = 2
  Intervals = {1, 3}
  SyncTimeout = 2
  MaxOverruns = 2
INVARIANTS
  OverrunsAreReal
PROPERTIES
  AlarmIsTrue
  DeadIsReported
  RecoveryIsReported
  EndIsReported
  StartsAnyway
CHECK_DEADLOCK FALSE
