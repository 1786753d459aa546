\* Two messages, an id that wraps between them, two lost connections.  WireCap
\* is at least MaxEvents: all overdue messages are sent again at once.
SPECIFICATION FairSpec
CONSTANTS
  Width = 4
  MaxEvents = 2
  MaxLosses = 2
  WireCap = 3
INVARIANTS
  NoneLost
  OnceOnly
PROPERTIES
  AllAcknowledged
CHECK_DEADLOCK FALSE
