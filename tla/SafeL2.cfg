SPECIFICATION Spec
CONSTANTS
  l2A = l2A
  l2B = l2B
  Singletons <- MCSingletons
  MaxNonce = 3
  MaxDepth = 3
  MaxLog = 4
  Claims = {0, 2}
  MaxStrangers = 1
SYMMETRY Interchangeable
INVARIANTS
  EachNonceAnnouncedOnce
  EventsNest
  PendingExactly
  UsageIsTrue
\* The bounds are reached.
CHECK_DEADLOCK FALSE
