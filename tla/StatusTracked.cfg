SPECIFICATION Spec
CONSTANTS
  l2A = l2A
  l2B = l2B
  Singletons <- MCSingletons
  MaxNonce = 3
  MaxDepth = 3
  MaxLog = 4
  Claims = {0, 2}
  MaxStrangers = 0
SYMMETRY Interchangeable
INVARIANT
  StatusTracked
\* The bounds are reached.
CHECK_DEADLOCK FALSE
