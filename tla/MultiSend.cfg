SPECIFICATION Spec
CONSTANTS
  Transaction <- MCTransaction
  Batches <- MCBatches
  SafeAddress = "safe"
  AddressZero = "zero"
INVARIANTS
  AllOrNothing
PROPERTIES
  BatchEnds
\* The batch ends.
CHECK_DEADLOCK FALSE
