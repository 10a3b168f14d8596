SPECIFICATION Spec
CONSTANTS
  Chain = {1, 2}
  Owner = {1, 2}
  Threshold = 2
  Client = {"c1", "c2", "c3", "c4"}
  CallOf <- MCCallOf
  HomeOf <- MCHomeOf
  SafeAddress = "safe"
  AddressZero = "zero"
  MaxCopies = 1
INVARIANTS
  OnlyWhatWasSigned
  OneWinnerPerNonce
PROPERTIES
  EveryCallLands
\* The scripts end when their calls are executed.
CHECK_DEADLOCK FALSE
