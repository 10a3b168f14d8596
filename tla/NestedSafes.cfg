SPECIFICATION NestedSpec
CONSTANTS
  Safe = {"parent", "first", "second"}
  Parent = "parent"
  OwnersOf <- MCOwnersOf
  ThresholdOf <- MCThresholdOf
  Payee = {"x"}
  Newcomer = {"cat"}
  MaxNonce = 2
  MaxAgreed = 6
PROPERTIES
  ExecutesWhatOwnersBack
  StaysAccepted
\* The bounds are reached.
CHECK_DEADLOCK FALSE
