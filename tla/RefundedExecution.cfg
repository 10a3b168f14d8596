SPECIFICATION MCSpec
CONSTANTS
  Word = 16777216
  Client = {"client"}
  Options <- MCOptions
  Presigned <- MCPresigned
  Target <- MCTarget
  Token = "token"
  Ether = "ether"
  TokenMode = {"bool", "silent", "long", "false", "reverts", "noCode"}
  InitialEther = 600000
  InitialTokens = 100000
  Overhead = {500, 3000}
  BaseCost = 40000
  Payload <- MCPayload
  Signatures = 2
  GAS_PRICE = 1
  BlockGasLimit = 1000000
  Gas = {33500, 203000, 203700, 1000000}
  Price = {1, 2}
  MaxLoops = 3
  MaxChanges = 1
INVARIANTS
  CallGetsItsGas
  PaymentBounded
  EstimateCovers
  
  PaymentsAreReal
PROPERTIES
  HelperEnds
\* The helpers end.
CHECK_DEADLOCK FALSE
