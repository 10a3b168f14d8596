SPECIFICATION Spec
CONSTANTS
  Tx <- MCTx
  Ops <- MCOps
  safeTxGas <- MCSafeTxGas
  gasPrice <- MCGasPrice
  Signed <- MCSigned
  Module = {"m1"}
  ModuleOps <- MCModuleOps
  ReentrancyGuard = "reentrancy"
  NoGuard = "none"
  InitialWorlds <- MCWorlds
  MaxNonce = 3
  MaxDepth = 3
  MaxTrace = 5
  MaxStrangers = 2
INVARIANTS
  NonceUsedOnce
  GuardBrackets
  OutcomesAreTrue
  RefundedOnce
  OnlyStrangersInterfere
PROPERTIES
  KeepsLedger
\* At rest nobody has to relay a transaction, and the bound on nonces ends it.
CHECK_DEADLOCK FALSE
