SPECIFICATION Spec
CONSTANTS
  Chain = {c1, c2}
  Singleton = {s1, s2}
  Config <- MCConfig
  Self = "self"
  NoHandler = "none"
  NoInitializer = "none"
  SaltNonce = {n1}
  Callback = {cb1, cb2}
  NoCallback = NoCallback
  Empty = Empty
  NoChain = NoChain
  MaxAccounts = 2
  MaxDepth = 3
INVARIANTS
  SetUpOnce
  CalledBackAfterCreation
  CreatedWhereExpected
PROPERTIES
  KeepsPromises
\* Nothing can be created on a chain without a singleton, or beyond MaxAccounts.
CHECK_DEADLOCK FALSE
