SPECIFICATION Spec
CONSTANTS
  Account <- MCAccount
  Contract <- MCContract
  Tx = {"tx"}
  InitialMembers = {2, 3}
  InitialQuorum = 2
  MaxNonce = 2
  MaxConfirmations = 3
  MaxSlots = 2
INVARIANTS
  EnoughIsAccepted
PROPERTIES
  ImplementsMultisig
  StaysRelayable
