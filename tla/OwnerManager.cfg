SPECIFICATION OwnersSpec
CONSTANTS
  Address <- MCAddress
  Self <- MCSelf
  OwnerList <- MCOwnerList
INVARIANTS
  OwnersListedOnce
PROPERTIES
  ImplementsRegistry
