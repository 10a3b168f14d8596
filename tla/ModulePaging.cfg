SPECIFICATION PagingSpec
CONSTANTS
  Address <- MCAddress
  InitialModules <- MCInitialModules
  PageSizes <- MCPageSizes
  MaxEdits = 5
INVARIANTS
  PagesFollow
  ReadsEveryModule
  RepeatsAfterRemoval
PROPERTIES
  ImplementsModuleSet
  ReadEnds
