SPECIFICATION FairSpec
CONSTANTS
  Pids = {1, 2, 3}
  MaxDepth = 3
  Setups <- MCSetups
INVARIANTS
  ListExact
  WaitsForOwn
  ApidsExact
PROPERTIES
  ConstructsEnd
