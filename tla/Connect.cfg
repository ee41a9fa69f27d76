SPECIFICATION FairSpec
CONSTANTS
  MaxAsks = 4
  MaxFlips = 3
  MaxFiles = 2
  SaveFails = FALSE
CHECK_DEADLOCK FALSE
INVARIANTS
  TypeOK
  HoldsAsMode
  WaitsForConnect
PROPERTIES
  ConnectSettles
