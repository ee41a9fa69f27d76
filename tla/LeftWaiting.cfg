SPECIFICATION Spec
CONSTANTS
  MaxAsks = 3
  MaxFlips = 0
  MaxFiles = 2
  SaveFails = TRUE
CHECK_DEADLOCK FALSE
INVARIANTS
  WaitsForConnect
