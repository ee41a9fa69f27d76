SPECIFICATION FairSpec
CONSTANTS
  Queries = {q}
  Holds = {h}
  Catalogs = {c}
  Close = Close
  Nobody = Nobody
  Window = 2
  Costs = {1, 3}
  MaxOut = 1
  MaxCalls = 2
CHECK_DEADLOCK FALSE
INVARIANTS
  TypeOK
  WithinWindow
  NothingAfterLoss
PROPERTIES
  PromiseKept
  CancelReturns
  DeathTold
  CloseEnds
