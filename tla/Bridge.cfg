SPECIFICATION FairBridge
CONSTANTS
  Queries = {q}
  Holds = {h}
  Catalogs = {c}
  Close = Close
  Nobody = Nobody
  Window = 2
  Costs = {1, 3}
  MaxOut = 9
  MaxCalls = 3
  MaxFrames = 2
CHECK_DEADLOCK FALSE
INVARIANTS
  CreditAgrees
  NeverBroken
  InterruptsOwn
PROPERTIES
  CreditComes
