SPECIFICATION Spec
CONSTANTS
  Chunks = 2
  Rows = 2
  SqlServer = TRUE
INVARIANTS
  AllOrNothing
