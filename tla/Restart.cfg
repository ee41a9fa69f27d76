SPECIFICATION Spec
CONSTANTS
  Names = {"a", "b"}
  MaxTabs = 2
  MaxTexts = 2
  MaxRuns = 1
  MaxCrashes = 1
  MaxStrip = 1
  NamesReturn = FALSE
INVARIANTS
  TypeOK
  TextKept
  IdsUnused
  HeldOnce
