SPECIFICATION Spec
CONSTANTS
  Names = {}
  MaxTabs = 1
  MaxTexts = 1
  MaxRuns = 2
  MaxCrashes = 0
  MaxStrip = 2
  NamesReturn = FALSE
INVARIANTS
  StripOfOneRun
