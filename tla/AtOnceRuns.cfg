SPECIFICATION Spec
CONSTANTS
  Statements = {1, 2}
  Grids = {1, 2, 3, 4}
  Runs = {1, 2, 3}
  Profiles = {p1}
  NoProfile = NoProfile
  Tabs = {t1}
  Selections <- Pair
  Gated = {}
  Batches = {1}
  ExpectedSets = 2
  MaxSets = 2
  AtOnceLimit = 1
  AnswersFirst = TRUE
  WhenConnected = TRUE
INVARIANTS
  TaskOwnsSlot
  EntryHasTask
  StripInOrder
  OwnGrids
