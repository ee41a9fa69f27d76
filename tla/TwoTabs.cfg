SPECIFICATION Spec
CONSTANTS
  Statements = {1, 2}
  Grids = {1, 2}
  Runs = {1, 2}
  Profiles = {p1}
  NoProfile = NoProfile
  Tabs = {t1, t2}
  Selections = {}
  Gated = {2}
  Batches = {}
  ExpectedSets = 1
  MaxSets = 1
  AtOnceLimit = 1
  AnswersFirst = TRUE
  WhenConnected = TRUE
SYMMETRY AnyTab
INVARIANTS
  RunHasTask
