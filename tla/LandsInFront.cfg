SPECIFICATION Spec
CONSTANTS
  Statements = {1, 2}
  Grids = {1, 2, 3}
  Runs = {1, 2, 3}
  Profiles = {p1, p2}
  NoProfile = NoProfile
  Tabs = {t1}
  Selections <- Pair
  Gated = {}
  Batches = {}
  ExpectedSets = 1
  MaxSets = 1
  AtOnceLimit = 1
  AnswersFirst = TRUE
  WhenConnected = TRUE
INVARIANTS
  FinishedInDone
