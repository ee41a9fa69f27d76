SPECIFICATION FairSpec
CONSTANTS
  Statements = {1, 2}
  Grids = {1, 2, 3, 4}
  Runs = {1, 2, 3}
  Profiles = {p1}
  NoProfile = NoProfile
  Tabs = {t1}
  Selections <- Pair
  Gated = {0, 2}
  Batches = {2}
  ExpectedSets = 2
  MaxSets = 2
  AtOnceLimit = 1
  AnswersFirst = TRUE
  WhenConnected = TRUE
INVARIANTS
  TypeOK
  OwnRows
  StripInOrder
  AwaitingIsOut
  HeldIsAsked
  LoanHasRun
  LastIsSlots
PROPERTIES
  NothingAfterStop
  Freed
  QueueSettles
