SPECIFICATION FairSpec
CONSTANTS
  Chunks = 3
  Rows = 2
  SqlServer = FALSE
INVARIANTS
  TypeOK
  AllOrNothing
  ReportTrue
  NoteTrue
  CommitSpared
PROPERTIES
  ImportEnds
