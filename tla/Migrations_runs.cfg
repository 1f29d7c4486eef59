\* Two deployments whose releases have any of two files, in either text.
SPECIFICATION FairMigSpec
CONSTANTS
  Runners = {r1, r2}
  Names = {1, 2}
  Texts = {a, b}
  Null = Null
INVARIANTS
  MigTypeOK
  RecordIsSchema
  RunsDoNotCollide
  ModifiedMeansChanged
PROPERTIES
  ImplementsLog
  EveryRunEnds
\* Every run ends.
CHECK_DEADLOCK FALSE
