SPECIFICATION MCSpec
CHECK_DEADLOCK FALSE
CONSTANTS
  None = None
  Parts = {"settling", "reconfiguring", "editing", "progressing"}
  InitialTexts <- MCTexts
  Configurations <- MCConfigurations
  Insertions <- MCInsertions
  MaxDeleted = 1
  LineBudget = 1
  ByteBudget = 2
  CheckpointInterval = 2
  MaxEdits = 2
  MaxConfigures = 1
  MaxRejections = 1
INVARIANTS
  SettlesAsWritten
  EditsLoseNothing
PROPERTY Settles
