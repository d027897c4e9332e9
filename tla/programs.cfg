SPECIFICATION Spec
CONSTANTS
  Worlds <- AllWorlds
  Lines <- SmallLines
  MaxStatements = 2
  NewNames <- Fresh
  MaxRenamed = 1
  maxDiagnostics = 6
  maxStatementNesting = 4
  maxSteps = 40
  maxCallDepth = 5
INVARIANTS
  AcceptedProgramsDoNotGoWrong
  StoreIsWellTyped
  RecordsAreNotShared
  RenameKeepsMeaning
CHECK_DEADLOCK FALSE
