SPECIFICATION Spec
CONSTANTS
  Worlds <- AllWorlds
  Lines <- SmallLines
  Reserved <- KeptNames
  MaxStatements = 2
  Fuel = 60
  maxDiagnostics = 6
  maxStatementNesting = 4
  maxSteps = 60
  maxCallDepth = 6
INVARIANTS
  PythonKeepsInStep
  PythonRecordsAreNotShared
CHECK_DEADLOCK FALSE
