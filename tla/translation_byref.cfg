SPECIFICATION Spec
CONSTANTS
  Worlds <- Wholes
  Lines <- SmallLines
  Reserved <- KeptNames
  MaxStatements = 2
  Fuel = 60
  maxDiagnostics = 6
  maxStatementNesting = 4
  maxSteps = 60
  maxCallDepth = 6
INVARIANTS
  PythonKeepsInStep
CHECK_DEADLOCK FALSE
