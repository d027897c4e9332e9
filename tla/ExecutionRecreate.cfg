SPECIFICATION Spec
CONSTANTS
  Lines = {l1}
  MaxGeneration = 2
  MaxClicks = 0
  MaxSteps = 2
  YieldEvery = 1
  MaxFaults = 1
INVARIANTS
  SubsequentRunsWork
CHECK_DEADLOCK FALSE
