SPECIFICATION Spec
CONSTANTS
  Lines = {l1}
  MaxGeneration = 3
  MaxClicks = 1
  MaxSteps = 2
  YieldEvery = 2
  MaxFaults = 0
PROPERTIES
  RunningEnds
  StopTakesEffect
CHECK_DEADLOCK FALSE
