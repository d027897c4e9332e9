SPECIFICATION Spec
CONSTANTS
  Lines = {l1}
  MaxGeneration = 5
  MaxClicks = 1
  MaxSteps = 2
  YieldEvery = 1
  MaxFaults = 1
INVARIANTS
  NoSilentStall
  RunInv
  PromiseTracksState
  PromptIsAwaited
  PausedIsParked
  FinishedDeliveredAllOutput
PROPERTIES
  EndedStaysEnded
  ImplementsLifecycle
  StoppedRunsNoMore
CONSTRAINT ThirdIsPlain
CHECK_DEADLOCK FALSE
