SPECIFICATION Spec
CONSTANTS
  Programs <- ChainedNests
  Typed <- SmallTyped
  MaxEdits = 0
  maxBlockNesting = 3
INVARIANTS
  DeepNestingIsContained
CHECK_DEADLOCK FALSE
