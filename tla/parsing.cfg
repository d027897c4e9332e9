SPECIFICATION Spec
CONSTANTS
  Programs <- SmallPrograms
  Typed <- SmallTyped
  MaxEdits = 1
  maxBlockNesting = 3
INVARIANTS
  PrintedTextReparses
  SilentMeansFaithful
  UnclosedCallKeepsItsBlock
  DeepNestingIsContained
CHECK_DEADLOCK FALSE
