SPECIFICATION Spec
CONSTANTS
  Lines = {l1, l2}
  MaxDepth = 3
  MaxCalls = 3
INVARIANTS
  TypeOK
  StackBounded
PROPERTIES
  StopsExactlyWhenAsked
  PauseStops
  CancelEnds
CHECK_DEADLOCK FALSE
