SPECIFICATION Spec
CONSTANTS
  Refused = Refused
  Nothing = Nothing
  p0 = p0
  p1 = p1
  p2 = p2
  pBad = pBad
  y0 = y0
  y1 = y1
  y2 = y2
  yBad = yBad
  Text <- Texts
  Translate <- Translators
  Starter <- StarterProgram
  Empty <- EmptyBuffers
  Large <- LargeTexts
  MaxEdits = 3
  MaxLoads = 2
INVARIANTS
  ChipTellsTruth
PROPERTIES
  EditIsKept
  RefreshKeepsWork
  Settles
CHECK_DEADLOCK FALSE
