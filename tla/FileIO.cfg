SPECIFICATION Spec
CONSTANTS
  Nil = Nil
  Path = {f1, f2}
  Var = {a, b}
  Value = {x1, x2}
  Line = {line1}
  MaxAddress = 1
  MaxLines = 2
INVARIANTS
  TypeOK
  CheckedExactly
PROPERTIES
  ReaderUndisturbed
  EofForetellsRead
  ImplementsFileStore
CHECK_DEADLOCK FALSE
