CONSTANTS
  a = a
  b = b
  MaxLen = 19
  Items = {a, b}
  Pred = {a}
  Inputs <- MCInputs
  Stride = 8
SPECIFICATION Spec
CHECK_DEADLOCK FALSE
INVARIANTS
  TypeOK
  UncheckedInBounds
  SplitsAtFirstFailing
PROPERTIES
  Terminates
