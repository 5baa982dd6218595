CONSTANTS
  d = d
  c = c
  e = e
  MaxItems = 4
  Kind = "str"
  Syms = {d, c, e}
  Enc <- MCStrEnc
  Inputs <- MCInputs
  Preds = {{d}, {d, e}}
  Sizes = {0, 1, 2, 3}
SPECIFICATION Spec
INVARIANTS
  TypeOK
  WhileRangeMaximal
  CursorOnCharBoundary
  DistanceReplay
PROPERTIES
  OutcomeContract
  PartialResultsAgree
