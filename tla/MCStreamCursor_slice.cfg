CONSTANTS
  d = d
  c = c
  e = e
  MaxItems = 5
  Kind = "slice"
  Syms = {d, c}
  Enc <- MCSliceEnc
  Inputs <- MCInputs
  Preds = {{d}, {}}
  Sizes = {0, 1, 2, 3}
SPECIFICATION Spec
INVARIANTS
  TypeOK
  DistanceReplay
PROPERTIES
  OutcomeContract
  PartialResultsAgree
