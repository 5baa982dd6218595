CONSTANTS
  d = d
  c = c
  e = e
  MaxItems = 2
  Kind = "str"
  Syms = {d, c, e}
  Enc <- MCStrEnc
  Inputs <- MCInputs
  Preds = {{d}, {d, e}}
  Sizes = {0, 1, 2, 3}
SPECIFICATION Spec
INVARIANT DistanceCountsItems
