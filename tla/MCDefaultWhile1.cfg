CONSTANTS
  a = a
  z = z
  err = err
  Items <- MCItems
  IoError = err
  Pred <- MCPred
  Inputs <- MCInputs
SPECIFICATION Spec
INVARIANT While1ConsumedIffMatched
