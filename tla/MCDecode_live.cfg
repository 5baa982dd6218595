CONSTANTS
  d1 = d1
  d2 = d2
  c = c
  x = x
  Digits <- MCDigitsOne
  Comma = c
  Bytes <- MCBytesOne
  MaxBytes = 4
SPECIFICATION Spec
PROPERTIES EventuallyDecoded
CHECK_DEADLOCK FALSE
