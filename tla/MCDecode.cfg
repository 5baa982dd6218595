CONSTANTS
  d1 = d1
  d2 = d2
  c = c
  x = x
  Digits <- MCDigits
  Comma = c
  Bytes <- MCBytes
  MaxBytes = 6
SPECIFICATION Spec
INVARIANTS TypeOK NoSplitPanic
PROPERTIES ChunkedIsSingleShot
CHECK_DEADLOCK FALSE
