SPECIFICATION Spec
CONSTANTS
  InitSize = 3
  MaxSize = 12
  GrowsHalfSent = TRUE
  MaxLen = 8
  MaxStream = 16
  OsFaults = TRUE
INVARIANT SendsStream
