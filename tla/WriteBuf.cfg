SPECIFICATION Spec
CONSTANTS
  InitSize = 3
  MaxSize = 12
  GrowsHalfSent = FALSE
  MaxLen = 8
  MaxStream = 16
  OsFaults = TRUE
INVARIANT SendsStream
