SPECIFICATION Spec
CONSTANTS
  InitSize = 3
  MaxSize = 12
  Payloads = {0, 7}
  MaxLen = 13
  MaxStream = 16
  OsFaults = TRUE
INVARIANT ParsesStream
INVARIANT RecvRoom
