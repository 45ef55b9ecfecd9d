SPECIFICATION Spec
CONSTANTS
  s1 = s1
  s2 = s2
  c1 = c1
  c2 = c2
  NoSock = NoSock
  N = 2
  Clients = {c1}
  Socks = {s1, s2}
  Behaves <- Everything
  CallbackCalls = {"connected", "msg"}
  NestedErrors = TRUE
  OsFaults = FALSE
  MaxCalls = 3
  MaxChat = 1
  MaxSid = 2
INVARIANT ReadPosInBuffer
