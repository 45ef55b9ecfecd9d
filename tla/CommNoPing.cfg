SPECIFICATION LiveSpec
CONSTANTS
  s1 = s1
  s2 = s2
  c1 = c1
  c2 = c2
  NoSock = NoSock
  N = 1
  Clients = {c1}
  Socks = {s1}
  Behaves <- Reliable
  CallbackCalls = {"connected", "msg"}
  NestedErrors = FALSE
  OsFaults = FALSE
  MaxCalls = 0
  MaxChat = 0
  MaxSid = 2
PROPERTY KeepsPinging
