SPECIFICATION LiveSpec
CONSTANTS
  s1 = s1
  s2 = s2
  c1 = c1
  c2 = c2
  NoSock = NoSock
  N = 3
  Clients = {c1}
  Socks = {s1}
  Behaves <- FirstUnreliable
  CallbackCalls = {"connected", "msg"}
  NestedErrors = FALSE
  OsFaults = FALSE
  MaxCalls = 1
  MaxChat = 0
  MaxSid = 2
PROPERTY EventuallyReady
