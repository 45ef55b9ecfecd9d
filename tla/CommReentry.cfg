SPECIFICATION Spec
CONSTANTS
  s1 = s1
  s2 = s2
  c1 = c1
  c2 = c2
  NoSock = NoSock
  N = 2
  Clients = {c1}
  Socks = {s1, s2}
  Behaves <- Everything
  CallbackCalls = {"disconnected"}
  NestedErrors = TRUE
  OsFaults = FALSE
  MaxCalls = 2
  MaxChat = 0
  MaxSid = 2
INVARIANT OneConnection
