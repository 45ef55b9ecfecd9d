SPECIFICATION Spec
CONSTANTS
  s1 = s1
  s2 = s2
  c1 = c1
  c2 = c2
  NoSock = NoSock
  N = 2
  Clients = {c1, c2}
  Socks = {s1, s2}
  Behaves <- Everything
  CallbackCalls = {"connected", "msg"}
  NestedErrors = FALSE
  OsFaults = TRUE
  MaxCalls = 3
  MaxChat = 1
  MaxSid = 2
SYMMETRY Symmetry
INVARIANTS TypeOK NoFault OneConnection NeverStuck ClientView NoStaleSubs WriteProgress ReadyAgreed NoTightLoop ControlInv ClientInv
PROPERTIES ConnectedOnce TimerHonoured
