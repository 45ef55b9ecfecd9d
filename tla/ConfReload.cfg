SPECIFICATION Spec
CONSTANTS
  w1 = w1
  w2 = w2
  a = a
  b = b
  Workers = {w1, w2}
  Servers = {a, b}
  Times = {5}
  Lens = {0}
  MaxServers = 2
  MaxCycles = 2
  MayChange = TRUE
INVARIANT NoNullConf
