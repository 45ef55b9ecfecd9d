SPECIFICATION Spec
CONSTANTS
  w1 = w1
  w2 = w2
  a = a
  b = b
  Workers = {w1, w2}
  Servers = {a, b}
  Times = {5}
  Lens = {0, 300, 600}
  MaxServers = 2
  MaxCycles = 2
  MayChange = FALSE
INVARIANT RunsUsable
INVARIANT NoNullConf
SYMMETRY Symmetry
