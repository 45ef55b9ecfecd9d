SPECIFICATION Spec
CONSTANTS
  Scripts <- MCScripts
  Later <- MCLater
  InitSize = 4
  MaxSize = 40
  MaxStream = 80
  Width = 8
  StrCap = 2
  MaxStr = 8
INVARIANT TextsParsed
INVARIANT HandledRight
INVARIANT ClosedForCause
INVARIANT NothingLeft
PROPERTY ImplementsReadBuf
