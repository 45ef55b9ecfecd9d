SPECIFICATION Spec
CONSTANTS
  NoCall = NoCall
  Clients = {c1, c2}
  Maxima = {0, 2}
  Lengths = {0, 1}
  Strings = {0}
  StaleHandles = FALSE
  OsFaults = TRUE
  MaxSubs = 2
  MaxOut = 3
  MaxIn = 2
  MaxSent = 2
SYMMETRY Symmetry
INVARIANTS TypeOK RightSubscription SidsKnown HandlesOwned FramesKept Agree TalkInv
PROPERTY ImplementsPubSub
