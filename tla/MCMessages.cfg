SPECIFICATION Spec
CONSTANTS
  h = h
  c = c
  d = d
  Peers = {h, c, d}
  Host = h
  None = None
  IdLists <- MCIdLists
  MaxSends = 2
  MaxLost = 0
SYMMETRY Symmetry
CHECK_DEADLOCK FALSE
INVARIANTS
  SenderOrder
  VisitIsBracketed
PROPERTY
  OnlyHostKicks
