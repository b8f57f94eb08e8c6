SPECIFICATION FairSpec
CONSTANTS
  h = h
  c = c
  d = d
  Peers = {h, c}
  Host = h
  None = None
  IdLists <- TwoIdLists
  MaxSends = 3
  MaxLost = 1
CHECK_DEADLOCK FALSE
INVARIANTS
  EventsInSameOrder
  EventGapsAreOverflows
PROPERTIES
  KickedPeerLeaves
  ImplementsRoom
