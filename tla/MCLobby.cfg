SPECIFICATION FairSpec
CONSTANTS
  Hosts = {h1, h2}
  Clients = {c1, c2}
  SessionIds = {g1}
  None = None
CHECK_DEADLOCK FALSE
INVARIANTS
  OnePinger
  MemberWhileOpen
  EntryHasOwner
  NoticesInOrder
  HostSeesNoGhosts
PROPERTIES
  HostIsForever
  PeerLeaves
  EverythingEnds
  ImplementsRoom
