SPECIFICATION FairSpec
CONSTANTS
  Sockets = {s1, s2}
  Sections <- MCSections
  Configured = {snake, chess}
  GameIds = {snake, chess, go}
  SessionIds = {g1}
  None = None
CHECK_DEADLOCK FALSE
INVARIANTS
  ApisAtTheirAddresses
  PeersComeByTheirApi
  OneGamePerId
PROPERTY
  RequestIsAnswered
