SPECIFICATION FairSpec
CONSTANTS
  Peers = {p, q}
  Mute = {q}
  None = None
  MaxFailedPings = 3
  Delays = {1, 2}
  MaxRounds = 6
CHECK_DEADLOCK FALSE
INVARIANTS
  TypeOK
  BestIsFastest
PROPERTIES
  AnswersAdvance
  DropIsEarned
  SilentPeerIsDropped
