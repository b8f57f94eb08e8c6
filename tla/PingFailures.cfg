SPECIFICATION Spec
CONSTANTS
  Peers = {p, q}
  Mute = {q}
  None = None
  MaxFailedPings = 2
  Delays = {1, 2}
  MaxRounds = 4
CHECK_DEADLOCK FALSE
PROPERTY
  EveryFailureIsAPing
