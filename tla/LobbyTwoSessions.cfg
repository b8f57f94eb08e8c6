SPECIFICATION Spec
CONSTANTS
  Hosts = {h1, h2}
  Clients = {c1, c2}
  SessionIds = {g1}
  None = None
CHECK_DEADLOCK FALSE
INVARIANT
  OneSessionPerId
