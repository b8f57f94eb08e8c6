SPECIFICATION FairSpec
CONSTANTS
  Capacity = 2
  MaxAccepted = 5
  Coroutines = {c1, c2}
  Invalidators = {pinger, owner}
INVARIANTS
  TypeOK
  SingleSender
  NoStrandedMessage
  NoLossWhileConnected
PROPERTIES
  ImplementsChannel
  QueuedMessageLeaves
  SenderEndsAfterDisconnect
