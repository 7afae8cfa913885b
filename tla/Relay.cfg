SPECIFICATION FairSpec
CONSTANTS
  Instances = {x, y}
  Subscribers = {x}
  Messages = {m1, m2, m3}
  None = None
  RELAY_CAP = 2
  RELAY_BATCH = 1
  CHANNEL_CAP = 1
  MaxLost = 1
  RestartBound = 1
INVARIANTS RelayedOnceInOrder FloorAccountsForMessages
PROPERTIES AcceptedIsDelivered
CHECK_DEADLOCK FALSE
