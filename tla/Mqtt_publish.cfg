SPECIFICATION Spec
CONSTANTS
  IdSpace = 8
  KeepAlive = 3
  PacketTimeout = 2
  PacketTTL = 2
  MaxDelta = 1
  MaxAge = 5
  QosUsed = {0, 1, 2}
  Subscriber = FALSE
  InQos = {}
  MaxMsgs = 2
  MaxUnsub = 0
  MaxIn = 0
  MaxDrops = 1
INVARIANTS
  NothingLost
  AckedWasReceived
  AcksMatch
  TriesCounted
  DupMeansSentBefore
  PassedOnOnce
  FirstCopiesInOrder
  KeepAliveHonoured
PROPERTIES
  Delivers
