SPECIFICATION Spec
CONSTANTS
  IdSpace = 2
  KeepAlive = 3
  PacketTimeout = 2
  PacketTTL = 2
  MaxDelta = 2
  MaxAge = 6
  QosUsed = {1, 2}
  Subscriber = FALSE
  InQos = {}
  MaxMsgs = 2
  MaxUnsub = 0
  MaxIn = 0
  MaxDrops = 1
INVARIANTS
  NothingLost
  TriesBounded
