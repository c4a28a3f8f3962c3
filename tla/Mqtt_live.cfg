SPECIFICATION FairSpec
CONSTANTS
  IdSpace = 2
  KeepAlive = 3
  PacketTimeout = 2
  PacketTTL = 2
  MaxDelta = 1
  MaxAge = 5
  QosUsed = {1, 2}
  Subscriber = TRUE
  InQos = {2}
  MaxMsgs = 1
  MaxUnsub = 0
  MaxIn = 1
  MaxDrops = 1
PROPERTIES
  Settles
  SessionOpens
  Resubscribes
