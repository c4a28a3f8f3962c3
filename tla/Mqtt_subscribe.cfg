SPECIFICATION Spec
CONSTANTS
  IdSpace = 2
  KeepAlive = 3
  PacketTimeout = 2
  PacketTTL = 2
  MaxDelta = 1
  MaxAge = 5
  QosUsed = {0, 1, 2}
  Subscriber = TRUE
  InQos = {0, 1, 2}
  MaxMsgs = 0
  MaxUnsub = 1
  MaxIn = 2
  MaxDrops = 1
INVARIANTS
  OneConnect
  AcksAnswerThisSession
