SPECIFICATION FairSpec
CONSTANTS
  MaxAddresses = 3
  Sizes = {0, 1, 3}
  Room = 2
  MaxFiles = 4
  MaxAttempts = 3
  MaxOut = 4
INVARIANTS
  NetIsOpen
  LeaksBounded
PROPERTIES
  WholeBatches
  TransferEnds
CHECK_DEADLOCK FALSE
