SPECIFICATION FairSpec
CONSTANTS
  Words = 1
  Readings <- MCReadings
  Noise = {66}
  BufferSize = 25
  MaxFaults = 1
INVARIANTS
  TypeOK
  Genuine
  LossBounded
PROPERTIES
  Resyncs
