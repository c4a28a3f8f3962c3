SPECIFICATION FairSpec
CONSTANTS
  Measurements = 3
  Requests = 2
INVARIANTS
  LostOnlyIfDisturbed
  SentOnce
  FitsButForLate
PROPERTIES
  WalksEnd
