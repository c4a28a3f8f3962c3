SPECIFICATION Spec
CONSTANTS
  Uses <- MCUses
  Damage = {0, 1, 2, 5, 255}
INVARIANTS
  LengthKept
  BufferExact
  RoundTrip
  PassedOn
CHECK_DEADLOCK FALSE
