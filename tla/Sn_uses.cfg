SPECIFICATION Spec
CONSTANTS
  Uses <- MCUses
  Damage = {0, 1, 6, 12, 255}
INVARIANTS
  InOrder
  BufferExact
  PassedOn
CHECK_DEADLOCK FALSE
