SPECIFICATION Spec
CONSTANTS
  Uses <- ReadAlone
  Damage = {}
PROPERTIES
  ReadsAPacket
CHECK_DEADLOCK FALSE
