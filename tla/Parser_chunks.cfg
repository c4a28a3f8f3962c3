SPECIFICATION Spec
CONSTANTS
  Modes = {"parse", "read"}
  Radix = 2
  MaxDigits = 2
  Headers = {1, 2, 3}
  Malformed = {3}
  Alphabet = {0, 1, 2, 3}
  MaxChunk = 3
  MaxBytes = 6
INVARIANTS
  ChunksDoNotMatter
PROPERTIES
  StuckForEver
