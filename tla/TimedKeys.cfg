SPECIFICATION Spec
CONSTANTS
  Progs <- MCProgs
  Timeouts = {0, 1, 3}
  MaxKeys = 3
INVARIANTS
  TypeOK
  YesOnlyIfPressed
  Restored
PROPERTIES
  WaitsInFull
  Ends
CHECK_DEADLOCK FALSE
