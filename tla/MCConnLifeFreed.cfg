CONSTANTS
  MaxWrites = 3
  MaxChunks = 3
  WriteCap = 2
  EventCap = 1
  Closer = "app"
SPECIFICATION Spec
INVARIANT FreedUnused
CHECK_DEADLOCK FALSE
