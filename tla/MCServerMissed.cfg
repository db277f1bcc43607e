CONSTANTS
  Client = {c1, c2}
  MaxConns = 1
SPECIFICATION Spec
INVARIANT CloseClosesAll
CHECK_DEADLOCK FALSE
