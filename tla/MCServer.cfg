CONSTANTS
  Client = {c1, c2, c3}
  MaxConns = 2
SPECIFICATION Spec
INVARIANTS TypeOK OpenBounded TokensMatch NothingLeft
PROPERTIES ServeStops CloseEnds
CHECK_DEADLOCK FALSE
