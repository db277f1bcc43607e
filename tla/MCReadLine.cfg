CONSTANTS
  RingCap = 4
  ScratchLen = 4
  LineBuf = 3
  Chunks <- MCPlain
  MaxPieces = 2
  MaxReads = 4
SPECIFICATION Spec
INVARIANT LinesExact
CHECK_DEADLOCK FALSE
