CONSTANTS
  RingCap = 4
  ScratchLen = 5
  LineBuf = 3
  Chunks <- MCChunks
  MaxPieces = 2
  MaxReads = 4
SPECIFICATION Spec
INVARIANTS TextIntact LossBounded SizeSkew TerminalCurrent
CHECK_DEADLOCK FALSE
