CONSTANTS
  WriteCap = 6
  Texts <- MCTexts
  Zipped <- MCZipped
  Commands <- MCCommands
  Subnegs <- MCSubnegs
  OptMCCP2 = 86
  Observed = 9
  MaxCalls = 6
  MaxFaults = 1
SPECIFICATION Spec
INVARIANTS Delivered Complete
CHECK_DEADLOCK FALSE
