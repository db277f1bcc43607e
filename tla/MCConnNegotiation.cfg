CONSTANTS
  server = server
  client = client
  echo = echo
  naws = naws
  odd = odd
  End <- MCEnd
  Option <- MCOption
  Supported <- MCSupported
  Enabled <- MCEnabled
  AppCommands <- MCCommands
  MaxCmdEvents = 16
  WriteCap = 3
SPECIFICATION Spec
INVARIANTS AgreeAtRest OffersTakeEffect
PROPERTY Converges
CHECK_DEADLOCK FALSE
