SPECIFICATION CodecsSpec
CONSTANTS
  Attributes <- MCAttributes
  Palette = 6
  MSDPMaps <- MCMSDPMaps
  MSSPLists <- MCMSSPLists
  GMCPMessages <- MCGMCPMessages
  MCPMessages <- MCMCPMessages
  Texts <- MCTexts
  Ellipses <- MCEllipses
  WordLists <- MCWordLists
  BoxLines <- MCBoxLines
  Widths = {0, 1, 2, 3, 4, 5, 6}
  Streams <- MCStreams
INVARIANTS MsdpRoundTrip MessagesRoundTrip FitsWidth CutsInvisible VariantsStable
CHECK_DEADLOCK FALSE
