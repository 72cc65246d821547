SPECIFICATION FrameSpec
CONSTANTS
  Resources <- MCResources
  Imported <- MCImported
  Images <- MCImages
  Concurrent <- MCConcurrent
  Tokens <- FrameTokens
  Entry <- MCEntry
  Exit <- MCExit
  Requirement <- MCRequirement
  Graphs <- MCFrames
  OverlapWindow = 2
  Periods <- MCPeriods
  CameraEnd = 1
  MaxCount = 8
  MaxStirs = 1
INVARIANTS TilesCatchUp
CHECK_DEADLOCK FALSE
