SPECIFICATION TransientSpec
CONSTANTS
  Resources <- MCResources
  Imported <- MCImported
  Images <- MCImages
  Concurrent <- MCConcurrent
  Tokens <- FrameTokens
  Entry <- MCEntry
  Exit <- MCExit
  Requirement <- MCRequirement
  Graphs <- MCFrames
  OverlapWindow = 2
INVARIANTS SceneIsComposed
CHECK_DEADLOCK FALSE
