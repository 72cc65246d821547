SPECIFICATION FrameSpec
CONSTANTS
  Resources <- MCResources
  Imported <- MCImported
  Images <- MCImages
  Concurrent <- MCConcurrent
  Tokens <- FrameTokens
  Entry <- MCEntry
  Exit <- MCExit
  Requirement <- MCRequirement
  Graphs <- MCGraphs
  OverlapWindow = 2
  Periods <- MCPeriods
  CameraEnd = 3
  MaxCount = 4
  MaxStirs = 3
INVARIANTS PlanSound ConflictsOrdered ScheduleSound MemoryShared UsesAreDeclared SampledAsRendered
CHECK_DEADLOCK FALSE
