SPECIFICATION ReloadSpec
CONSTANTS
  fileA = fileA
  fileB = fileB
  vertexA = vertexA
  fragmentA = fragmentA
  fragmentB = fragmentB
  Files <- MCFiles
  Stages <- MCStages
  FileOf <- MCFileOf
  StagesOf <- MCStagesOf
  FramesInFlight = 2
  ObjectCapacity = 3
  MaxEdits = 3
  MaxRefusals = 1
INVARIANTS BuiltStagesAreCached
