CONSTANTS
  FramesInFlight = 2
  Queues = {graphics, compute}
  Slices = {mesh}
  Pairs = {small, large, huge}
  Resources <- Accesses
  MaxFrames = 4
  Paths = {crate, tree}
  ModelCapacity = 3
  MaxWork = 1
  MaxIssued = 3
  MaxHeld = 2
SPECIFICATION AssetsSpec
INVARIANTS
  FramesKeepApart
  DrawnGeometryKept
  ArenaSound
  RefsAreOwners
  DrawnMeshesGoWithModels
PROPERTIES
  LoopKeepsRunning
  RequestsSettle
CHECK_DEADLOCK FALSE
