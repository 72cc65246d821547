SPECIFICATION StorageSpec
CONSTANTS
  Capacity = 3
  Sizes = {1, 3, 4}
  Alignments = {1, 4}
  MinAlignment = 2
  MaxCapacity = 14
  PoolCapacity = 3
  GenerationLimit = 8
  Owners = {mesh, texture}
  MaxIssued = 7
  fileA = fileA
  fileB = fileB
  vertexA = vertexA
  fragmentA = fragmentA
  fragmentB = fragmentB
  Files <- MCFiles
  Stages <- MCStages
  FileOf <- MCFileOf
  StagesOf <- MCStagesOf
  FramesInFlight = 2
  ObjectCapacity = 3
  MaxEdits = 3
  MaxRefusals = 1
  near1 = near1
  near2 = near2
  far = far
  Fine <- MCFine
  Coarse <- MCCoarse
  Views <- MCViews
  SlotsPerLod = 2
  RetireTicks = 2
  MaxGenerations = 2
  MaxUploads = 1
  MaxColliderUpdates = 1
  MaxEvictions = 1
  GraceFrames = 2
  MaxFailures = 1
INVARIANTS
  ChunksAccounted
  EveryByteAccountedFor
  HoldersOwnAlone
  ObjectsAreOwned
  CleanIsBuilt
  OneTryPerChange
PROPERTIES
  FineChunksCollide
  ResidencySettles
  ImplementsHandlePool
  EditsAreShown
CHECK_DEADLOCK FALSE
