SPECIFICATION ScenesSpec
CONSTANTS
  FramesInFlight = 2
  Files <- MCFiles
  ModelFiles <- MCModelFiles
  TextureFiles <- MCTextureFiles
  Imports <- MCImports
  EngineModels <- MCEngineModels
  Populated <- MCPopulated
  GameMaterials <- MCMaterials
  FirstSettings = "sky"
  Edited <- MCEdited
  FirstFiles <- MCFirstFiles
  NoSource = NoSource
  Bad = Bad
  Odd = Odd
  Terrain = Terrain
  Unregistered = Unregistered
  None = None
  MaxSceneEdits = 2
  MaxOpens = 2
  MaxSaves = 2
  MaxSceneEntities = 2
  MaxValueEdits = 1
  InitialScene <- MCEntities
  MaxEntities = 4
  MaxMaterials = 2
  ListedLoads = 1
  MaxEdits = 0
INVARIANTS PlainSavesGoHome
CHECK_DEADLOCK FALSE
