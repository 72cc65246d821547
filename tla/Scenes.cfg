SPECIFICATION ScenesSpec
CONSTANTS
  FramesInFlight = 2
  Files <- MCFiles
  ModelFiles <- MCModelFiles
  TextureFiles <- MCTextureFiles
  Imports <- MCImports
  EngineModels <- MCEngineModels
  Populated <- MCPopulated
  GameMaterials <- MCMaterials
  FirstSettings = "sky"
  Edited <- MCEdited
  FirstFiles <- MCFirstFiles
  NoSource = NoSource
  Bad = Bad
  Odd = Odd
  Terrain = Terrain
  Unregistered = Unregistered
  None = None
  MaxSceneEdits = 2
  MaxOpens = 1
  MaxSaves = 1
  MaxSceneEntities = 2
  MaxValueEdits = 1
  InitialScene <- MCEntities
  MaxEntities = 4
  MaxMaterials = 2
  ListedLoads = 1
  MaxEdits = 4
INVARIANTS
  FilesAreWhole
  TitleIsTrue
  MaterialsAreAccountedFor
  RefsAreHeld
  PlayLeavesNothing
  HierarchyShowsTheScene
PROPERTIES
  JobsSettle
CHECK_DEADLOCK FALSE
