SPECIFICATION Spec
CONSTANTS
  FramesInFlight = 2
  Queues = {graphics}
  Graphics = graphics
  Resources <- MCResources
  MaxFrames = 12
  Capacity = 10
  Textures = {"brick", "moss"}
  TextureKind <- MCKinds
  MaxRequests = 2
  MaxEdits = 1
  MaxSessions = 2
  Skies = {"noon", "dusk"}
  Panoramas = {"field.hdr"}
  CubeFiles = {"hall.ktx2"}
  BadFiles = {"broken.exr"}
  Provided = {"hall.ktx2"}
  Flat = "flat"
  ProceduralSky = "procedural_sky"
  Nothing = "nothing"
  FaceCount = 2
  MaxChanges = 3
  Layouts = {"small", "large"}
  NoLayout = "none"
  Materials = {m1, m2}
  FrameBound <- MCFrames
  MaxUpdates = 4
CHECK_DEADLOCK FALSE
INVARIANTS
  DescribedImagesLive
  TexturesArrive
  LightingFollows
PROPERTY
  MaterialsArrive
