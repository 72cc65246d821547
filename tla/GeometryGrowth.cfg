CONSTANTS
  FramesInFlight = 2
  Queues = {graphics}
  Slices = {mesh, chunk}
  Pairs = {small, large, huge}
  Resources <- Accesses
  MaxFrames = 4
SPECIFICATION Spec
INVARIANT CopiedPairsKept
CHECK_DEADLOCK FALSE
