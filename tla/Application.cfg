SPECIFICATION ApplicationSpec
CONSTANTS
  FramesInFlight = 2
  None = None
  Machines <- MCMachines
  AsyncModes = {"auto", "same-family"}
  MaxChanges = 1
  Workers = {w1, w2}
  Requests = {r1, r2}
  Files = {f1}
  ShareDestinations = FALSE
  Scenarios <- MCScenarios
  OptionSets <- MCOptions
  CaseWarmup = 2
  MaxFaults = 1
  MaxFrames = 30
INVARIANTS
  MeasurementsAreTheirOwn
  NothingOutlivesTheClient
  DoneIsThere
PROPERTIES
  TearsDownInOrder
  BenchmarkRunsEnd
  NobodyWaitsForEver
CHECK_DEADLOCK FALSE
