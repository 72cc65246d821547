------------------------------ MODULE MCAssets ------------------------------
(* The geometry and the models of src/assets small enough for TLC, one at a   *)
(* time: a slice and three buffer pairs of the arena in the main loop         *)
(* (GeometryLifetime), and, when the frames the model may open are over, two  *)
(* files and three models that stream in (ModelStreaming).                    *)
EXTENDS GeometryLifetime, ModelStreaming

VARIABLE part

assetsVars == << part, vars, streamerVars >>

\* The loop after MaxFrames frames that drew nothing.
FramesAreOver ==
  /\ phase = "between"
  /\ frameNumber = MaxFrames
  /\ slot = MaxFrames % FramesInFlight
  /\ recreateRequested = FALSE
  /\ value = [q \in Queues |-> MaxFrames]
  /\ lastValue = [s \in Slots |-> [q \in Queues |->
                    IF s = slot THEN MaxFrames - 1 ELSE MaxFrames]]
  /\ done = value
  /\ recording = {} /\ inFlight = {}
  /\ live = {} /\ retiring = {} /\ retiredPairs = {}
  /\ pair = CHOOSE p \in Pairs : TRUE

AssetsInit ==
  /\ StreamerInit
  /\ \/ part = "geometry" /\ Init
     \/ part = "models" /\ FramesAreOver

AssetsNext ==
  /\ UNCHANGED part
  /\ \/ part = "geometry" /\ Next /\ UNCHANGED streamerVars
     \/ part = "models" /\ StreamerNext /\ UNCHANGED vars

AssetsSpec ==
  AssetsInit /\ [][AssetsNext]_assetsVars /\ LoopFairness /\ StreamerFairness
=============================================================================
