------------------------------ MODULE MCFrame ------------------------------
(* What a frame of the renderer is made of, one part at a time: the plans of   *)
(* MCPlan, and a shadow atlas of three cascades whose least distances between  *)
(* redraws are 1, 2 and 3 frames, with counters that wrap (ShadowCache).       *)
EXTENDS MCPlan, ShadowCache

MCPeriods == [c \in 0 .. 2 |-> c + 1]

VARIABLE part

frameVars == << part, transientVars, shadowVars >>

FrameInit ==
  /\ ShadowInit
  /\ part \in {"plan", "shadows"}
  /\ TransientInit
  /\ part = "shadows" => graph = Frame(AllOn) /\ ~async /\ ~overlap

FrameNext ==
  /\ UNCHANGED part
  /\ \/ part = "plan" /\ TransientNext /\ UNCHANGED shadowVars
     \/ part = "shadows" /\ ShadowNext /\ UNCHANGED transientVars

FrameSpec == FrameInit /\ [][FrameNext]_frameVars
=============================================================================
